---------------------------- MODULE PlatformPoll ----------------------------
(***************************************************************************)
(* How a kick of the peer makes an OpenAMP application process its receive *)
(* ring: the notify operation of the peer, the interrupt handler of this   *)
(* side, and platform_poll with its system_suspend, for the five ports:    *)
(*                                                                         *)
(*   r5_freertos, r5_generic   machine/xlnx/zynqmp_r5, an IPI interrupt    *)
(*                             that preempts the one task                  *)
(*   zynqmp_linux              machine/xlnx/zynqmp, the handler runs in    *)
(*                             libmetal's interrupt thread                 *)
(*   linux_generic             system/linux/machine/generic, a byte in a   *)
(*                             UNIX socket stands for the interrupt        *)
(*   no_ipi                    a word in shared memory that is polled      *)
(*                             (RPMSG_NO_IPI)                              *)
(*                                                                         *)
(* metal_irq_save_disable masks the interrupt on the R5 and takes the lock *)
(* libmetal holds around a handler on Linux: either way the handler and a  *)
(* section with interrupts disabled exclude each other.  The ring belongs  *)
(* to the OpenAMP library; messages in it are counted.                     *)
(***************************************************************************)
EXTENDS Naturals

CONSTANTS
    Ports,     \* the ports to consider
    MaxMsgs,   \* messages the peer sends; the last one ends the application
    ReadMax    \* bytes one read of the socket takes (32 in the code)

AllPorts == {"r5_freertos", "r5_generic", "zynqmp_linux", "linux_generic", "no_ipi"}

ASSUME PollAssumption == /\ Ports \subseteq AllPorts
                         /\ MaxMsgs \in Nat
                         /\ ReadMax \in Nat \ {0}

VARIABLES
    port,        \* the port of this run
    put, got,    \* messages the peer has put, messages dispatched
    peer,        \* the peer: "idle", or "kick" between put and notify
    line,        \* the IPI status bit, the bytes in the socket, the polled word
    enabled,     \* the handler is registered and the interrupt enabled
    ipi_nokick,  \* the flag the handler clears (sync on linux_generic)
    irqsOff,     \* this side is between save_disable and restore_enable
    handler,     \* where the handler is
    suspended,   \* the task is on FreeRTOS' suspended list
    pc           \* where the application's task is

taskVars == <<pc, irqsOff, suspended>>
irqVars  == <<line, enabled, ipi_nokick, handler>>
msgVars  == <<put, got, peer>>
vars     == <<port, taskVars, irqVars, msgVars>>

R5       == {"r5_freertos", "r5_generic"}
IpiPorts == R5 \cup {"zynqmp_linux"}
IrqPorts == IpiPorts \cup {"linux_generic"}

(* Before this side is initialised an IPI of an earlier run may be pending *)
(* and the polled word may hold anything; ipi_nokick is static storage.    *)
Init ==
    /\ port \in Ports
    /\ line \in IF port = "linux_generic" THEN {0} ELSE {0, 1}
    /\ put = 0 /\ got = 0 /\ peer = "idle"
    /\ enabled = FALSE /\ ipi_nokick = FALSE /\ handler = "idle"
    /\ irqsOff = FALSE /\ suspended = FALSE /\ pc = "init"
-----------------------------------------------------------------------------
(* The task.  On the R5 it does not run while the handler does.            *)
TaskAt(label) == pc = label /\ (port \in R5 => handler = "idle")

(* The init operations: the flag is set and the handler registered and     *)
(* enabled.  No port clears a pending IPI.                                 *)
zynqmp_r5_a53_proc_init ==
    /\ port \in R5
    /\ TaskAt("init")
    /\ ipi_nokick' = TRUE /\ enabled' = TRUE /\ pc' = "vdev"
    /\ UNCHANGED <<port, line, handler, irqsOff, suspended, msgVars>>

zynqmp_linux_r5_proc_init ==
    /\ port = "zynqmp_linux"
    /\ TaskAt("init")
    /\ ipi_nokick' = TRUE /\ enabled' = TRUE /\ pc' = "vdev"
    /\ UNCHANGED <<port, line, handler, irqsOff, suspended, msgVars>>

(* Here the flag is left as it is: clear.                                  *)
linux_proc_init ==
    /\ port = "linux_generic"
    /\ TaskAt("init")
    /\ enabled' = TRUE /\ pc' = "vdev"
    /\ UNCHANGED <<port, line, ipi_nokick, handler, irqsOff, suspended, msgVars>>

(* Without an interrupt the polled word is reset.                          *)
NoIpiInit ==
    /\ port = "no_ipi"
    /\ TaskAt("init")
    /\ line' = 0 /\ pc' = "vdev"
    /\ UNCHANGED <<port, enabled, ipi_nokick, handler, irqsOff, suspended, msgVars>>

(* From here on the peer can put messages into the ring.                   *)
platform_create_rpmsg_vdev ==
    /\ TaskAt("vdev")
    /\ pc' = "poll"
    /\ UNCHANGED <<port, irqsOff, suspended, irqVars, msgVars>>

(* Mutation: the test runs with interrupts enabled.                        *)
PollTestIrqsOn ==
    /\ port \in IrqPorts
    /\ TaskAt("poll")
    /\ ipi_nokick' = TRUE
    /\ pc' = IF ipi_nokick THEN "suspend" ELSE "drain"
    /\ UNCHANGED <<port, line, enabled, handler, irqsOff, suspended, msgVars>>

(* platform_poll: with interrupts disabled, test and set the flag.  Found  *)
(* clear: restore, process the ring.  Found set: suspend.                  *)
PollTest ==
    /\ port \in IrqPorts
    /\ TaskAt("poll") /\ handler = "idle"
    /\ ipi_nokick' = TRUE
    /\ IF ipi_nokick
       THEN pc' = "suspend" /\ irqsOff' = TRUE
       ELSE pc' = "drain" /\ UNCHANGED irqsOff
    /\ UNCHANGED <<port, line, enabled, handler, suspended, msgVars>>

(* platform_poll with RPMSG_NO_IPI: nothing resets the word once set.      *)
PollWord ==
    /\ port = "no_ipi"
    /\ TaskAt("poll")
    /\ line # 0
    /\ pc' = "drain"
    /\ UNCHANGED <<port, irqsOff, suspended, irqVars, msgVars>>

(* system_suspend with interrupts still disabled.  vTaskSuspend puts the   *)
(* task on the suspended list before any other task, and with it the       *)
(* interrupt, runs; the other ports only yield.                            *)
system_suspend ==
    /\ TaskAt("suspend")
    /\ IF port = "r5_freertos"
       THEN pc' = "suspended" /\ suspended' = TRUE /\ irqsOff' = FALSE
       ELSE pc' = "restore" /\ UNCHANGED <<suspended, irqsOff>>
    /\ UNCHANGED <<port, irqVars, msgVars>>

(* vTaskSuspend returns once the task has been resumed.                    *)
SuspendReturns ==
    /\ TaskAt("suspended") /\ ~suspended
    /\ pc' = "restore" /\ irqsOff' = TRUE
    /\ UNCHANGED <<port, suspended, irqVars, msgVars>>

PollRestore ==
    /\ TaskAt("restore")
    /\ pc' = "poll" /\ irqsOff' = FALSE
    /\ UNCHANGED <<port, suspended, irqVars, msgVars>>

(* remoteproc_get_notification: the receive callback takes messages out of *)
(* the ring until it finds none, then platform_poll returns.  The last     *)
(* message makes the application leave its loop.                           *)
remoteproc_get_notification ==
    /\ TaskAt("drain")
    /\ IF got < put
       THEN got' = got + 1 /\ UNCHANGED pc
       ELSE pc' = (IF got = MaxMsgs THEN "remove" ELSE "poll") /\ UNCHANGED got
    /\ UNCHANGED <<port, put, peer, irqsOff, suspended, irqVars>>

(* Mutation: the interrupt is left enabled.                                *)
RemoveLeavesEnabled ==
    /\ port \in R5
    /\ TaskAt("remove")
    /\ pc' = "removed"
    /\ UNCHANGED <<port, irqsOff, suspended, irqVars, msgVars>>

(* The remove operations: disable and unregister; on Linux unregistering   *)
(* waits for the lock held around the handler.                             *)
zynqmp_r5_a53_proc_remove ==
    /\ port \in R5
    /\ TaskAt("remove")
    /\ enabled' = FALSE /\ pc' = "removed"
    /\ UNCHANGED <<port, line, ipi_nokick, handler, irqsOff, suspended, msgVars>>

zynqmp_linux_r5_proc_remove ==
    /\ port = "zynqmp_linux"
    /\ TaskAt("remove") /\ handler = "idle"
    /\ enabled' = FALSE /\ pc' = "removed"
    /\ UNCHANGED <<port, line, ipi_nokick, handler, irqsOff, suspended, msgVars>>

linux_proc_remove ==
    /\ port = "linux_generic"
    /\ TaskAt("remove") /\ handler = "idle"
    /\ enabled' = FALSE /\ line' = 0 /\ pc' = "removed"
    /\ UNCHANGED <<port, ipi_nokick, handler, irqsOff, suspended, msgVars>>

NoIpiRemove ==
    /\ port = "no_ipi"
    /\ TaskAt("remove")
    /\ pc' = "removed"
    /\ UNCHANGED <<port, irqsOff, suspended, irqVars, msgVars>>
-----------------------------------------------------------------------------
(* The interrupt handler. *)

Raised == handler = "idle" /\ line > 0 /\ enabled /\ ~irqsOff

HandlerFrame == UNCHANGED <<port, enabled, pc, irqsOff, msgVars>>

(* Mutation: the handler does not resume the task.                         *)
R5HandlerNoResume ==
    /\ port \in R5
    /\ \/ /\ Raised
          /\ ipi_nokick' = FALSE /\ handler' = "ack"
          /\ UNCHANGED <<line, suspended>>
       \/ /\ handler = "ack"
          /\ line' = 0 /\ handler' = "idle"
          /\ UNCHANGED <<ipi_nokick, suspended>>
    /\ HandlerFrame

(* R5: clear the flag, then acknowledge, then resume the task.  The peer   *)
(* may put and kick in between.                                            *)
zynqmp_r5_a53_proc_irq_handler ==
    /\ port \in R5
    /\ \/ /\ Raised
          /\ ipi_nokick' = FALSE /\ handler' = "ack"
          /\ UNCHANGED <<line, suspended>>
       \/ /\ handler = "ack"
          /\ line' = 0 /\ handler' = "resume"
          /\ UNCHANGED <<ipi_nokick, suspended>>
       \/ /\ handler = "resume"
          /\ suspended' = FALSE /\ handler' = "idle"
          /\ UNCHANGED <<line, ipi_nokick>>
    /\ HandlerFrame

(* The same order in libmetal's interrupt thread, without a resume.        *)
zynqmp_linux_r5_proc_irq_handler ==
    /\ port = "zynqmp_linux"
    /\ \/ /\ Raised
          /\ ipi_nokick' = FALSE /\ handler' = "ack"
          /\ UNCHANGED line
       \/ /\ handler = "ack"
          /\ line' = 0 /\ handler' = "idle"
          /\ UNCHANGED ipi_nokick
    /\ UNCHANGED suspended /\ HandlerFrame

(* The socket: read what is there, then clear the flag.                    *)
linux_proc_irq_handler ==
    /\ port = "linux_generic"
    /\ \/ /\ Raised
          /\ line' = IF line > ReadMax THEN line - ReadMax ELSE 0
          /\ handler' = "ack"
          /\ UNCHANGED ipi_nokick
       \/ /\ handler = "ack"
          /\ ipi_nokick' = FALSE /\ handler' = "idle"
          /\ UNCHANGED line
    /\ UNCHANGED suspended /\ HandlerFrame
-----------------------------------------------------------------------------
(* The peer: put a message into the ring, then notify. *)

PeerPut ==
    /\ peer = "idle" /\ put < MaxMsgs
    /\ pc \notin {"init", "vdev"}
    /\ put' = put + 1 /\ peer' = "kick"
    /\ UNCHANGED <<port, got, taskVars, irqVars>>

(* The notify operations: trigger the IPI or write the polled word (both   *)
(* idempotent), or send a byte; into a closed socket it is dropped.  The   *)
(* peer of an R5 is a Linux side and the other way round.                  *)
zynqmp_linux_r5_proc_notify ==
    /\ port \in R5
    /\ peer = "kick" /\ peer' = "idle"
    /\ line' = 1
    /\ UNCHANGED <<port, put, got, taskVars, enabled, ipi_nokick, handler>>

zynqmp_r5_a53_proc_notify ==
    /\ port = "zynqmp_linux"
    /\ peer = "kick" /\ peer' = "idle"
    /\ line' = 1
    /\ UNCHANGED <<port, put, got, taskVars, enabled, ipi_nokick, handler>>

NoIpiNotify ==
    /\ port = "no_ipi"
    /\ peer = "kick" /\ peer' = "idle"
    /\ line' = 1
    /\ UNCHANGED <<port, put, got, taskVars, enabled, ipi_nokick, handler>>

linux_proc_notify ==
    /\ port = "linux_generic"
    /\ peer = "kick" /\ peer' = "idle"
    /\ line' = IF pc = "removed" THEN 0 ELSE line + 1
    /\ UNCHANGED <<port, put, got, taskVars, enabled, ipi_nokick, handler>>
-----------------------------------------------------------------------------
Task ==
    \/ zynqmp_r5_a53_proc_init \/ zynqmp_linux_r5_proc_init \/ linux_proc_init
    \/ NoIpiInit \/ platform_create_rpmsg_vdev
    \/ PollTest \/ PollWord \/ system_suspend \/ SuspendReturns \/ PollRestore
    \/ remoteproc_get_notification
    \/ zynqmp_r5_a53_proc_remove \/ zynqmp_linux_r5_proc_remove
    \/ linux_proc_remove \/ NoIpiRemove

Irq ==
    \/ zynqmp_r5_a53_proc_irq_handler
    \/ zynqmp_linux_r5_proc_irq_handler
    \/ linux_proc_irq_handler

Notify ==
    \/ zynqmp_linux_r5_proc_notify \/ zynqmp_r5_a53_proc_notify
    \/ NoIpiNotify \/ linux_proc_notify

(* The application has ended. *)
Ended == pc = "removed" /\ UNCHANGED vars

Next == Task \/ Irq \/ PeerPut \/ Notify \/ Ended

Safety == Init /\ [][Next]_vars

(* The task runs, the peer completes a notify it has begun, and a pending  *)
(* interrupt is taken although platform_poll disables it again and again:  *)
(* it is pending whenever platform_poll restores it (on Linux, the handler *)
(* thread gets the lock).  Nothing makes the peer send.                    *)
Spec == Safety /\ WF_vars(Task) /\ SF_vars(Irq) /\ WF_vars(Notify)
-----------------------------------------------------------------------------
FlagTypeOK ==
    /\ enabled \in BOOLEAN /\ ipi_nokick \in BOOLEAN
    /\ irqsOff \in BOOLEAN /\ suspended \in BOOLEAN

ControlTypeOK ==
    /\ port \in Ports
    /\ put \in 0 .. MaxMsgs /\ got \in 0 .. put /\ peer \in {"idle", "kick"}
    /\ line \in IF port = "linux_generic" THEN 0 .. MaxMsgs ELSE {0, 1}
    /\ handler \in {"idle", "ack", "resume"}
    /\ pc \in {"init", "vdev", "poll", "suspend", "suspended", "restore", "drain",
               "remove", "removed"}

(* Types.  The status of an IPI and the polled word are bits; the bytes in *)
(* the socket never exceed the kicks.                                      *)
TypeOK == FlagTypeOK /\ ControlTypeOK

(* No kick is forgotten: while the ring holds messages and the task is not *)
(* taking them out, the notification is still on its way: at the peer, in  *)
(* the status, in the handler or in the flag (the handler clears the flag  *)
(* before it acknowledges, or the other way round on the socket).          *)
NothingForgotten ==
    pc \in {"poll", "suspend", "suspended", "restore"} /\ got < put =>
        peer = "kick" \/ line > 0 \/ handler # "idle" \/ ~ipi_nokick

(* No sleep is missed: a FreeRTOS task on the suspended list with messages *)
(* in the ring still has a kick or an interrupt ahead of it that will      *)
(* resume it; a cleared flag alone would not.                              *)
SleeperWoken ==
    suspended /\ got < put => peer = "kick" \/ line > 0 \/ handler # "idle"

(* The handler never runs outside the life of the remoteproc instance it   *)
(* dereferences.                                                           *)
HandlerWithinLife == handler # "idle" => pc \notin {"init", "removed"}

(* The notification path delivers: every message put is dispatched once,   *)
(* in order, and needs no further kick to be noticed.                      *)
Box == INSTANCE Mailbox WITH MaxMsgs <- MaxMsgs, put <- put, got <- got
Delivers == Box!Spec
=============================================================================
