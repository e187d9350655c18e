------------------------- MODULE Remoteproc_proofs -------------------------
(***************************************************************************)
(* Proofs about the level below rpmsg, the operations that remoteproc is   *)
(* given by a platform and what is done with them.                         *)
(*                                                                         *)
(* About PlatformPoll, for every set of ports, every number of messages    *)
(* and every read size: no kick is forgotten, no FreeRTOS task oversleeps, *)
(* the handler stays within the life of its instance, and every step of    *)
(* the notification path is a step of the mailbox.                         *)
(*                                                                         *)
(* About LoadFw, for every executable and every choice of the calls that   *)
(* fail: no segment is written to a bank that has not been requested, a    *)
(* core is only woken up with its whole executable, and main leaves it     *)
(* down.  The two modules share no state and no constant.                  *)
(***************************************************************************)
EXTENDS PlatformPoll, LoadFw, TLAPS

-----------------------------------------------------------------------------
(* PlatformPoll.                                                           *)

(* Interrupts are off exactly between the test that found the flag set and *)
(* the restore, and the handler never runs then.                           *)
Critical ==
    /\ irqsOff <=> pc \in {"suspend", "restore"}
    /\ irqsOff => handler = "idle"
    /\ pc = "suspend" => ipi_nokick /\ port \in IrqPorts
    /\ pc = "restore" => port \in IrqPorts

(* Only FreeRTOS sleeps, only in platform_poll, and not on a cleared flag  *)
(* unless the handler is about to resume the task.                         *)
Sleeping ==
    /\ pc = "suspended" => port = "r5_freertos"
    /\ suspended => pc = "suspended"
    /\ suspended /\ ~ipi_nokick => handler # "idle"

(* Where the handler can be, and that it clears the flag before it         *)
(* acknowledges an IPI.                                                    *)
InHandler ==
    /\ enabled => port \in IrqPorts /\ pc \notin {"init", "removed"}
    /\ handler # "idle" => enabled
    /\ handler = "resume" => port \in R5
    /\ handler # "idle" /\ port \in IpiPorts => ~ipi_nokick

(* The ring is empty before it exists; bytes in the socket are kicks of    *)
(* messages put; the polled word stays set once a kick has set it.         *)
Kicks ==
    /\ pc \in {"init", "vdev"} => put = 0 /\ peer = "idle"
    /\ port = "linux_generic" /\ peer = "idle" => line <= put
    /\ port = "linux_generic" /\ peer = "kick" => line < put
    /\ port = "no_ipi" /\ put > 0 => peer = "kick" \/ line = 1

IInv ==
    /\ TypeOK /\ Critical /\ Sleeping /\ InHandler /\ Kicks /\ NothingForgotten

(* The initial states satisfy the invariant.                               *)
LEMMA InitIInv == Init => IInv
  <1> SUFFICES ASSUME Init PROVE IInv
    OBVIOUS
  <1>1. FlagTypeOK
    BY Zenon DEF Init, FlagTypeOK
  <1>2. ControlTypeOK /\ Critical /\ Sleeping /\ InHandler /\ Kicks /\ NothingForgotten
    BY PollAssumption
    DEF Init, ControlTypeOK, Critical, Sleeping, InHandler, Kicks, NothingForgotten
  <1> QED BY <1>1, <1>2 DEF IInv, TypeOK

(* Every action preserves the invariant, one case per action.              *)
LEMMA NextIInv == IInv /\ [Next]_vars => IInv'
  <1> SUFFICES ASSUME IInv, [Next]_vars PROVE IInv'
    OBVIOUS
  <1> USE PollAssumption
      DEF IInv, TypeOK, TaskAt, IrqPorts, IpiPorts, R5, taskVars, irqVars, msgVars
  <1>1. CASE zynqmp_r5_a53_proc_init
    <2> USE <1>1 DEF zynqmp_r5_a53_proc_init
    <2>1. FlagTypeOK'
      BY Zenon DEF FlagTypeOK
    <2>2. ControlTypeOK' /\ Kicks' /\ NothingForgotten'
      BY DEF FlagTypeOK, ControlTypeOK, Critical, Sleeping, InHandler, Kicks, NothingForgotten
    <2>3. Critical' /\ Sleeping' /\ InHandler'
      BY DEF FlagTypeOK, ControlTypeOK, Critical, Sleeping, InHandler
    <2> QED BY <2>1, <2>2, <2>3
  <1>2. CASE zynqmp_linux_r5_proc_init
    <2> USE <1>2 DEF zynqmp_linux_r5_proc_init
    <2>1. FlagTypeOK'
      BY Zenon DEF FlagTypeOK
    <2>2. ControlTypeOK' /\ Kicks' /\ NothingForgotten'
      BY DEF FlagTypeOK, ControlTypeOK, Critical, Sleeping, InHandler, Kicks, NothingForgotten
    <2>3. Critical' /\ Sleeping' /\ InHandler'
      BY DEF FlagTypeOK, ControlTypeOK, Critical, Sleeping, InHandler
    <2> QED BY <2>1, <2>2, <2>3
  <1>3. CASE linux_proc_init
    <2> USE <1>3 DEF linux_proc_init
    <2>1. FlagTypeOK'
      BY Zenon DEF FlagTypeOK
    <2>2. ControlTypeOK' /\ Kicks' /\ NothingForgotten'
      BY DEF FlagTypeOK, ControlTypeOK, Critical, Sleeping, InHandler, Kicks, NothingForgotten
    <2>3. Critical' /\ Sleeping' /\ InHandler'
      BY DEF FlagTypeOK, ControlTypeOK, Critical, Sleeping, InHandler
    <2> QED BY <2>1, <2>2, <2>3
  <1>4. CASE NoIpiInit
    <2> USE <1>4 DEF NoIpiInit
    <2>1. FlagTypeOK'
      BY Zenon DEF FlagTypeOK
    <2>2. ControlTypeOK' /\ Kicks' /\ NothingForgotten'
      BY DEF FlagTypeOK, ControlTypeOK, Critical, Sleeping, InHandler, Kicks, NothingForgotten
    <2>3. Critical' /\ Sleeping' /\ InHandler'
      BY DEF FlagTypeOK, ControlTypeOK, Critical, Sleeping, InHandler
    <2> QED BY <2>1, <2>2, <2>3
  <1>5. CASE platform_create_rpmsg_vdev
    <2> USE <1>5 DEF platform_create_rpmsg_vdev
    <2>1. FlagTypeOK'
      BY Zenon DEF FlagTypeOK
    <2>2. ControlTypeOK' /\ Kicks' /\ NothingForgotten'
      BY DEF FlagTypeOK, ControlTypeOK, Critical, Sleeping, InHandler, Kicks, NothingForgotten
    <2>3. Critical' /\ Sleeping' /\ InHandler'
      BY DEF FlagTypeOK, ControlTypeOK, Critical, Sleeping, InHandler
    <2> QED BY <2>1, <2>2, <2>3
  <1>6. CASE PollTest
    <2> USE <1>6 DEF PollTest
    <2>1. FlagTypeOK'
      BY Zenon DEF FlagTypeOK
    <2>2. ControlTypeOK' /\ Kicks' /\ NothingForgotten'
      BY DEF FlagTypeOK, ControlTypeOK, Critical, Sleeping, InHandler, Kicks, NothingForgotten
    <2>3. Critical' /\ Sleeping' /\ InHandler'
      BY DEF FlagTypeOK, ControlTypeOK, Critical, Sleeping, InHandler
    <2> QED BY <2>1, <2>2, <2>3
  <1>7. CASE PollWord
    <2> USE <1>7 DEF PollWord
    <2>1. FlagTypeOK'
      BY Zenon DEF FlagTypeOK
    <2>2. ControlTypeOK' /\ Kicks' /\ NothingForgotten'
      BY DEF FlagTypeOK, ControlTypeOK, Critical, Sleeping, InHandler, Kicks, NothingForgotten
    <2>3. Critical' /\ Sleeping' /\ InHandler'
      BY DEF FlagTypeOK, ControlTypeOK, Critical, Sleeping, InHandler
    <2> QED BY <2>1, <2>2, <2>3
  <1>8. CASE system_suspend
    <2> USE <1>8 DEF system_suspend
    <2>1. FlagTypeOK'
      BY Zenon DEF FlagTypeOK
    <2>2. ControlTypeOK' /\ Kicks' /\ NothingForgotten'
      BY DEF FlagTypeOK, ControlTypeOK, Critical, Sleeping, InHandler, Kicks, NothingForgotten
    <2>3. Critical' /\ Sleeping' /\ InHandler'
      BY DEF FlagTypeOK, ControlTypeOK, Critical, Sleeping, InHandler
    <2> QED BY <2>1, <2>2, <2>3
  <1>9. CASE SuspendReturns
    <2> USE <1>9 DEF SuspendReturns
    <2>1. FlagTypeOK'
      BY Zenon DEF FlagTypeOK
    <2>2. ControlTypeOK' /\ Kicks' /\ NothingForgotten'
      BY DEF FlagTypeOK, ControlTypeOK, Critical, Sleeping, InHandler, Kicks, NothingForgotten
    <2>3. Critical' /\ Sleeping' /\ InHandler'
      BY DEF FlagTypeOK, ControlTypeOK, Critical, Sleeping, InHandler
    <2> QED BY <2>1, <2>2, <2>3
  <1>10. CASE PollRestore
    <2> USE <1>10 DEF PollRestore
    <2>1. FlagTypeOK'
      BY Zenon DEF FlagTypeOK
    <2>2. ControlTypeOK' /\ Kicks' /\ NothingForgotten'
      BY DEF FlagTypeOK, ControlTypeOK, Critical, Sleeping, InHandler, Kicks, NothingForgotten
    <2>3. Critical' /\ Sleeping' /\ InHandler'
      BY DEF FlagTypeOK, ControlTypeOK, Critical, Sleeping, InHandler
    <2> QED BY <2>1, <2>2, <2>3
  <1>11. CASE remoteproc_get_notification
    <2> USE <1>11 DEF remoteproc_get_notification
    <2>1. FlagTypeOK'
      BY Zenon DEF FlagTypeOK
    <2>2. ControlTypeOK' /\ Kicks' /\ NothingForgotten'
      BY DEF FlagTypeOK, ControlTypeOK, Critical, Sleeping, InHandler, Kicks, NothingForgotten
    <2>3. Critical' /\ Sleeping' /\ InHandler'
      BY DEF FlagTypeOK, ControlTypeOK, Critical, Sleeping, InHandler
    <2> QED BY <2>1, <2>2, <2>3
  <1>12. CASE zynqmp_r5_a53_proc_remove
    <2> USE <1>12 DEF zynqmp_r5_a53_proc_remove
    <2>1. FlagTypeOK'
      BY Zenon DEF FlagTypeOK
    <2>2. ControlTypeOK' /\ Kicks' /\ NothingForgotten'
      BY DEF FlagTypeOK, ControlTypeOK, Critical, Sleeping, InHandler, Kicks, NothingForgotten
    <2>3. Critical' /\ Sleeping' /\ InHandler'
      BY DEF FlagTypeOK, ControlTypeOK, Critical, Sleeping, InHandler
    <2> QED BY <2>1, <2>2, <2>3
  <1>13. CASE zynqmp_linux_r5_proc_remove
    <2> USE <1>13 DEF zynqmp_linux_r5_proc_remove
    <2>1. FlagTypeOK'
      BY Zenon DEF FlagTypeOK
    <2>2. ControlTypeOK' /\ Kicks' /\ NothingForgotten'
      BY DEF FlagTypeOK, ControlTypeOK, Critical, Sleeping, InHandler, Kicks, NothingForgotten
    <2>3. Critical' /\ Sleeping' /\ InHandler'
      BY DEF FlagTypeOK, ControlTypeOK, Critical, Sleeping, InHandler
    <2> QED BY <2>1, <2>2, <2>3
  <1>14. CASE linux_proc_remove
    <2> USE <1>14 DEF linux_proc_remove
    <2>1. FlagTypeOK'
      BY Zenon DEF FlagTypeOK
    <2>2. ControlTypeOK' /\ Kicks' /\ NothingForgotten'
      BY DEF FlagTypeOK, ControlTypeOK, Critical, Sleeping, InHandler, Kicks, NothingForgotten
    <2>3. Critical' /\ Sleeping' /\ InHandler'
      BY DEF FlagTypeOK, ControlTypeOK, Critical, Sleeping, InHandler
    <2> QED BY <2>1, <2>2, <2>3
  <1>15. CASE NoIpiRemove
    <2> USE <1>15 DEF NoIpiRemove
    <2>1. FlagTypeOK'
      BY Zenon DEF FlagTypeOK
    <2>2. ControlTypeOK' /\ Kicks' /\ NothingForgotten'
      BY DEF FlagTypeOK, ControlTypeOK, Critical, Sleeping, InHandler, Kicks, NothingForgotten
    <2>3. Critical' /\ Sleeping' /\ InHandler'
      BY DEF FlagTypeOK, ControlTypeOK, Critical, Sleeping, InHandler
    <2> QED BY <2>1, <2>2, <2>3
  <1>16. CASE zynqmp_r5_a53_proc_irq_handler
    <2> USE <1>16 DEF zynqmp_r5_a53_proc_irq_handler, Raised, HandlerFrame
    <2>1. FlagTypeOK'
      BY Zenon DEF FlagTypeOK
    <2>2. ControlTypeOK' /\ Kicks' /\ NothingForgotten'
      BY DEF FlagTypeOK, ControlTypeOK, Critical, Sleeping, InHandler, Kicks, NothingForgotten
    <2>3. Critical' /\ Sleeping' /\ InHandler'
      BY DEF FlagTypeOK, ControlTypeOK, Critical, Sleeping, InHandler
    <2> QED BY <2>1, <2>2, <2>3
  <1>17. CASE zynqmp_linux_r5_proc_irq_handler
    <2> USE <1>17 DEF zynqmp_linux_r5_proc_irq_handler, Raised, HandlerFrame
    <2>1. FlagTypeOK'
      BY Zenon DEF FlagTypeOK
    <2>2. ControlTypeOK' /\ Kicks' /\ NothingForgotten'
      BY DEF FlagTypeOK, ControlTypeOK, Critical, Sleeping, InHandler, Kicks, NothingForgotten
    <2>3. Critical' /\ Sleeping' /\ InHandler'
      BY DEF FlagTypeOK, ControlTypeOK, Critical, Sleeping, InHandler
    <2> QED BY <2>1, <2>2, <2>3
  <1>18. CASE linux_proc_irq_handler
    <2> USE <1>18 DEF linux_proc_irq_handler, Raised, HandlerFrame
    <2>1. FlagTypeOK'
      BY Zenon DEF FlagTypeOK
    <2>2. ControlTypeOK' /\ Kicks' /\ NothingForgotten'
      BY DEF FlagTypeOK, ControlTypeOK, Critical, Sleeping, InHandler, Kicks, NothingForgotten
    <2>3. Critical' /\ Sleeping' /\ InHandler'
      BY DEF FlagTypeOK, ControlTypeOK, Critical, Sleeping, InHandler
    <2> QED BY <2>1, <2>2, <2>3
  <1>19. CASE PeerPut
    <2> USE <1>19 DEF PeerPut
    <2>1. FlagTypeOK'
      BY Zenon DEF FlagTypeOK
    <2>2. ControlTypeOK' /\ Kicks' /\ NothingForgotten'
      BY DEF FlagTypeOK, ControlTypeOK, Critical, Sleeping, InHandler, Kicks, NothingForgotten
    <2>3. Critical' /\ Sleeping' /\ InHandler'
      BY DEF FlagTypeOK, ControlTypeOK, Critical, Sleeping, InHandler
    <2> QED BY <2>1, <2>2, <2>3
  <1>20. CASE zynqmp_linux_r5_proc_notify
    <2> USE <1>20 DEF zynqmp_linux_r5_proc_notify
    <2>1. FlagTypeOK'
      BY Zenon DEF FlagTypeOK
    <2>2. ControlTypeOK' /\ Kicks' /\ NothingForgotten'
      BY DEF FlagTypeOK, ControlTypeOK, Critical, Sleeping, InHandler, Kicks, NothingForgotten
    <2>3. Critical' /\ Sleeping' /\ InHandler'
      BY DEF FlagTypeOK, ControlTypeOK, Critical, Sleeping, InHandler
    <2> QED BY <2>1, <2>2, <2>3
  <1>21. CASE zynqmp_r5_a53_proc_notify
    <2> USE <1>21 DEF zynqmp_r5_a53_proc_notify
    <2>1. FlagTypeOK'
      BY Zenon DEF FlagTypeOK
    <2>2. ControlTypeOK' /\ Kicks' /\ NothingForgotten'
      BY DEF FlagTypeOK, ControlTypeOK, Critical, Sleeping, InHandler, Kicks, NothingForgotten
    <2>3. Critical' /\ Sleeping' /\ InHandler'
      BY DEF FlagTypeOK, ControlTypeOK, Critical, Sleeping, InHandler
    <2> QED BY <2>1, <2>2, <2>3
  <1>22. CASE NoIpiNotify
    <2> USE <1>22 DEF NoIpiNotify
    <2>1. FlagTypeOK'
      BY Zenon DEF FlagTypeOK
    <2>2. ControlTypeOK' /\ Kicks' /\ NothingForgotten'
      BY DEF FlagTypeOK, ControlTypeOK, Critical, Sleeping, InHandler, Kicks, NothingForgotten
    <2>3. Critical' /\ Sleeping' /\ InHandler'
      BY DEF FlagTypeOK, ControlTypeOK, Critical, Sleeping, InHandler
    <2> QED BY <2>1, <2>2, <2>3
  <1>23. CASE linux_proc_notify
    <2> USE <1>23 DEF linux_proc_notify
    <2>1. FlagTypeOK'
      BY Zenon DEF FlagTypeOK
    <2>2. ControlTypeOK' /\ Kicks' /\ NothingForgotten'
      BY DEF FlagTypeOK, ControlTypeOK, Critical, Sleeping, InHandler, Kicks, NothingForgotten
    <2>3. Critical' /\ Sleeping' /\ InHandler'
      BY DEF FlagTypeOK, ControlTypeOK, Critical, Sleeping, InHandler
    <2> QED BY <2>1, <2>2, <2>3
  <1>24. CASE Ended \/ UNCHANGED vars
    <2> USE <1>24 DEF Ended, vars
    <2>1. FlagTypeOK'
      BY Zenon DEF FlagTypeOK
    <2>2. ControlTypeOK' /\ Kicks' /\ NothingForgotten'
      BY DEF FlagTypeOK, ControlTypeOK, Critical, Sleeping, InHandler, Kicks, NothingForgotten
    <2>3. Critical' /\ Sleeping' /\ InHandler'
      BY DEF FlagTypeOK, ControlTypeOK, Critical, Sleeping, InHandler
    <2> QED BY <2>1, <2>2, <2>3
  <1> QED
    BY <1>1, <1>2, <1>3, <1>4, <1>5, <1>6, <1>7, <1>8, <1>9, <1>10, <1>11, <1>12,
       <1>13, <1>14, <1>15, <1>16, <1>17, <1>18, <1>19, <1>20, <1>21, <1>22, <1>23, <1>24
    DEF Next, Task, Irq, Notify

(* The invariant holds in every reachable state. *)
THEOREM Inductive == Safety => []IInv
  BY InitIInv, NextIInv, PTL DEF Safety

(* No kick is forgotten between the peer's notify operation and            *)
(* platform_poll, on any port.                                             *)
THEOREM KickKept == Safety => []NothingForgotten
  <1>1. IInv => NothingForgotten
    BY DEF IInv
  <1> QED BY <1>1, Inductive, PTL

(* system_suspend on FreeRTOS misses no wake-up. *)
THEOREM Woken == Safety => []SleeperWoken
  <1>1. IInv => SleeperWoken
    BY DEF IInv, TypeOK, Sleeping, NothingForgotten, SleeperWoken
  <1> QED BY <1>1, Inductive, PTL

(* The handlers run only while their remoteproc instance exists. *)
THEOREM WithinLife == Safety => []HandlerWithinLife
  <1>1. IInv => HandlerWithinLife
    BY DEF IInv, InHandler, HandlerWithinLife
  <1> QED BY <1>1, Inductive, PTL

(* Every step of the notification path puts a message, dispatches the next *)
(* one, or is invisible to the application: exactly once and in order.     *)
THEOREM RefinesMailbox == Safety => Box!Safety
  <1>1. Init => Box!Init
    BY DEF Init, Box!Init
  <1>2. IInv /\ [Next]_vars => [Box!Next]_<<put, got>>
    <2> SUFFICES ASSUME IInv, [Next]_vars PROVE [Box!Next]_<<put, got>>
      OBVIOUS
    <2> USE DEF Box!Next, Box!Put, Box!Deliver, taskVars, irqVars, msgVars
    <2>1. CASE Task
      BY <2>1 DEF Task, zynqmp_r5_a53_proc_init, zynqmp_linux_r5_proc_init,
         linux_proc_init, NoIpiInit, platform_create_rpmsg_vdev, PollTest, PollWord,
         system_suspend, SuspendReturns, PollRestore, remoteproc_get_notification,
         zynqmp_r5_a53_proc_remove, zynqmp_linux_r5_proc_remove, linux_proc_remove,
         NoIpiRemove
    <2>2. CASE Irq
      BY <2>2 DEF Irq, zynqmp_r5_a53_proc_irq_handler, linux_proc_irq_handler,
         zynqmp_linux_r5_proc_irq_handler, HandlerFrame
    <2>3. CASE PeerPut
      BY <2>3 DEF PeerPut
    <2>4. CASE Notify
      BY <2>4 DEF Notify, zynqmp_linux_r5_proc_notify, zynqmp_r5_a53_proc_notify,
         NoIpiNotify, linux_proc_notify
    <2>5. CASE Ended \/ UNCHANGED vars
      BY <2>5 DEF Ended, vars
    <2> QED BY <2>1, <2>2, <2>3, <2>4, <2>5 DEF Next
  <1> QED BY <1>1, <1>2, Inductive, PTL DEF Safety, Box!Safety
-----------------------------------------------------------------------------
(* LoadFw.                                                                 *)

(* How far the load is, what the library takes the core for then, and that *)
(* a region without an address ends the load.                              *)
Loading ==
    /\ main \in {"map", "store"} => filled = 1 .. k - 1
    /\ k <= Len(image) + 1
    /\ main = "store" => k <= Len(image) /\ \E m \in mems : Inside(image[k], m)
    /\ main = "start" => filled = 1 .. Len(image)
    /\ main \in {"map", "store", "start"} => state = "READY"
    /\ main \notin {"failed", "returned"} => \A m \in mems : PaOf(m) # Bad

(* The core runs only when the library knows, and what the library takes   *)
(* for offline has nothing left.                                           *)
Known ==
    /\ state = "OFFLINE" => power = "down" /\ mems = {}
    /\ power = "up" => state \in {"RUNNING", "STOPPED"}
    /\ main = "app_init" => state = "OFFLINE"
    /\ main # "returned" => ret = 0
    /\ main = "remove" => bootLinux \/ refused \/ state = "OFFLINE"

(* The banks of every region in the list are requested.                    *)
Held == \A m \in mems : Requests(m) \subseteq nodes

(* The inductive invariant.                                                *)
LoadInv == LoadTypeOK /\ Loading /\ Known /\ Held /\ LeftDown
-----------------------------------------------------------------------------
(* The operations of a core name its banks.                                *)
LEMMA BankNames ==
  ASSUME NEW s
  PROVE  Requests(s) \subseteq Nodes
  BY DEF Requests, ApuRequests, RpuRequests, Nodes

(* A region that has an address is an R5's, and starts among the tightly   *)
(* coupled memories.                                                       *)
LEMMA Addressed ==
  ASSUME target \in Targets, NEW m, PaOf(m) # Bad
  PROVE  target \in {"RPU_0", "RPU_1"} /\ ~(m.da > 8)
  BY DEF PaOf, RpuPa, Targets

(* A segment's place and size are numbers; it is at most half the space.   *)
LEMMA SegmentBounds ==
  ASSUME NEW s \in Segment
  PROVE  s.da \in Nat /\ s.size \in Nat /\ s.size <= 65536
  <1>1. Top \in Nat /\ Top \div 2 = 65536
    BY DEF Top
  <1>2. s.da \in 0 .. Top - 1 /\ s.size \in 1 .. (Top \div 2)
    BY DEF Segment
  <1> QED BY <1>1, <1>2

(* A segment inside such a region lies only in banks that are requested    *)
(* for the region: the comparisons of rpu_rproc_mmap leave no bank out.    *)
LEMMA RegionCovers ==
  ASSUME target \in Targets,
         NEW m \in SegmentsOf(target), NEW s \in SegmentsOf(target),
         Inside(s, m), PaOf(m) # Bad
  PROVE  Touched(s) \subseteq Requests(m)
  <1>1. s \in Segment /\ m \in Segment
    BY LoadAssumption DEF SegmentsOf
  <1>2. target \in {"RPU_0", "RPU_1"} /\ ~(m.da > 8)
    BY Addressed
  <1>3. /\ s.da \in Nat /\ s.size \in Nat
        /\ m.da \in Nat /\ m.size \in Nat /\ m.da <= 8 /\ m.size <= 65536
    BY <1>1, <1>2, SegmentBounds
  <1>4. m.da <= s.da /\ s.da + s.size <= m.da + m.size
    BY DEF Inside
  <1>5. End(m) = m.da + m.size
    BY <1>3 DEF End, Top
  <1>6. CASE target = "RPU_0"
    <2>1. SUFFICES ASSUME NEW n \in Touched(s) PROVE n \in Requests(m)
      OBVIOUS
    <2>2. n \in {"TCM_0_A", "TCM_1_A", "TCM_0_B", "TCM_1_B"}
      BY <1>6 DEF Touched, BankMap
    <2>3. s.da < BankMap(target)[n][2] /\ s.da + s.size > BankMap(target)[n][1]
      BY <2>1 DEF Touched
    <2> QED BY <1>3, <1>4, <1>5, <1>6, <2>2, <2>3 DEF BankMap, Requests, RpuRequests
  <1>7. CASE target = "RPU_1"
    <2>1. SUFFICES ASSUME NEW n \in Touched(s) PROVE n \in Requests(m)
      OBVIOUS
    <2>2. n \in {"TCM_1_A", "TCM_1_B"}
      BY <1>7 DEF Touched, BankMap
    <2>3. s.da < BankMap(target)[n][2] /\ s.da + s.size > BankMap(target)[n][1]
      BY <2>1 DEF Touched
    <2> QED BY <1>3, <1>4, <1>5, <1>7, <2>2, <2>3 DEF BankMap, Requests, RpuRequests
  <1> QED BY <1>2, <1>6, <1>7
-----------------------------------------------------------------------------
(* The invariant holds at first.                                           *)
LEMMA InitLoadInv == LoadInit => LoadInv
  <1> SUFFICES ASSUME LoadInit PROVE LoadInv
    OBVIOUS
  <1>1. image \in Seq(SegmentsOf(target)) /\ Len(image) \in 1 .. MaxSegments
    <2>1. PICK n \in 1 .. MaxSegments : image \in [1 .. n -> SegmentsOf(target)]
      BY DEF LoadInit
    <2> QED BY <2>1, LoadAssumption
  <1>2. LoadTypeOK
    <2>1. MaxSegments \in Nat \ {0}
      BY LoadAssumption
    <2>2. k \in 1 .. MaxSegments + 1 /\ filled \subseteq 1 .. MaxSegments
      BY <2>1 DEF LoadInit
    <2> QED BY <1>1, <2>2 DEF LoadInit, LoadTypeOK
  <1> QED BY <1>1, <1>2, LoadAssumption DEF LoadInit, LoadInv, Loading, Known, Held, LeftDown

(* No step changes the setting, nor what a core's operations request.      *)
LEMMA SettingKept ==
  ASSUME [LoadNext]_loadVars
  PROVE  /\ UNCHANGED <<target, bootLinux, image, SegmentsOf(target)>>
         /\ \A s : Requests(s)' = Requests(s) /\ PaOf(s)' = PaOf(s)
  <1>1. UNCHANGED <<target, bootLinux, image>>
    BY DEF LoadNext, app_init, remoteproc_config, remoteproc_mmap, mem_image_load, Loaded,
           remoteproc_start, remoteproc_stop, load_ends, load_fails, remoteproc_remove,
           Returned, Fixed, loadVars
  <1>2. UNCHANGED SegmentsOf(target)
    BY <1>1 DEF SegmentsOf
  <1>3. \A s : Requests(s)' = Requests(s) /\ PaOf(s)' = PaOf(s)
    BY <1>1 DEF Requests, ApuRequests, RpuRequests, PaOf, RpuPa
  <1> QED BY <1>1, <1>2, <1>3

(* Every step keeps the types.                                             *)
LEMMA LoadTypeStep == LoadInv /\ [LoadNext]_loadVars => LoadTypeOK'
  <1> SUFFICES ASSUME LoadInv, [LoadNext]_loadVars PROVE LoadTypeOK'
    OBVIOUS
  <1>0. UNCHANGED <<target, bootLinux, image, SegmentsOf(target)>>
    BY SettingKept
  <1> USE LoadAssumption DEF LoadInv, LoadTypeOK, Loading
  <1>1. CASE app_init
    BY <1>0, <1>1 DEF app_init, rproc_init
  <1>2. CASE remoteproc_config
    BY <1>0, <1>2 DEF remoteproc_config, Ready
  <1>3. CASE remoteproc_mmap
    BY <1>0, <1>3, BankNames DEF remoteproc_mmap, Next_segment
  <1>4. CASE mem_image_load
    BY <1>0, <1>4 DEF mem_image_load
  <1>5. CASE Loaded
    BY <1>0, <1>5 DEF Loaded
  <1>6. CASE remoteproc_start
    BY <1>0, <1>6 DEF remoteproc_start
  <1>7. CASE remoteproc_stop
    BY <1>0, <1>7 DEF remoteproc_stop
  <1>8. CASE load_ends
    BY <1>0, <1>8 DEF load_ends, remoteproc_shutdown
  <1>9. CASE load_fails
    BY <1>0, <1>9 DEF load_fails, remoteproc_shutdown
  <1>10. CASE remoteproc_remove
    BY <1>0, <1>10 DEF remoteproc_remove
  <1>11. CASE UNCHANGED loadVars
    BY <1>0, <1>11 DEF loadVars
  <1> QED
    BY <1>1, <1>2, <1>3, <1>4, <1>5, <1>6, <1>7, <1>8, <1>9, <1>10, <1>11
    DEF LoadNext, Returned

(* Every step keeps the count of the segments that are loaded.             *)
LEMMA LoadingStep == LoadInv /\ [LoadNext]_loadVars => Loading'
  <1> SUFFICES ASSUME LoadInv, [LoadNext]_loadVars PROVE Loading'
    OBVIOUS
  <1>0. /\ UNCHANGED <<target, bootLinux, image, SegmentsOf(target)>>
        /\ \A s : PaOf(s)' = PaOf(s)
    BY SettingKept
  <1> USE LoadAssumption DEF LoadInv, LoadTypeOK, Loading, Known
  <1>1. CASE app_init
    BY <1>0, <1>1 DEF app_init, rproc_init
  <1>2. CASE remoteproc_config
    BY <1>0, <1>2 DEF remoteproc_config, Ready
  <1>3. CASE remoteproc_mmap
    <2>1. Inside(image[k], image[k]) /\ UNCHANGED <<k, filled, state, image>>
      <3>1. image[k] \in SegmentsOf(target)
        BY <1>3 DEF remoteproc_mmap
      <3>2. image[k].da \in Nat /\ image[k].size \in Nat
        <4>1. Top \in Nat
          BY DEF Top
        <4> QED BY <3>1, <4>1 DEF SegmentsOf, Segment
      <3> QED BY <1>0, <1>3, <3>2 DEF remoteproc_mmap, Inside
    <2>2. \A s, m : Inside(s, m)' = Inside(s, m)
      BY DEF Inside
    <2>3. main' = "store" => \E m \in mems' : Inside(image[k], m)
      BY <1>3, <2>1 DEF remoteproc_mmap, Next_segment
    <2>4. main' # "failed" => \A m \in mems' : PaOf(m) # Bad
      BY <1>3 DEF remoteproc_mmap, Next_segment
    <2>5. main = "map" /\ main' \in {"store", "failed"} /\ k <= Len(image)
      BY <1>3 DEF remoteproc_mmap
    <2>6. main' = "store" => (\E m \in mems : Inside(image[k], m))'
      BY <1>0, <2>1, <2>2, <2>3
    <2>7. main' # "failed" => (\A m \in mems : PaOf(m) # Bad)'
      BY <1>0, <2>4 DEF Bad
    <2> QED BY <1>0, <2>1, <2>5, <2>6, <2>7
  <1>4. CASE mem_image_load
    <2>1. CASE filled' = filled \cup {k} /\ k' = k + 1 /\ main' = "map"
      <3>1. k \in Nat \ {0} /\ Len(image) \in Nat /\ k <= Len(image) /\ filled = 1 .. k - 1
        BY <1>4 DEF mem_image_load
      <3>2. filled' = 1 .. k' - 1 /\ k' <= Len(image) + 1
        BY <2>1, <3>1
      <3> QED BY <1>0, <1>4, <2>1, <3>2 DEF mem_image_load
    <2>2. CASE main' = "failed" /\ UNCHANGED <<filled, k>>
      BY <1>0, <1>4, <2>2 DEF mem_image_load
    <2> QED BY <1>4, <2>1, <2>2 DEF mem_image_load
  <1>5. CASE Loaded
    BY <1>0, <1>5 DEF Loaded
  <1>6. CASE remoteproc_start
    BY <1>0, <1>6 DEF remoteproc_start
  <1>7. CASE remoteproc_stop
    BY <1>0, <1>7 DEF remoteproc_stop
  <1>8. CASE load_ends
    BY <1>0, <1>8 DEF load_ends, remoteproc_shutdown
  <1>9. CASE load_fails
    BY <1>0, <1>9 DEF load_fails, remoteproc_shutdown
  <1>10. CASE remoteproc_remove
    BY <1>0, <1>10 DEF remoteproc_remove
  <1>11. CASE UNCHANGED loadVars
    BY <1>0, <1>11 DEF loadVars
  <1> QED
    BY <1>1, <1>2, <1>3, <1>4, <1>5, <1>6, <1>7, <1>8, <1>9, <1>10, <1>11
    DEF LoadNext, Returned

(* Every step keeps what the library knows of the core.                    *)
LEMMA KnownStep == LoadInv /\ [LoadNext]_loadVars => (Known /\ LeftDown)'
  <1> SUFFICES ASSUME LoadInv, [LoadNext]_loadVars PROVE (Known /\ LeftDown)'
    OBVIOUS
  <1>0. UNCHANGED <<target, bootLinux, image, SegmentsOf(target)>>
    BY SettingKept
  <1> USE LoadAssumption DEF LoadInv, LoadTypeOK, Loading, Known, LeftDown
  <1>1. CASE app_init
    BY <1>0, <1>1 DEF app_init, rproc_init
  <1>2. CASE remoteproc_config
    BY <1>0, <1>2 DEF remoteproc_config, Ready
  <1>3. CASE remoteproc_mmap
    BY <1>0, <1>3 DEF remoteproc_mmap, Next_segment
  <1>4. CASE mem_image_load
    BY <1>0, <1>4 DEF mem_image_load
  <1>5. CASE Loaded
    BY <1>0, <1>5 DEF Loaded
  <1>6. CASE remoteproc_start
    BY <1>0, <1>6 DEF remoteproc_start
  <1>7. CASE remoteproc_stop
    BY <1>0, <1>7 DEF remoteproc_stop
  <1>8. CASE load_ends
    BY <1>0, <1>8 DEF load_ends, remoteproc_shutdown
  <1>9. CASE load_fails
    BY <1>0, <1>9 DEF load_fails, remoteproc_shutdown
  <1>10. CASE remoteproc_remove
    BY <1>0, <1>10 DEF remoteproc_remove
  <1>11. CASE UNCHANGED loadVars
    BY <1>0, <1>11 DEF loadVars
  <1> QED
    BY <1>1, <1>2, <1>3, <1>4, <1>5, <1>6, <1>7, <1>8, <1>9, <1>10, <1>11
    DEF LoadNext, Returned

(* Every step keeps the banks of the regions requested: a shutdown, which  *)
(* releases banks, deletes every region.                                   *)
LEMMA HeldStep == LoadInv /\ [LoadNext]_loadVars => Held'
  <1> SUFFICES ASSUME LoadInv, [LoadNext]_loadVars PROVE Held'
    OBVIOUS
  <1>0. \A s : Requests(s)' = Requests(s)
    BY SettingKept
  <1> USE LoadAssumption DEF LoadInv, Held
  <1>1. CASE app_init
    BY <1>0, <1>1 DEF app_init, rproc_init
  <1>2. CASE remoteproc_config
    BY <1>0, <1>2 DEF remoteproc_config, Ready
  <1>3. CASE remoteproc_mmap
    BY <1>0, <1>3 DEF remoteproc_mmap, Next_segment
  <1>4. CASE mem_image_load
    BY <1>0, <1>4 DEF mem_image_load
  <1>5. CASE Loaded
    BY <1>0, <1>5 DEF Loaded
  <1>6. CASE remoteproc_start
    BY <1>0, <1>6 DEF remoteproc_start
  <1>7. CASE remoteproc_stop
    BY <1>0, <1>7 DEF remoteproc_stop
  <1>8. CASE load_ends
    BY <1>0, <1>8 DEF load_ends, remoteproc_shutdown
  <1>9. CASE load_fails
    BY <1>0, <1>9 DEF load_fails, remoteproc_shutdown
  <1>10. CASE remoteproc_remove
    BY <1>0, <1>10 DEF remoteproc_remove
  <1>11. CASE UNCHANGED loadVars
    BY <1>0, <1>11 DEF loadVars
  <1> QED
    BY <1>1, <1>2, <1>3, <1>4, <1>5, <1>6, <1>7, <1>8, <1>9, <1>10, <1>11
    DEF LoadNext, Returned

(* Every step keeps the invariant.                                         *)
LEMMA NextLoadInv == LoadInv /\ [LoadNext]_loadVars => LoadInv'
  BY LoadTypeStep, LoadingStep, KnownStep, HeldStep DEF LoadInv

(* The inductive invariant holds in every reachable state.                 *)
THEOREM LoadInductive == LoadSpec => []LoadInv
  BY InitLoadInv, NextLoadInv, PTL DEF LoadSpec

(* Whichever call fails, main returns with the core down and its regions   *)
(* gone, unless the core refused or is to go on running.                   *)
THEOREM MainLeavesDown == LoadSpec => []LeftDown
  <1>1. LoadInv => LeftDown
    BY DEF LoadInv
  <1> QED BY <1>1, LoadInductive, PTL

(* remoteproc_start wakes a core that is down, with the whole executable   *)
(* of this load in its memory.                                             *)
THEOREM StartsComplete == LoadSpec => StartComplete
  <1>1. LoadInv /\ [LoadNext]_loadVars =>
            [remoteproc_start /\ power' = "up"
                 => filled = 1 .. Len(image) /\ power = "down"]_loadVars
    BY DEF LoadInv, LoadTypeOK, Loading, Known, remoteproc_start
  <1> QED BY <1>1, LoadInductive, PTL DEF LoadSpec, StartComplete

(* For every executable: mem_image_load only writes to an R5's memory,     *)
(* through a region that has an address, and to banks that are requested   *)
(* at that moment, in both loads.                                          *)
THEOREM WritesRequested == LoadSpec => WrittenRequested
  <1> DEFINE Covered == mem_image_load /\ filled' # filled =>
                            /\ target \in {"RPU_0", "RPU_1"}
                            /\ \E m \in mems : Inside(Next_segment, m) /\ PaOf(m) # Bad
                            /\ Touched(Next_segment) \subseteq nodes
  <1>1. LoadInv /\ [LoadNext]_loadVars => [Covered]_loadVars
    <2> SUFFICES ASSUME LoadInv, mem_image_load
                 PROVE  /\ target \in {"RPU_0", "RPU_1"}
                        /\ \E m \in mems : Inside(Next_segment, m) /\ PaOf(m) # Bad
                        /\ Touched(Next_segment) \subseteq nodes
      OBVIOUS
    <2>1. PICK m \in mems : Inside(Next_segment, m) /\ PaOf(m) # Bad
      BY DEF mem_image_load, LoadInv, Loading, Next_segment
    <2>2. Next_segment \in SegmentsOf(target) /\ m \in SegmentsOf(target) /\ target \in Targets
      BY DEF mem_image_load, LoadInv, LoadTypeOK, Loading, Next_segment
    <2>3. Touched(Next_segment) \subseteq Requests(m)
      BY <2>1, <2>2, RegionCovers
    <2>4. target \in {"RPU_0", "RPU_1"}
      BY <2>1, <2>2, Addressed
    <2> QED BY <2>1, <2>3, <2>4 DEF LoadInv, Held
  <1> QED BY <1>1, LoadInductive, PTL DEF LoadSpec, WrittenRequested
=============================================================================
