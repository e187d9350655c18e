------------------------ MODULE IrqShmemDemo_proofs ------------------------
(***************************************************************************)
(* Proofs about IrqShmemDemo, for every number of packages and both OS     *)
(* ports.                                                                  *)
(*                                                                         *)
(* First, in every start order and with or without faults: IInv ties each  *)
(* program counter to the offsets and counters that move with it, and says *)
(* that what the host has verified is not changed any more.                *)
(*                                                                         *)
(* Then in the documented order: DInv adds that messages are complete      *)
(* before they are counted and that who has not seen a counter is being    *)
(* notified.                                                               *)
(***************************************************************************)
EXTENDS IrqShmemDemo, TLAPS

HostStart  == {"init", "clearPayload", "clearH2R", "clearR2H"}
HostVerify == {"wait", "readAvail", "receive"}
HostSd     == {"sdWrite", "sdAddr", "sdAvail", "sdKick", "cleanup_ok", "done"}

RemoteStart == {"boot", "wipe", "wipeR2H", "wipePayload", "ttc", "osinit"}
RemoteIdle  == {"suspend", "wfi", "asleep", "suspended", "readAvail", "receive"}
RemoteFail  == {"cleanup_fail", "failed", "asserted"}

(* Where the host's main thread is determines its offsets and indexes.     *)
HostPhase ==
    /\ hpc \in HostStart =>
         hI = 0 /\ hTxAddr = 0 /\ hTxData = 0 /\ hRxAddr = 0
    /\ hpc \in {"write", "addr"} =>
         hI < PKGS_TOTAL /\ hTxAddr = hI /\ hTxData = hI /\ hRxAddr = 0
    /\ hpc \in {"avail", "kick"} =>
         hI < PKGS_TOTAL /\ hTxAddr = hI + 1 /\ hTxData = hI + 1 /\ hRxAddr = 0
    /\ hpc \in HostVerify =>
         hTxAddr = PKGS_TOTAL /\ hTxData = hI /\ hRxAddr = hI
    /\ hpc \in HostSd =>
         hI = PKGS_TOTAL /\ hTxAddr = PKGS_TOTAL /\ hTxData = PKGS_TOTAL

(* Where the remote's task is determines its offsets and the counter it    *)
(* publishes.                                                              *)
RemotePhase ==
    /\ rpc \in RemoteStart =>
         rCount = 0 /\ rRxAddr = 0 /\ rTxAddr = 0 /\ rTxData = 0 /\ r2h.avail = 0
    /\ rpc \in RemoteIdle =>
         rRxAddr = rCount /\ rTxAddr = rCount /\ rTxData = rCount /\ r2h.avail = rCount
    /\ rpc \in {"echo", "echoAddr"} =>
         /\ rRxAddr = rCount /\ rTxAddr = rCount - 1 /\ rTxData = rCount - 1
         /\ r2h.avail = rCount - 1
    /\ rpc = "echoAvail" =>
         /\ rRxAddr = rCount /\ rTxAddr = rCount /\ rTxData = rCount
         /\ r2h.avail = rCount - 1 /\ r2h.addr[rCount - 1] = rCount - 1
    /\ rpc = "echoKick" =>
         rRxAddr = rCount /\ rTxAddr = rCount /\ rTxData = rCount /\ r2h.avail = rCount
    /\ rpc \in {"cleanup_ok", "done"} => r2h.avail = rCount - 1
    /\ rpc \in RemoteFail => r2h.avail <= rCount

(* What the host has published, and that the remote has taken no more.     *)
Published ==
    /\ hpc \in HostStart => h2r.avail = 0
    /\ hpc \in {"write", "addr", "avail"} => h2r.avail <= hI
    /\ hpc = "kick" => h2r.avail <= hI + 1
    /\ hpc \notin {"sdKick", "cleanup_ok", "done"} => h2r.avail <= PKGS_TOTAL
    /\ rCount <= h2r.avail
    /\ rpc \in {"receive", "echo", "echoAddr", "echoAvail", "echoKick"} =>
         rCount <= rRxAvail /\ rRxAvail <= h2r.avail
    /\ rpc \in {"echo", "echoAddr", "echoAvail", "echoKick"} =>
         0 < rCount /\ rCount <= PKGS_TOTAL

(* The echoes the host has counted, and the end of its run.                *)
Echoed ==
    /\ r2h.avail <= PKGS_TOTAL
    /\ hpc \in HostVerify \cup HostSd => hI <= r2h.avail
    /\ hpc = "receive" => hI <= hRxAvail /\ hRxAvail <= r2h.avail
    /\ hpc \in HostVerify \cup HostSd =>
         \A k \in 0 .. PKGS_TOTAL - 1 : k < hI => payR[k] = Ping(k)
    /\ \A k \in Cell : k < r2h.avail => r2h.addr[k] = k

(* The messages: cell k of the host's half holds message k or nothing, and *)
(* an available shutdown message is complete.                              *)
Messages ==
    /\ \A k \in 0 .. PKGS_TOTAL - 1 : payH[k] = Cleared \/ payH[k] = Ping(k)
    /\ hpc \in {"sdAddr", "sdAvail"} => payH[PKGS_TOTAL] = Shutdown
    /\ hpc = "sdAvail" => h2r.addr[PKGS_TOTAL] = PKGS_TOTAL
    /\ h2r.avail = PKGS_TOTAL + 1 =>
         payH[PKGS_TOTAL] = Shutdown /\ h2r.addr[PKGS_TOTAL] = PKGS_TOTAL

(* The inductive invariant.                                                *)
IInv == TypeOK /\ HostPhase /\ RemotePhase /\ Published /\ Echoed /\ Messages

USE SizeAssumption
  DEF vars, shmVars, ipiVars, hLocals, hIrqVars, hostVars, rLocals, rOsVars, rIrqVars,
      remVars, HostStep, RemoteStep, HIsrFrame, Cell, SlotIdx, BAD, HostPc, RemotePc,
      HostStart, HostVerify, HostSd, RemoteStart, RemoteIdle, RemoteFail

(* Storing a counter keeps the type of a descriptor and its other fields.  *)
LEMMA DescAvail ==
    ASSUME NEW d \in Desc, NEW n \in 0 .. PKGS_TOTAL + 1
    PROVE  /\ [d EXCEPT !.avail = n] \in Desc
           /\ [d EXCEPT !.avail = n].avail = n
           /\ [d EXCEPT !.avail = n].addr = d.addr
  BY DEF Desc

(* The same for the used counter.                                          *)
LEMMA DescUsed ==
    ASSUME NEW d \in Desc, NEW n \in 0 .. PKGS_TOTAL + 1
    PROVE  /\ [d EXCEPT !.used = n] \in Desc
           /\ [d EXCEPT !.used = n].avail = d.avail
           /\ [d EXCEPT !.used = n].addr = d.addr
  BY DEF Desc

(* Storing one address entry changes that entry only.                      *)
LEMMA DescAddr ==
    ASSUME NEW d \in Desc, NEW s \in SlotIdx, NEW c \in Cell
    PROVE  /\ [d EXCEPT !.addr[s] = c] \in Desc
           /\ [d EXCEPT !.addr[s] = c].avail = d.avail
           /\ [d EXCEPT !.addr[s] = c].addr[s] = c
           /\ \A t \in SlotIdx : t # s => [d EXCEPT !.addr[s] = c].addr[t] = d.addr[t]
  BY DEF Desc

(* A cleared descriptor has its type and nothing available.                *)
LEMMA DescCleared == ClearedDesc \in Desc /\ ClearedDesc.avail = 0
  BY DEF Desc, ClearedDesc

(* A cleared payload half has its type.                                    *)
LEMMA PayCleared == ClearedPay \in [Cell -> Msg]
  BY DEF ClearedPay, Cleared, Msg

(* The initial state: both programs not started, the window cleared.       *)
LEMMA InitIInv == Init => IInv
  <1> SUFFICES ASSUME Init PROVE IInv
    OBVIOUS
  <1>1. WindowTypeOK /\ HostTypeOK /\ RemoteTypeOK
    BY DEF Init, WindowTypeOK, HostTypeOK, RemoteTypeOK, Desc, ClearedDesc, ClearedPay,
           Cleared, Msg
  <1>2. FlagTypeOK
    BY Zenon DEF Init, FlagTypeOK
  <1>3. HostPhase /\ RemotePhase /\ Published /\ Echoed /\ Messages
    BY DEF Init, HostPhase, RemotePhase, Published, Echoed, Messages, ClearedDesc,
           ClearedPay, Cleared
  <1> QED BY <1>1, <1>2, <1>3 DEF IInv, TypeOK

(* The steps that move a program counter, a flag or a status bit only.     *)
ControlStep ==
    \/ HInit \/ HInitFails \/ HWaitNotified \/ HSdKick \/ HCleanup \/ irq_isr
    \/ RBoot \/ RTtc \/ ROsInit \/ RBootFails \/ RSuspendGeneric \/ RWfi \/ WfiEnds
    \/ RSuspendFreertos \/ RReceiveBad \/ RCaughtUp \/ REchoKick \/ RCleanup \/ RIsrAck
    \/ RIsrResume

(* They cannot disturb the window; the program counters move between       *)
(* phases with the same obligations.                                       *)
LEMMA ControlIInv == IInv /\ ControlStep => IInv'
  <1> SUFFICES ASSUME IInv, ControlStep PROVE IInv'
    OBVIOUS
  <1> USE DEF IInv, TypeOK
  <1>1. CASE HInit
    <2> USE <1>1 DEF HInit
    <2>1. FlagTypeOK'
      BY Zenon DEF FlagTypeOK
    <2>2. WindowTypeOK' /\ HostTypeOK' /\ RemoteTypeOK'
      BY DEF WindowTypeOK, HostTypeOK, RemoteTypeOK
    <2>3. HostPhase' /\ RemotePhase' /\ Published' /\ Echoed' /\ Messages'
      BY DEF WindowTypeOK, HostTypeOK, RemoteTypeOK, HostPhase, RemotePhase,
           Published, Echoed, Messages, Desc
    <2> QED BY <2>1, <2>2, <2>3
  <1>2. CASE HInitFails
    <2> USE <1>2 DEF HInitFails
    <2>1. FlagTypeOK'
      BY Zenon DEF FlagTypeOK
    <2>2. WindowTypeOK' /\ HostTypeOK' /\ RemoteTypeOK'
      BY DEF WindowTypeOK, HostTypeOK, RemoteTypeOK
    <2>3. HostPhase' /\ RemotePhase' /\ Published' /\ Echoed' /\ Messages'
      BY DEF WindowTypeOK, HostTypeOK, RemoteTypeOK, HostPhase, RemotePhase,
           Published, Echoed, Messages, Desc
    <2> QED BY <2>1, <2>2, <2>3
  <1>3. CASE HWaitNotified
    <2> USE <1>3 DEF HWaitNotified
    <2>1. FlagTypeOK'
      BY Zenon DEF FlagTypeOK
    <2>2. WindowTypeOK' /\ HostTypeOK' /\ RemoteTypeOK'
      BY DEF WindowTypeOK, HostTypeOK, RemoteTypeOK
    <2>3. HostPhase' /\ RemotePhase' /\ Published' /\ Echoed' /\ Messages'
      BY DEF WindowTypeOK, HostTypeOK, RemoteTypeOK, HostPhase, RemotePhase,
           Published, Echoed, Messages, Desc
    <2> QED BY <2>1, <2>2, <2>3
  <1>4. CASE HSdKick
    <2> USE <1>4 DEF HSdKick
    <2>1. FlagTypeOK'
      BY Zenon DEF FlagTypeOK
    <2>2. WindowTypeOK' /\ HostTypeOK' /\ RemoteTypeOK'
      BY DEF WindowTypeOK, HostTypeOK, RemoteTypeOK
    <2>3. HostPhase' /\ RemotePhase' /\ Published' /\ Echoed' /\ Messages'
      BY DEF WindowTypeOK, HostTypeOK, RemoteTypeOK, HostPhase, RemotePhase,
           Published, Echoed, Messages, Desc
    <2> QED BY <2>1, <2>2, <2>3
  <1>5. CASE HCleanup
    <2> USE <1>5 DEF HCleanup
    <2>1. FlagTypeOK'
      BY Zenon DEF FlagTypeOK
    <2>2. WindowTypeOK' /\ HostTypeOK' /\ RemoteTypeOK'
      BY DEF WindowTypeOK, HostTypeOK, RemoteTypeOK
    <2>3. HostPhase' /\ RemotePhase' /\ Published' /\ Echoed' /\ Messages'
      BY DEF WindowTypeOK, HostTypeOK, RemoteTypeOK, HostPhase, RemotePhase,
           Published, Echoed, Messages, Desc
    <2> QED BY <2>1, <2>2, <2>3
  <1>6. CASE irq_isr
    <2>1. FlagTypeOK'
      <3>1. /\ hIsr' = FALSE \/ hIsr' = hIsr
            /\ remote_nkicked' = FALSE \/ remote_nkicked' = remote_nkicked
            /\ UNCHANGED <<hIer, rIsr, rIer, irq_pending, suspended, rTask, rTtc, rReg>>
        BY <1>6, Zenon DEF irq_isr
      <3> QED BY <3>1, Zenon DEF FlagTypeOK
    <2>2. /\ UNCHANGED <<shmVars, hpc, hLocals, rpc, rLocals, rHandler>>
          /\ hHandler' \in {"idle", "acked"}
      BY <1>6, Zenon DEF irq_isr
    <2>3. WindowTypeOK' /\ HostTypeOK' /\ RemoteTypeOK'
      BY <2>2 DEF WindowTypeOK, HostTypeOK, RemoteTypeOK
    <2>4. HostPhase' /\ RemotePhase' /\ Published' /\ Echoed' /\ Messages'
      BY <2>2 DEF HostPhase, RemotePhase, Published, Echoed, Messages
    <2> QED BY <2>1, <2>3, <2>4
  <1>7. CASE RBoot
    <2> USE <1>7 DEF RBoot
    <2>1. FlagTypeOK'
      BY Zenon DEF FlagTypeOK
    <2>2. WindowTypeOK' /\ HostTypeOK' /\ RemoteTypeOK'
      BY DEF WindowTypeOK, HostTypeOK, RemoteTypeOK
    <2>3. HostPhase' /\ RemotePhase' /\ Published' /\ Echoed' /\ Messages'
      BY DEF WindowTypeOK, HostTypeOK, RemoteTypeOK, HostPhase, RemotePhase,
           Published, Echoed, Messages, Desc
    <2> QED BY <2>1, <2>2, <2>3
  <1>8. CASE RTtc
    <2> USE <1>8 DEF RTtc
    <2>1. FlagTypeOK'
      BY Zenon DEF FlagTypeOK
    <2>2. WindowTypeOK' /\ HostTypeOK' /\ RemoteTypeOK'
      BY DEF WindowTypeOK, HostTypeOK, RemoteTypeOK
    <2>3. HostPhase' /\ RemotePhase' /\ Published' /\ Echoed' /\ Messages'
      BY DEF WindowTypeOK, HostTypeOK, RemoteTypeOK, HostPhase, RemotePhase,
           Published, Echoed, Messages, Desc
    <2> QED BY <2>1, <2>2, <2>3
  <1>9. CASE ROsInit
    <2> USE <1>9 DEF ROsInit
    <2>1. FlagTypeOK'
      BY Zenon DEF FlagTypeOK
    <2>2. WindowTypeOK' /\ HostTypeOK' /\ RemoteTypeOK'
      BY DEF WindowTypeOK, HostTypeOK, RemoteTypeOK
    <2>3. HostPhase' /\ RemotePhase' /\ Published' /\ Echoed' /\ Messages'
      BY DEF WindowTypeOK, HostTypeOK, RemoteTypeOK, HostPhase, RemotePhase,
           Published, Echoed, Messages, Desc
    <2> QED BY <2>1, <2>2, <2>3
  <1>10. CASE RBootFails
    <2> USE <1>10 DEF RBootFails
    <2>1. FlagTypeOK'
      BY Zenon DEF FlagTypeOK
    <2>2. WindowTypeOK' /\ HostTypeOK' /\ RemoteTypeOK'
      BY DEF WindowTypeOK, HostTypeOK, RemoteTypeOK
    <2>3. HostPhase' /\ RemotePhase' /\ Published' /\ Echoed' /\ Messages'
      BY DEF WindowTypeOK, HostTypeOK, RemoteTypeOK, HostPhase, RemotePhase,
           Published, Echoed, Messages, Desc
    <2> QED BY <2>1, <2>2, <2>3
  <1>11. CASE RSuspendGeneric
    <2> USE <1>11 DEF RSuspendGeneric
    <2>1. FlagTypeOK'
      BY Zenon DEF FlagTypeOK
    <2>2. WindowTypeOK' /\ HostTypeOK' /\ RemoteTypeOK'
      BY DEF WindowTypeOK, HostTypeOK, RemoteTypeOK
    <2>3. HostPhase' /\ RemotePhase' /\ Published' /\ Echoed' /\ Messages'
      BY DEF WindowTypeOK, HostTypeOK, RemoteTypeOK, HostPhase, RemotePhase,
           Published, Echoed, Messages, Desc
    <2> QED BY <2>1, <2>2, <2>3
  <1>12. CASE RWfi \/ WfiEnds
    <2> USE <1>12 DEF RWfi, WfiEnds
    <2>1. FlagTypeOK'
      BY Zenon DEF FlagTypeOK
    <2>2. WindowTypeOK' /\ HostTypeOK' /\ RemoteTypeOK'
      BY DEF WindowTypeOK, HostTypeOK, RemoteTypeOK
    <2>3. HostPhase' /\ RemotePhase' /\ Published' /\ Echoed' /\ Messages'
      BY DEF WindowTypeOK, HostTypeOK, RemoteTypeOK, HostPhase, RemotePhase,
           Published, Echoed, Messages, Desc
    <2> QED BY <2>1, <2>2, <2>3
  <1>13. CASE RSuspendFreertos
    <2> USE <1>13 DEF RSuspendFreertos
    <2>1. FlagTypeOK'
      BY Zenon DEF FlagTypeOK
    <2>2. WindowTypeOK' /\ HostTypeOK' /\ RemoteTypeOK'
      BY DEF WindowTypeOK, HostTypeOK, RemoteTypeOK
    <2>3. HostPhase' /\ RemotePhase' /\ Published' /\ Echoed' /\ Messages'
      BY DEF WindowTypeOK, HostTypeOK, RemoteTypeOK, HostPhase, RemotePhase,
           Published, Echoed, Messages, Desc
    <2> QED BY <2>1, <2>2, <2>3
  <1>14. CASE RReceiveBad
    <2> USE <1>14 DEF RReceiveBad
    <2>1. FlagTypeOK'
      BY Zenon DEF FlagTypeOK
    <2>2. WindowTypeOK' /\ HostTypeOK' /\ RemoteTypeOK'
      BY DEF WindowTypeOK, HostTypeOK, RemoteTypeOK
    <2>3. HostPhase' /\ RemotePhase' /\ Published' /\ Echoed' /\ Messages'
      BY DEF WindowTypeOK, HostTypeOK, RemoteTypeOK, HostPhase, RemotePhase,
           Published, Echoed, Messages, Desc
    <2> QED BY <2>1, <2>2, <2>3
  <1>15. CASE RCaughtUp
    <2> USE <1>15 DEF RCaughtUp
    <2>1. FlagTypeOK'
      BY Zenon DEF FlagTypeOK
    <2>2. WindowTypeOK' /\ HostTypeOK' /\ RemoteTypeOK'
      BY DEF WindowTypeOK, HostTypeOK, RemoteTypeOK
    <2>3. HostPhase' /\ RemotePhase' /\ Published' /\ Echoed' /\ Messages'
      BY DEF WindowTypeOK, HostTypeOK, RemoteTypeOK, HostPhase, RemotePhase,
           Published, Echoed, Messages, Desc
    <2> QED BY <2>1, <2>2, <2>3
  <1>16. CASE REchoKick
    <2> USE <1>16 DEF REchoKick
    <2>1. FlagTypeOK'
      BY Zenon DEF FlagTypeOK
    <2>2. WindowTypeOK' /\ HostTypeOK' /\ RemoteTypeOK'
      BY DEF WindowTypeOK, HostTypeOK, RemoteTypeOK
    <2>3. HostPhase' /\ RemotePhase' /\ Published' /\ Echoed' /\ Messages'
      BY DEF WindowTypeOK, HostTypeOK, RemoteTypeOK, HostPhase, RemotePhase,
           Published, Echoed, Messages, Desc
    <2> QED BY <2>1, <2>2, <2>3
  <1>17. CASE RCleanup
    <2> USE <1>17 DEF RCleanup
    <2>1. FlagTypeOK'
      BY Zenon DEF FlagTypeOK
    <2>2. WindowTypeOK' /\ HostTypeOK' /\ RemoteTypeOK'
      BY DEF WindowTypeOK, HostTypeOK, RemoteTypeOK
    <2>3. HostPhase' /\ RemotePhase' /\ Published' /\ Echoed' /\ Messages'
      BY DEF WindowTypeOK, HostTypeOK, RemoteTypeOK, HostPhase, RemotePhase,
           Published, Echoed, Messages, Desc
    <2> QED BY <2>1, <2>2, <2>3
  <1>18. CASE RIsrAck
    <2> USE <1>18 DEF RIsrAck
    <2>1. FlagTypeOK'
      BY Zenon DEF FlagTypeOK
    <2>2. WindowTypeOK' /\ HostTypeOK' /\ RemoteTypeOK'
      BY DEF WindowTypeOK, HostTypeOK, RemoteTypeOK
    <2>3. HostPhase' /\ RemotePhase' /\ Published' /\ Echoed' /\ Messages'
      BY DEF WindowTypeOK, HostTypeOK, RemoteTypeOK, HostPhase, RemotePhase,
           Published, Echoed, Messages, Desc
    <2> QED BY <2>1, <2>2, <2>3
  <1>19. CASE RIsrResume
    <2> USE <1>19 DEF RIsrResume
    <2>1. FlagTypeOK'
      BY Zenon DEF FlagTypeOK
    <2>2. WindowTypeOK' /\ HostTypeOK' /\ RemoteTypeOK'
      BY DEF WindowTypeOK, HostTypeOK, RemoteTypeOK
    <2>3. HostPhase' /\ RemotePhase' /\ Published' /\ Echoed' /\ Messages'
      BY DEF WindowTypeOK, HostTypeOK, RemoteTypeOK, HostPhase, RemotePhase,
           Published, Echoed, Messages, Desc
    <2> QED BY <2>1, <2>2, <2>3
  <1> QED BY <1>1, <1>2, <1>3, <1>4, <1>5, <1>6, <1>7, <1>8, <1>9, <1>10, <1>11, <1>12,
             <1>13, <1>14, <1>15, <1>16, <1>17, <1>18, <1>19 DEF ControlStep

(* The message goes into cell hI, beyond everything published.             *)
LEMMA HWritePayloadIInv == IInv /\ HWritePayload => IInv'
  <1> SUFFICES ASSUME IInv, HWritePayload PROVE IInv'
    OBVIOUS
  <1>1. FlagTypeOK'
    BY Zenon DEF IInv, TypeOK, HWritePayload, FlagTypeOK
  <1> USE DEF IInv, TypeOK, WindowTypeOK, HostTypeOK, RemoteTypeOK, HostPhase,
      RemotePhase,
              Published, Echoed, Messages, Desc, HWritePayload
  <1>2. WindowTypeOK'
    BY DEF Ping, Msg
  <1>3. HostTypeOK' /\ RemoteTypeOK'
    OBVIOUS
  <1>4. HostPhase' /\ RemotePhase'
    OBVIOUS
  <1>5. Published'
    OBVIOUS
  <1>6. Echoed'
    OBVIOUS
  <1>7. Messages'
    BY DEF Ping
  <1> QED BY <1>1, <1>2, <1>3, <1>4, <1>5, <1>6, <1>7

(* The address goes into entry hI and the offsets advance without wrapping. *)
LEMMA HWriteAddrIInv == IInv /\ HWriteAddr => IInv'
  <1> SUFFICES ASSUME IInv, HWriteAddr PROVE IInv'
    OBVIOUS
  <1>1. FlagTypeOK'
    BY Zenon DEF IInv, TypeOK, HWriteAddr, FlagTypeOK
  <1>a. hTxAddr = hI /\ hTxData = hI /\ hI \in Nat /\ hI + 1 \in Cell /\ hI + 1 \in SlotIdx
    BY DEF IInv, TypeOK, HostTypeOK, HostPhase, HWriteAddr
  <1>b. hTxAddr' = hI + 1 /\ hTxData' = hI + 1
    BY <1>a DEF HWriteAddr
  <1> USE DEF IInv, TypeOK, WindowTypeOK, HostTypeOK, RemoteTypeOK, HostPhase,
      RemotePhase,
              Published, Echoed, Messages, Desc, HWriteAddr
  <1>2. WindowTypeOK'
    BY DescAddr, <1>a, <1>b
  <1>3. HostTypeOK' /\ RemoteTypeOK'
    <2>1. /\ hpc' = "avail" /\ hI' = hI /\ hRxAddr' = hRxAddr /\ hRxAvail' = hRxAvail
          /\ hHandler' = hHandler
      OBVIOUS
    <2>2. HostTypeOK'
      BY <1>a, <1>b, <2>1 DEF HostTypeOK
    <2>3. RemoteTypeOK'
      OBVIOUS
    <2> QED BY <2>2, <2>3
  <1>4. HostPhase' /\ RemotePhase'
    BY <1>a, <1>b
  <1>5. Published'
    BY <1>a, <1>b
  <1>6. Echoed'
    BY <1>a, <1>b
  <1>7. Messages'
    BY <1>a, <1>b
  <1> QED BY <1>1, <1>2, <1>3, <1>4, <1>5, <1>6, <1>7

(* The counter grows to hI + 1.                                            *)
LEMMA HWriteAvailIInv == IInv /\ HWriteAvail => IInv'
  <1> SUFFICES ASSUME IInv, HWriteAvail PROVE IInv'
    OBVIOUS
  <1>1. FlagTypeOK'
    BY Zenon DEF IInv, TypeOK, HWriteAvail, FlagTypeOK
  <1>a. /\ h2r \in Desc /\ hI \in Nat /\ hI < PKGS_TOTAL
        /\ hI + 1 \in 0 .. PKGS_TOTAL + 1
    BY DEF IInv, TypeOK, WindowTypeOK, HostTypeOK, HostPhase, HWriteAvail
  <1>b. h2r' \in Desc /\ h2r'.avail = hI + 1 /\ h2r'.addr = h2r.addr
    BY <1>a, DescAvail DEF HWriteAvail
  <1>c. /\ hpc = "avail" /\ hpc' = "kick"
        /\ UNCHANGED <<r2h, payH, payR, hLocals, hHandler, rpc, rLocals, rHandler>>
    BY DEF HWriteAvail
  <1>d. h2r.avail <= h2r'.avail /\ h2r.avail \in Nat
    BY <1>a, <1>b, <1>c DEF IInv, Published, Desc
  <1> USE DEF IInv, TypeOK, WindowTypeOK, HostTypeOK, RemoteTypeOK, HostPhase,
      RemotePhase,
              Published, Echoed, Messages, Desc
  <1>2. WindowTypeOK'
    BY <1>a, <1>b, <1>c, <1>d
  <1>3. HostTypeOK' /\ RemoteTypeOK'
    BY <1>a, <1>b, <1>c, <1>d
  <1>4. HostPhase' /\ RemotePhase'
    BY <1>a, <1>b, <1>c, <1>d
  <1>5. Published'
    BY <1>a, <1>b, <1>c, <1>d
  <1>6. Echoed'
    BY <1>a, <1>b, <1>c, <1>d
  <1>7. Messages'
    BY <1>a, <1>b, <1>c, <1>d
  <1> QED BY <1>1, <1>2, <1>3, <1>4, <1>5, <1>6, <1>7

(* The last kick starts the verification with hI = 0.                      *)
LEMMA HKickIInv == IInv /\ HKick => IInv'
  <1> SUFFICES ASSUME IInv, HKick PROVE IInv'
    OBVIOUS
  <1>1. FlagTypeOK'
    BY Zenon DEF IInv, TypeOK, HKick, FlagTypeOK
  <1> USE DEF IInv, TypeOK, WindowTypeOK, HostTypeOK, RemoteTypeOK, HostPhase,
      RemotePhase,
              Published, Echoed, Messages, Desc, HKick
  <1>2. WindowTypeOK'
    OBVIOUS
  <1>3. HostTypeOK' /\ RemoteTypeOK'
    OBVIOUS
  <1>4. HostPhase' /\ RemotePhase'
    OBVIOUS
  <1>5. Published'
    OBVIOUS
  <1>6. Echoed'
    OBVIOUS
  <1>7. Messages'
    OBVIOUS
  <1> QED BY <1>1, <1>2, <1>3, <1>4, <1>5, <1>6, <1>7

(* The copy of the counter lies between hI and the counter.                *)
LEMMA HReadAvailIInv == IInv /\ HReadAvail => IInv'
  <1> SUFFICES ASSUME IInv, HReadAvail PROVE IInv'
    OBVIOUS
  <1>1. FlagTypeOK'
    BY Zenon DEF IInv, TypeOK, HReadAvail, FlagTypeOK
  <1> USE DEF IInv, TypeOK, WindowTypeOK, HostTypeOK, RemoteTypeOK, HostPhase,
      RemotePhase,
              Published, Echoed, Messages, Desc, HReadAvail
  <1>2. WindowTypeOK'
    OBVIOUS
  <1>3. HostTypeOK' /\ RemoteTypeOK'
    OBVIOUS
  <1>4. HostPhase' /\ RemotePhase'
    OBVIOUS
  <1>5. Published'
    OBVIOUS
  <1>6. Echoed'
    OBVIOUS
  <1>7. Messages'
    OBVIOUS
  <1> QED BY <1>1, <1>2, <1>3, <1>4, <1>5, <1>6, <1>7

(* A verified echo is message hI: the checks exclude a cleared message.    *)
LEMMA HReceiveIInv == IInv /\ HReceive => IInv'
  <1> SUFFICES ASSUME IInv, HReceive PROVE IInv'
    OBVIOUS
  <1>1. FlagTypeOK'
    BY Zenon DEF IInv, TypeOK, HReceive, FlagTypeOK
  <1>a. /\ hpc = "receive" /\ hpc' = "receive" /\ hI # hRxAvail /\ EchoGood
        /\ hI' = hI + 1 /\ hTxData' = hTxData + 1 /\ hRxAddr' = hRxAddr + 1
        /\ UNCHANGED <<h2r, payH, payR, hTxAddr, hRxAvail, hHandler, rpc, rLocals, rHandler>>
    BY DEF HReceive
  <1>b. /\ hI \in Nat /\ hI < hRxAvail /\ hRxAvail <= r2h.avail /\ r2h.avail <= PKGS_TOTAL
        /\ r2h.avail \in Nat /\ hRxAvail \in Nat /\ r2h \in Desc
    BY <1>a DEF IInv, TypeOK, WindowTypeOK, HostTypeOK, Echoed, Desc
  <1>c. r2h'.avail = r2h.avail /\ r2h'.addr = r2h.addr /\ r2h' \in Desc
    BY <1>b, DescUsed DEF HReceive
  <1>d. hI \in 0 .. PKGS_TOTAL - 1 /\ hTxData = hI /\ r2h.addr[hRxAddr] = hI
    BY <1>a, <1>b DEF IInv, HostPhase, Echoed
  <1>e. payR[hI] = Ping(hI)
    BY <1>a, <1>d DEF IInv, EchoGood, Messages, Cleared, Ping
  <1> USE DEF IInv, TypeOK, WindowTypeOK, HostTypeOK, RemoteTypeOK, HostPhase,
      RemotePhase,
              Published, Echoed, Messages, Desc
  <1>2. WindowTypeOK'
    BY <1>a, <1>b, <1>c, <1>d, <1>e
  <1>3. HostTypeOK' /\ RemoteTypeOK'
    BY <1>a, <1>b, <1>c, <1>d, <1>e
  <1>4. HostPhase' /\ RemotePhase'
    BY <1>a, <1>b, <1>c, <1>d, <1>e
  <1>5. Published'
    BY <1>a, <1>b, <1>c, <1>d, <1>e
  <1>6. Echoed'
    <2>1. \A k \in 0 .. PKGS_TOTAL - 1 : k < hI' => payR'[k] = Ping(k)
      <3> SUFFICES ASSUME NEW k \in 0 .. PKGS_TOTAL - 1, k < hI + 1 PROVE payR[k] = Ping(k)
        BY <1>a
      <3>1. k < hI \/ k = hI
        BY <1>b
      <3> QED BY <3>1, <1>a, <1>e
    <2>2. r2h'.avail <= PKGS_TOTAL /\ \A k \in Cell : k < r2h'.avail => r2h'.addr[k] = k
      BY <1>c
    <2>3. hI' <= r2h'.avail /\ hI' <= hRxAvail' /\ hRxAvail' <= r2h'.avail
      BY <1>a, <1>b, <1>c
    <2> QED BY <1>a, <2>1, <2>2, <2>3
  <1>7. Messages'
    BY <1>a, <1>b, <1>c, <1>d, <1>e
  <1> QED BY <1>1, <1>2, <1>3, <1>4, <1>5, <1>6, <1>7

(* A failed check ends the demo.                                           *)
LEMMA HReceiveBadIInv == IInv /\ HReceiveBad => IInv'
  <1> SUFFICES ASSUME IInv, HReceiveBad PROVE IInv'
    OBVIOUS
  <1>1. FlagTypeOK'
    BY Zenon DEF IInv, TypeOK, HReceiveBad, FlagTypeOK
  <1>a. /\ hpc = "receive" /\ hpc' = "cleanup_fail" /\ hI # hRxAvail
        /\ UNCHANGED <<h2r, payH, payR, hLocals, hHandler, rpc, rLocals, rHandler>>
    BY DEF HReceiveBad
  <1>b. r2h \in Desc /\ hI + 1 \in 0 .. PKGS_TOTAL + 1
    BY DEF IInv, TypeOK, WindowTypeOK, HostTypeOK
  <1>c. r2h'.avail = r2h.avail /\ r2h'.addr = r2h.addr /\ r2h' \in Desc
    BY <1>b, DescUsed DEF HReceiveBad
  <1> USE DEF IInv, TypeOK, WindowTypeOK, HostTypeOK, RemoteTypeOK, HostPhase,
      RemotePhase,
              Published, Echoed, Messages, Desc
  <1>2. WindowTypeOK'
    BY <1>a, <1>b, <1>c
  <1>3. HostTypeOK' /\ RemoteTypeOK'
    BY <1>a, <1>b, <1>c
  <1>4. HostPhase' /\ RemotePhase'
    BY <1>a, <1>b, <1>c
  <1>5. Published'
    BY <1>a, <1>b, <1>c
  <1>6. Echoed'
    BY <1>a, <1>b, <1>c
  <1>7. Messages'
    BY <1>a, <1>b, <1>c
  <1> QED BY <1>1, <1>2, <1>3, <1>4, <1>5, <1>6, <1>7

(* Shutdown starts only with hI = PKGS_TOTAL.                              *)
LEMMA HCaughtUpIInv == IInv /\ HCaughtUp => IInv'
  <1> SUFFICES ASSUME IInv, HCaughtUp PROVE IInv'
    OBVIOUS
  <1>1. FlagTypeOK'
    BY Zenon DEF IInv, TypeOK, HCaughtUp, FlagTypeOK
  <1> USE DEF IInv, TypeOK, WindowTypeOK, HostTypeOK, RemoteTypeOK, HostPhase,
      RemotePhase,
              Published, Echoed, Messages, Desc, HCaughtUp
  <1>2. WindowTypeOK'
    OBVIOUS
  <1>3. HostTypeOK' /\ RemoteTypeOK'
    OBVIOUS
  <1>4. HostPhase' /\ RemotePhase'
    OBVIOUS
  <1>5. Published'
    OBVIOUS
  <1>6. Echoed'
    OBVIOUS
  <1>7. Messages'
    OBVIOUS
  <1> QED BY <1>1, <1>2, <1>3, <1>4, <1>5, <1>6, <1>7

(* When the host clears the window the remote has not taken anything.      *)
LEMMA HClearIInv == IInv /\ HClear => IInv'
  <1> SUFFICES ASSUME IInv, HClear PROVE IInv'
    OBVIOUS
  <1>1. FlagTypeOK'
    BY Zenon DEF IInv, TypeOK, HClear, FlagTypeOK
  <1> USE DEF IInv, TypeOK, WindowTypeOK, HostTypeOK, RemoteTypeOK, HostPhase,
      RemotePhase,
              Published, Echoed, Messages, Desc, HClear
  <1>2. WindowTypeOK'
    BY DescCleared, PayCleared
  <1>3. HostTypeOK' /\ RemoteTypeOK'
    OBVIOUS
  <1>4. HostPhase' /\ RemotePhase'
    BY DescCleared
  <1>5. Published'
    BY DescCleared
  <1>6. Echoed'
    BY DescCleared, PayCleared
  <1>7. Messages'
    BY DescCleared DEF ClearedPay, Cleared
  <1> QED BY <1>1, <1>2, <1>3, <1>4, <1>5, <1>6, <1>7

(* The shutdown message goes into the last cell.                           *)
LEMMA HSdPayloadIInv == IInv /\ HSdPayload => IInv'
  <1> SUFFICES ASSUME IInv, HSdPayload PROVE IInv'
    OBVIOUS
  <1>1. FlagTypeOK'
    BY Zenon DEF IInv, TypeOK, HSdPayload, FlagTypeOK
  <1> USE DEF IInv, TypeOK, WindowTypeOK, HostTypeOK, RemoteTypeOK, HostPhase,
      RemotePhase,
              Published, Echoed, Messages, Desc, HSdPayload
  <1>2. WindowTypeOK'
    <2>1. Shutdown \in Msg /\ hTxData \in Cell
      BY DEF Shutdown, Msg
    <2>2. payH' \in [Cell -> Msg]
      BY <2>1
    <2> QED BY <2>2
  <1>3. HostTypeOK' /\ RemoteTypeOK'
    OBVIOUS
  <1>4. HostPhase' /\ RemotePhase'
    OBVIOUS
  <1>5. Published'
    OBVIOUS
  <1>6. Echoed'
    OBVIOUS
  <1>7. Messages'
    BY DEF Shutdown
  <1> QED BY <1>1, <1>2, <1>3, <1>4, <1>5, <1>6, <1>7

(* Its address goes into the last entry.                                   *)
LEMMA HSdAddrIInv == IInv /\ HSdAddr => IInv'
  <1> SUFFICES ASSUME IInv, HSdAddr PROVE IInv'
    OBVIOUS
  <1>1. FlagTypeOK'
    BY Zenon DEF IInv, TypeOK, HSdAddr, FlagTypeOK
  <1>a. h2r \in Desc /\ hTxAddr = PKGS_TOTAL /\ hTxData = PKGS_TOTAL
    BY DEF IInv, TypeOK, WindowTypeOK, HostPhase, HSdAddr
  <1>b. /\ h2r' \in Desc /\ h2r'.avail = h2r.avail
        /\ h2r'.addr[PKGS_TOTAL] = PKGS_TOTAL
    BY <1>a, DescAddr DEF HSdAddr
  <1> USE DEF IInv, TypeOK, WindowTypeOK, HostTypeOK, RemoteTypeOK, HostPhase,
      RemotePhase,
              Published, Echoed, Messages, Desc, HSdAddr
  <1>2. WindowTypeOK'
    BY <1>a, <1>b
  <1>3. HostTypeOK' /\ RemoteTypeOK'
    BY <1>a, <1>b
  <1>4. HostPhase' /\ RemotePhase'
    BY <1>a, <1>b
  <1>5. Published'
    BY <1>a, <1>b
  <1>6. Echoed'
    BY <1>a, <1>b
  <1>7. Messages'
    BY <1>a, <1>b
  <1> QED BY <1>1, <1>2, <1>3, <1>4, <1>5, <1>6, <1>7

(* Only a complete shutdown message is made available.                     *)
LEMMA HSdAvailIInv == IInv /\ HSdAvail => IInv'
  <1> SUFFICES ASSUME IInv, HSdAvail PROVE IInv'
    OBVIOUS
  <1>1. FlagTypeOK'
    BY Zenon DEF IInv, TypeOK, HSdAvail, FlagTypeOK
  <1>a. h2r \in Desc
    BY DEF IInv, TypeOK, WindowTypeOK
  <1>b. h2r' \in Desc /\ h2r'.avail = PKGS_TOTAL + 1 /\ h2r'.addr = h2r.addr
    BY <1>a, DescAvail DEF HSdAvail
  <1> USE DEF IInv, TypeOK, WindowTypeOK, HostTypeOK, RemoteTypeOK, HostPhase,
      RemotePhase,
              Published, Echoed, Messages, Desc, HSdAvail
  <1>2. WindowTypeOK'
    BY <1>a, <1>b
  <1>3. HostTypeOK' /\ RemoteTypeOK'
    BY <1>a, <1>b
  <1>4. HostPhase' /\ RemotePhase'
    BY <1>a, <1>b
  <1>5. Published'
    BY <1>a, <1>b
  <1>6. Echoed'
    BY <1>a, <1>b
  <1>7. Messages'
    BY <1>a, <1>b
  <1> QED BY <1>1, <1>2, <1>3, <1>4, <1>5, <1>6, <1>7

(* When the remote wipes the window the host has not verified anything.    *)
LEMMA RWipeIInv == IInv /\ RWipe => IInv'
  <1> SUFFICES ASSUME IInv, RWipe PROVE IInv'
    OBVIOUS
  <1>1. FlagTypeOK'
    BY Zenon DEF IInv, TypeOK, RWipe, FlagTypeOK
  <1> USE DEF IInv, TypeOK, WindowTypeOK, HostTypeOK, RemoteTypeOK, HostPhase,
      RemotePhase,
              Published, Echoed, Messages, Desc, RWipe
  <1>a. hpc \notin HostSd /\ r2h.avail = 0
    OBVIOUS
  <1>2. WindowTypeOK'
    BY DescCleared, PayCleared, <1>a
  <1>3. HostTypeOK' /\ RemoteTypeOK'
    BY <1>a
  <1>4. HostPhase' /\ RemotePhase'
    BY DescCleared, <1>a
  <1>5. Published'
    BY DescCleared, <1>a
  <1>6. Echoed'
    BY DescCleared, PayCleared, <1>a
  <1>7. Messages'
    BY DescCleared, <1>a DEF ClearedPay, Cleared
  <1> QED BY <1>1, <1>2, <1>3, <1>4, <1>5, <1>6, <1>7

(* The copy of the counter lies between rCount and the counter.            *)
LEMMA RReadAvailIInv == IInv /\ RReadAvail => IInv'
  <1> SUFFICES ASSUME IInv, RReadAvail PROVE IInv'
    OBVIOUS
  <1>1. FlagTypeOK'
    BY Zenon DEF IInv, TypeOK, RReadAvail, FlagTypeOK
  <1> USE DEF IInv, TypeOK, WindowTypeOK, HostTypeOK, RemoteTypeOK, HostPhase,
      RemotePhase,
              Published, Echoed, Messages, Desc, RReadAvail
  <1>2. WindowTypeOK'
    OBVIOUS
  <1>3. HostTypeOK' /\ RemoteTypeOK'
    OBVIOUS
  <1>4. HostPhase' /\ RemotePhase'
    OBVIOUS
  <1>5. Published'
    OBVIOUS
  <1>6. Echoed'
    OBVIOUS
  <1>7. Messages'
    OBVIOUS
  <1> QED BY <1>1, <1>2, <1>3, <1>4, <1>5, <1>6, <1>7

(* What is fetched is a message.                                           *)
LEMMA Fetched ==
    ASSUME TypeOK, RReceive, rRxAddr \in SlotIdx
    PROVE  lbuf' \in Msg /\ lbuf' = payH[h2r.addr[rRxAddr]]
  <1>1. h2r.addr[rRxAddr] \in Cell \cup {BAD} /\ payH \in [Cell -> Msg]
    BY DEF TypeOK, WindowTypeOK, Desc
  <1>2. h2r.addr[rRxAddr] # BAD /\ lbuf' = payH[h2r.addr[rRxAddr]]
    BY DEF RReceive
  <1> QED BY <1>1, <1>2

(* The message after the last package can only be the shutdown message.    *)
LEMMA RReceiveIInv == IInv /\ RReceive => IInv'
  <1> SUFFICES ASSUME IInv, RReceive PROVE IInv'
    OBVIOUS
  <1>1. FlagTypeOK'
    BY Zenon DEF IInv, TypeOK, RReceive, FlagTypeOK
  <1> USE DEF IInv, TypeOK, WindowTypeOK, HostTypeOK, RemoteTypeOK, HostPhase,
      RemotePhase,
              Published, Echoed, Messages, Desc
  <1>a. rpc = "receive" /\ rCount # rRxAvail
    BY DEF RReceive
  <1>b. rCount + 1 \in 0 .. PKGS_TOTAL + 1 /\ rCount + 1 <= rRxAvail
    BY <1>a
  <1>c. h2r'.avail = h2r.avail /\ h2r'.addr = h2r.addr /\ h2r' \in Desc
    BY <1>b, DescUsed DEF RReceive
  <1>d. lbuf' \in Msg /\ lbuf' = payH[h2r.addr[rRxAddr]]
    <2>1. rRxAddr \in SlotIdx
      BY <1>a, <1>b
    <2> QED BY <2>1, Fetched
  <1>e. rCount = PKGS_TOTAL => lbuf'.body = "shutdown"
    BY <1>a, <1>b, <1>d DEF Shutdown
  <1>f. rpc' \in {"cleanup_ok", "echo"} /\ (rCount = PKGS_TOTAL => rpc' = "cleanup_ok")
    BY <1>e DEF RReceive
  <1>g. /\ rRxAddr' = rRxAddr + 1 /\ rCount' = rCount + 1
        /\ UNCHANGED <<rRxAvail, rTxAddr, rTxData, rHandler, r2h, payH, payR,
                       hpc, hLocals, hHandler>>
    BY DEF RReceive
  <1>2. WindowTypeOK'
    BY <1>a, <1>b, <1>c, <1>d, <1>e, <1>f, <1>g
  <1>3. HostTypeOK' /\ RemoteTypeOK'
    BY <1>a, <1>b, <1>c, <1>d, <1>e, <1>f, <1>g
  <1>4. HostPhase' /\ RemotePhase'
    BY <1>a, <1>b, <1>c, <1>d, <1>e, <1>f, <1>g
  <1>5. Published'
    BY <1>a, <1>b, <1>c, <1>d, <1>e, <1>f, <1>g
  <1>6. Echoed'
    BY <1>a, <1>b, <1>c, <1>d, <1>e, <1>f, <1>g
  <1>7. Messages'
    BY <1>a, <1>b, <1>c, <1>d, <1>e, <1>f, <1>g
  <1> QED BY <1>1, <1>2, <1>3, <1>4, <1>5, <1>6, <1>7

(* The echo goes into a cell the host has not verified.                    *)
LEMMA REchoPayloadIInv == IInv /\ REchoPayload => IInv'
  <1> SUFFICES ASSUME IInv, REchoPayload PROVE IInv'
    OBVIOUS
  <1>1. FlagTypeOK'
    BY Zenon DEF IInv, TypeOK, REchoPayload, FlagTypeOK
  <1> USE DEF IInv, TypeOK, WindowTypeOK, HostTypeOK, RemoteTypeOK, HostPhase,
      RemotePhase,
              Published, Echoed, Messages, Desc, REchoPayload
  <1>2. WindowTypeOK'
    OBVIOUS
  <1>3. HostTypeOK' /\ RemoteTypeOK'
    OBVIOUS
  <1>4. HostPhase' /\ RemotePhase'
    OBVIOUS
  <1>5. Published'
    OBVIOUS
  <1>6. Echoed'
    OBVIOUS
  <1>7. Messages'
    OBVIOUS
  <1> QED BY <1>1, <1>2, <1>3, <1>4, <1>5, <1>6, <1>7

(* The address of the echo is that of its cell.                            *)
LEMMA REchoAddrIInv == IInv /\ REchoAddr => IInv'
  <1> SUFFICES ASSUME IInv, REchoAddr PROVE IInv'
    OBVIOUS
  <1>1. FlagTypeOK'
    BY Zenon DEF IInv, TypeOK, REchoAddr, FlagTypeOK
  <1>a. /\ rpc = "echoAddr" /\ rTxAddr \in SlotIdx /\ rTxData \in Cell
        /\ rTxAddr = rCount - 1 /\ rTxData = rCount - 1 /\ rCount \in Cell /\ r2h \in Desc
    BY DEF IInv, TypeOK, WindowTypeOK, RemoteTypeOK, RemotePhase, Published, REchoAddr
  <1>b. /\ r2h' \in Desc /\ r2h'.avail = r2h.avail
        /\ r2h'.addr[rTxAddr] = rTxData
        /\ \A k \in SlotIdx : k # rTxAddr => r2h'.addr[k] = r2h.addr[k]
    BY <1>a, DescAddr DEF REchoAddr
  <1>c. /\ rpc' = "echoAvail" /\ rTxData' = rCount /\ rTxAddr' = rCount
        /\ UNCHANGED <<rCount, rRxAvail, rRxAddr, lbuf, rHandler, h2r, payH, payR,
                       hpc, hLocals, hHandler>>
    BY <1>a DEF REchoAddr
  <1> USE DEF IInv, TypeOK, WindowTypeOK, HostTypeOK, RemoteTypeOK, HostPhase,
      RemotePhase,
              Published, Echoed, Messages, Desc
  <1>2. WindowTypeOK'
    BY <1>a, <1>b, <1>c
  <1>3. HostTypeOK' /\ RemoteTypeOK'
    BY <1>a, <1>b, <1>c
  <1>4. HostPhase' /\ RemotePhase'
    BY <1>a, <1>b, <1>c
  <1>5. Published'
    BY <1>a, <1>b, <1>c
  <1>6. Echoed'
    BY <1>a, <1>b, <1>c
  <1>7. Messages'
    BY <1>a, <1>b, <1>c
  <1> QED BY <1>1, <1>2, <1>3, <1>4, <1>5, <1>6, <1>7

(* The counter grows to rCount.                                            *)
LEMMA REchoAvailIInv == IInv /\ REchoAvail => IInv'
  <1> SUFFICES ASSUME IInv, REchoAvail PROVE IInv'
    OBVIOUS
  <1>1. FlagTypeOK'
    BY Zenon DEF IInv, TypeOK, REchoAvail, FlagTypeOK
  <1> USE DEF IInv, TypeOK, WindowTypeOK, HostTypeOK, RemoteTypeOK, HostPhase,
      RemotePhase,
              Published, Echoed, Messages, Desc
  <1>a. rpc = "echoAvail" /\ rCount \in 0 .. PKGS_TOTAL + 1
    BY DEF REchoAvail
  <1>b. r2h' \in Desc /\ r2h'.avail = rCount /\ r2h'.addr = r2h.addr
    BY <1>a, DescAvail DEF REchoAvail
  <1>c. /\ rpc' = "echoKick"
        /\ UNCHANGED <<rLocals, rHandler, h2r, payH, payR, hpc, hLocals, hHandler>>
    BY DEF REchoAvail
  <1>2. WindowTypeOK'
    BY <1>a, <1>b, <1>c
  <1>3. HostTypeOK' /\ RemoteTypeOK'
    BY <1>a, <1>b, <1>c
  <1>4. HostPhase' /\ RemotePhase'
    BY <1>a, <1>b, <1>c
  <1>5. Published'
    BY <1>a, <1>b, <1>c
  <1>6. Echoed'
    BY <1>a, <1>b, <1>c
  <1>7. Messages'
    BY <1>a, <1>b, <1>c
  <1> QED BY <1>1, <1>2, <1>3, <1>4, <1>5, <1>6, <1>7

(* Every step preserves IInv.                                              *)
LEMMA NextIInv == IInv /\ [Next]_vars => IInv'
  <1> SUFFICES ASSUME IInv, [Next]_vars PROVE IInv'
    OBVIOUS
  <1>1. CASE UNCHANGED vars
    <2>1. FlagTypeOK'
      BY <1>1, Zenon DEF IInv, TypeOK, FlagTypeOK
    <2>2. QED
      BY <1>1, <2>1 DEF IInv, TypeOK, WindowTypeOK, HostTypeOK, RemoteTypeOK, HostPhase,
                        RemotePhase, Published, Echoed, Messages
  <1>2. CASE HostMain
    BY <1>2, ControlIInv, HClearIInv, HWritePayloadIInv, HWriteAddrIInv,
       HWriteAvailIInv,
       HKickIInv, HReadAvailIInv, HReceiveIInv, HReceiveBadIInv, HCaughtUpIInv,
       HSdPayloadIInv, HSdAddrIInv, HSdAvailIInv, Zenon DEF HostMain, ControlStep
  <1>3. CASE RemoteTask
    BY <1>3, ControlIInv, RWipeIInv, RReadAvailIInv, RReceiveIInv, REchoPayloadIInv,
       REchoAddrIInv, REchoAvailIInv, Zenon DEF RemoteTask, ControlStep
  <1>4. CASE HostIrq \/ RemoteIrq \/ WfiEnds
    BY <1>4, ControlIInv, Zenon DEF HostIrq, RemoteIrq, ControlStep
  <1>5. CASE Ended
    BY <1>1, <1>5 DEF Ended
  <1> QED BY <1>1, <1>2, <1>3, <1>4, <1>5 DEF Next

(* IInv is an invariant of the demo, whatever the scheduling, the start    *)
(* order, the OS port and the faults.                                      *)
THEOREM Inductive == Safety => []IInv
  <1> QED BY InitIInv, NextIInv, PTL DEF Safety

(* Offsets, indexes and counters stay inside the arrays of the window for  *)
(* every number of packages, although neither program checks them.         *)
THEOREM TypeCorrect == Safety => []TypeOK
  <1>1. IInv => TypeOK
    BY DEF IInv
  <1> QED BY <1>1, Inductive, PTL

(* The host's exit status can be trusted: it reports success only when     *)
(* the remote has taken and echoed every package, even if the two programs *)
(* are started in the wrong order or one of them fails.                    *)
THEOREM HostSuccess == Safety => []HostSuccessSound
  <1>1. IInv => HostSuccessSound
    <2> SUFFICES ASSUME IInv, hpc \in HostSd PROVE
          /\ \A k \in 0 .. PKGS_TOTAL - 1 : payR[k] = Ping(k)
          /\ rCount >= PKGS_TOTAL
          /\ r2h.avail = PKGS_TOTAL
      BY DEF HostSuccessSound
    <2>1. hI = PKGS_TOTAL /\ hI <= r2h.avail /\ r2h.avail <= PKGS_TOTAL
      BY DEF IInv, HostPhase, Echoed
    <2>2. r2h.avail = PKGS_TOTAL
      BY <2>1 DEF IInv, TypeOK, WindowTypeOK, Desc
    <2>3. rCount >= r2h.avail
      BY DEF IInv, TypeOK, RemoteTypeOK, WindowTypeOK, RemotePhase, Desc
    <2>4. \A k \in 0 .. PKGS_TOTAL - 1 : payR[k] = Ping(k)
      BY <2>1 DEF IInv, Echoed
    <2> QED BY <2>2, <2>3, <2>4
  <1> QED BY <1>1, Inductive, PTL
-----------------------------------------------------------------------------
(***************************************************************************)
(* The documented order: the host starts once the remote waits, and no     *)
(* device or allocation fails.  Then more is true, and proved from IInv    *)
(* and a second inductive invariant, DInv.                                 *)
(***************************************************************************)
Documented == HostWaits /\ ~Faults

(* The host does nothing before the remote is up, so that nothing is       *)
(* cleared under its feet and no IPI finds its handler unprepared.         *)
InOrder ==
    /\ rpc \in RemoteStart => hpc = "init"
    /\ hpc = "init" => rHandler = "idle" /\ ~rIsr
    /\ rpc \notin RemoteStart => rTask

(* What the host has written: how far its counter, and that the cells      *)
(* before it hold their messages.                                          *)
Filled ==
    /\ hpc \in {"write", "addr", "avail"} => h2r.avail = hI
    /\ hpc = "kick" => h2r.avail = hI + 1
    /\ hpc \in HostVerify \cup {"sdWrite", "sdAddr", "sdAvail"} => h2r.avail = PKGS_TOTAL
    /\ hpc \in {"write", "addr", "avail", "kick"} =>
         \A k \in Cell : k < hI => h2r.addr[k] = k /\ payH[k] = Ping(k)
    /\ hpc \in {"addr", "avail", "kick"} => payH[hI] = Ping(hI)
    /\ hpc \in {"avail", "kick"} => h2r.addr[hI] = hI
    /\ hpc \in HostVerify \cup HostSd =>
         \A k \in Cell : k < PKGS_TOTAL => h2r.addr[k] = k /\ payH[k] = Ping(k)

(* What the remote has echoed, and is about to.                            *)
Answered ==
    /\ \A k \in Cell : k < r2h.avail => payR[k] = Ping(k)
    /\ rpc = "echo" => lbuf = Ping(rCount - 1)
    /\ rpc \in {"echoAddr", "echoAvail"} => payR[rCount - 1] = Ping(rCount - 1)

(* What the host has counted as used, and when the remote ends.            *)
Counted ==
    /\ hpc \in {"write", "addr", "avail", "kick"} => r2h.used = 0
    /\ hpc \in HostVerify \cup HostSd => r2h.used = hI
    /\ rpc \in {"cleanup_ok", "done"} => rCount = PKGS_TOTAL + 1

(* A side that has not seen a counter, and what is then on its way to it.  *)
(* An echo that comes while the host still sends is announced too.         *)
RemoteBehind ==
    \/ rpc \in {"suspend", "wfi", "asleep"} /\ rCount # h2r.avail
    \/ rpc \in {"receive", "echo", "echoAddr", "echoAvail", "echoKick"} /\ rRxAvail # h2r.avail
RemoteTold == hpc \in {"kick", "sdKick"} \/ rIsr \/ rHandler = "acked" \/ ~irq_pending

HostBehind ==
    \/ hpc \in {"write", "addr", "avail", "kick"} /\ r2h.avail # 0
    \/ hpc = "wait" /\ hI # r2h.avail
    \/ hpc = "receive" /\ hRxAvail # r2h.avail
HostTold == rpc = "echoKick" \/ hIsr \/ hHandler = "acked" \/ ~remote_nkicked

Notified == (RemoteBehind => RemoteTold) /\ (HostBehind => HostTold)

DInv == InOrder /\ Filled /\ Answered /\ Counted /\ NoSpuriousFailure /\ Notified

(* The host starts when the remote waits, and kicks it only afterwards.    *)
LEMMA OrderStep ==
  ASSUME Documented, IInv, DInv, [Next]_vars
  PROVE  InOrder'
  <1>1. CASE HInit
    BY <1>1 DEF HInit, InOrder, DInv, Documented, NoSpuriousFailure, RemoteWaiting
  <1>2. CASE \/ HClear \/ HWritePayload \/ HWriteAddr \/ HWriteAvail \/ HWaitNotified
             \/ HReadAvail \/ HReceive
    BY <1>2 DEF HClear, HWritePayload, HWriteAddr, HWriteAvail, HWaitNotified,
       HReadAvail, HReceive, InOrder, DInv, Documented, NoSpuriousFailure
  <1>3. CASE HReceiveBad \/ HCaughtUp \/ HSdPayload \/ HSdAddr \/ HSdAvail \/ HCleanup
    BY <1>3 DEF HReceiveBad, HCaughtUp, HSdPayload, HSdAddr, HSdAvail, HCleanup,
       InOrder, DInv, Documented, NoSpuriousFailure
  <1>4. CASE HKick \/ HSdKick
    BY <1>4 DEF HKick, HSdKick, InOrder, DInv, Documented, NoSpuriousFailure
  <1>5. CASE HInitFails \/ RBootFails
    BY <1>5 DEF HInitFails, RBootFails, InOrder, DInv, Documented, NoSpuriousFailure
  <1>6. CASE irq_isr
    BY <1>6 DEF irq_isr, InOrder, DInv, Documented, NoSpuriousFailure
  <1>7. CASE RBoot \/ RWipe \/ RTtc \/ ROsInit
    BY <1>7 DEF RBoot, RWipe, RTtc, ROsInit, InOrder, DInv, Documented,
       NoSpuriousFailure
  <1>8. CASE \/ RSuspendGeneric \/ RWfi \/ WfiEnds \/ RSuspendFreertos \/ RReadAvail
             \/ RReceive \/ RReceiveBad
    BY <1>8 DEF RSuspendGeneric, RWfi, WfiEnds, RSuspendFreertos, RReadAvail, RReceive,
       RReceiveBad, InOrder, DInv, Documented, NoSpuriousFailure
  <1>9. CASE RCaughtUp \/ REchoPayload \/ REchoAddr \/ REchoAvail \/ REchoKick \/ RCleanup
    BY <1>9 DEF RCaughtUp, REchoPayload, REchoAddr, REchoAvail, REchoKick, RCleanup,
       InOrder, DInv, Documented, NoSpuriousFailure
  <1>10. CASE RIsrAck
    BY <1>10 DEF RIsrAck, InOrder, DInv, Documented, NoSpuriousFailure
  <1>11. CASE RIsrResume
    BY <1>11 DEF RIsrResume, InOrder, DInv, Documented, NoSpuriousFailure
  <1>12. CASE Ended \/ UNCHANGED vars
    BY <1>12 DEF Ended, InOrder, DInv, Documented, NoSpuriousFailure
  <1> QED BY <1>1, <1>2, <1>3, <1>4, <1>5, <1>6, <1>7, <1>8, <1>9, <1>10, <1>11, <1>12
      DEF Next, HostMain, HostIrq, RemoteTask, RemoteIrq

(* What the host has published is complete, the shutdown message too.      *)
LEMMA Covered ==
  ASSUME IInv, Filled, NoSpuriousFailure, NEW k \in Cell, k < h2r.avail
  PROVE  h2r.addr[k] = k /\ payH[k] = Sent(k)
  <1>1. /\ h2r.avail \in 0 .. PKGS_TOTAL + 1 /\ hI \in Cell /\ hpc \in HostPc
        /\ hpc \notin {"cleanup_fail", "failed"}
    BY DEF IInv, TypeOK, WindowTypeOK, HostTypeOK, Desc, NoSpuriousFailure
  <1>2. hpc \notin HostStart
    BY <1>1 DEF IInv, Published
  <1>3. CASE k = PKGS_TOTAL
    <2>1. h2r.avail = PKGS_TOTAL + 1
      BY <1>1, <1>3
    <2> QED BY <1>3, <2>1 DEF IInv, Messages, Sent
  <1>4. CASE k # PKGS_TOTAL
    <2>1. k < PKGS_TOTAL
      BY <1>4
    <2>2. CASE hpc \in HostVerify \cup HostSd
      BY <2>1, <2>2 DEF Filled, Sent
    <2>3. CASE hpc \in {"write", "addr", "avail", "kick"}
      <3>1. k < hI \/ (k = hI /\ hpc = "kick")
        BY <1>1, <2>3 DEF Filled
      <3> QED BY <2>1, <2>3, <3>1 DEF Filled, Sent
    <2> QED BY <1>1, <1>2, <2>2, <2>3
  <1> QED BY <1>3, <1>4

(* A remote that has taken nothing has echoed nothing.                     *)
LEMMA InOrderIdle ==
  ASSUME IInv, rCount = 0
  PROVE  r2h.avail = 0
  <1>1. rpc \in RemotePc /\ r2h.avail \in 0 .. PKGS_TOTAL + 1
    BY DEF IInv, TypeOK, RemoteTypeOK, WindowTypeOK, Desc
  <1> QED BY <1>1 DEF IInv, RemotePhase, Published

(* The used counter is stored, and kept by the other stores.               *)
LEMMA UsedStored ==
  ASSUME NEW d \in Desc, NEW n \in 0 .. PKGS_TOTAL + 1
  PROVE  [d EXCEPT !.used = n].used = n
  BY DEF Desc

LEMMA UsedKept ==
  ASSUME NEW d \in Desc, NEW n, NEW s
  PROVE  [d EXCEPT !.avail = n].used = d.used /\ [d EXCEPT !.addr[s] = n].used = d.used
  BY DEF Desc

(* Every check succeeds: what a counter covers is there.                   *)
LEMMA FailureStep ==
  ASSUME Documented, IInv, DInv, [Next]_vars
  PROVE  NoSpuriousFailure'
  <1>1. CASE \/ HInit \/ HClear \/ HWritePayload \/ HWriteAddr \/ HWriteAvail \/ HKick
             \/ HWaitNotified \/ HReadAvail \/ HCaughtUp \/ HSdPayload \/ HSdAddr
             \/ HSdAvail \/ HSdKick \/ HCleanup \/ irq_isr
    BY <1>1 DEF HInit, HClear, HWritePayload, HWriteAddr, HWriteAvail, HKick,
       HWaitNotified, HReadAvail, HCaughtUp, HSdPayload, HSdAddr, HSdAvail, HSdKick,
       HCleanup, irq_isr, DInv, NoSpuriousFailure
  <1>2. CASE HReceive
    BY <1>2 DEF HReceive, DInv, NoSpuriousFailure
  <1>3. CASE HInitFails \/ RBootFails
    BY <1>3 DEF HInitFails, RBootFails, Documented
  <1>4. CASE \/ RBoot \/ RWipe \/ RTtc \/ ROsInit \/ RSuspendGeneric \/ RWfi \/ WfiEnds
             \/ RSuspendFreertos \/ RReadAvail \/ RReceive \/ RCaughtUp \/ REchoPayload
             \/ REchoAddr \/ REchoAvail \/ REchoKick \/ RCleanup \/ RIsrAck
    BY <1>4 DEF RBoot, RWipe, RTtc, ROsInit, RSuspendGeneric, RWfi, WfiEnds,
       RSuspendFreertos, RReadAvail, RReceive, RCaughtUp, REchoPayload, REchoAddr, REchoAvail, REchoKick,
       RCleanup, RIsrAck, DInv, NoSpuriousFailure
  <1>5. CASE RIsrResume
    BY <1>5 DEF RIsrResume, InOrder, DInv, Documented, NoSpuriousFailure
  <1>6. CASE Ended \/ UNCHANGED vars
    BY <1>6 DEF Ended, DInv, NoSpuriousFailure
  <1>7. CASE HReceiveBad
    <2>0. hpc = "receive" /\ hI # hRxAvail
      BY <1>7 DEF HReceiveBad
    <2>1. hI \in Cell /\ hI < r2h.avail /\ hI < PKGS_TOTAL
      BY <2>0 DEF IInv, TypeOK, HostTypeOK, WindowTypeOK, Desc, Echoed
    <2>2. hRxAddr = hI /\ hTxData = hI
      BY <2>0, <2>1 DEF IInv, HostPhase
    <2>3. r2h.addr[hI] = hI /\ payR[hI] = Ping(hI) /\ payH[hI] = Ping(hI)
      BY <2>0, <2>1 DEF IInv, Echoed, DInv, Answered, Filled
    <2> QED BY <1>7, <2>1, <2>2, <2>3 DEF HReceiveBad, EchoGood, Ping
  <1>8. CASE RReceiveBad
    <2>1. /\ rRxAddr = rCount /\ rCount \in Cell /\ rCount < h2r.avail
          /\ h2r.avail \in 0 .. PKGS_TOTAL + 1
      BY <1>8 DEF RReceiveBad, IInv, TypeOK, RemoteTypeOK, WindowTypeOK, Desc,
         RemotePhase, Published
    <2>2. h2r.addr[rCount] = rCount
      BY <2>1, Covered DEF DInv
    <2> QED BY <1>8, <2>1, <2>2 DEF RReceiveBad
  <1> QED BY <1>1, <1>2, <1>3, <1>4, <1>5, <1>6, <1>7, <1>8 DEF Next, HostMain, HostIrq,
      RemoteTask, RemoteIrq

(* The host writes a message, its address and then the counter; nobody     *)
(* else writes there once the host has begun.                              *)
LEMMA FilledStep ==
  ASSUME Documented, IInv, DInv, [Next]_vars
  PROVE  Filled'
  <1>1. CASE HInit \/ HInitFails \/ HWaitNotified \/ HReadAvail \/ HSdKick \/ HCleanup
    BY <1>1 DEF HInit, HInitFails, HWaitNotified, HReadAvail, HSdKick, HCleanup, DInv,
       Filled, Documented
  <1>2. CASE HReceive
    BY <1>2 DEF HReceive, DInv, Filled
  <1>3. CASE HCaughtUp
    BY <1>3 DEF HCaughtUp, DInv, Filled
  <1>4. CASE irq_isr
    BY <1>4 DEF irq_isr, DInv, Filled
  <1>5. CASE \/ RBoot \/ RTtc \/ ROsInit \/ RBootFails \/ RSuspendGeneric \/ RWfi \/ WfiEnds
             \/ RSuspendFreertos \/ RReadAvail \/ RReceiveBad \/ RCaughtUp
             \/ REchoPayload \/ REchoAddr \/ REchoAvail \/ REchoKick \/ RCleanup
             \/ RIsrAck \/ RIsrResume
    BY <1>5 DEF RBoot, RTtc, ROsInit, RBootFails, RSuspendGeneric, RWfi, WfiEnds,
       RSuspendFreertos, RReadAvail, RReceiveBad, RCaughtUp, REchoPayload, REchoAddr,
       REchoAvail, REchoKick, RCleanup, RIsrAck, RIsrResume, DInv, Filled
  <1>6. CASE RWipe
    BY <1>6 DEF RWipe, DInv, Filled, InOrder
  <1>7. CASE Ended \/ UNCHANGED vars
    BY <1>7 DEF Ended, DInv, Filled
  <1>8. CASE HClear
    <2>1. hpc' # "write" => hpc' \in HostStart
      BY <1>8 DEF HClear
    <2>2. hpc' = "write" => h2r' = h2r /\ hI' = hI /\ hpc = "clearR2H"
      BY <1>8 DEF HClear
    <2> QED BY <2>1, <2>2 DEF Filled, IInv, HostPhase, Published
  <1>9. CASE HWritePayload
    BY <1>9 DEF HWritePayload, DInv, Filled, IInv, TypeOK, WindowTypeOK, HostTypeOK,
       HostPhase
  <1>10. CASE HWriteAddr
    <2>1. hTxAddr = hI /\ hTxData = hI /\ hI \in Cell /\ hI \in SlotIdx /\ hpc = "addr"
      BY <1>10 DEF HWriteAddr, IInv, TypeOK, HostTypeOK, HostPhase
    <2>2. /\ h2r'.avail = h2r.avail /\ h2r'.addr[hI] = hI
          /\ \A k \in SlotIdx : k # hI => h2r'.addr[k] = h2r.addr[k]
      BY <1>10, <2>1, DescAddr DEF HWriteAddr, IInv, TypeOK, WindowTypeOK
    <2>3. UNCHANGED <<payH, hI>> /\ hpc' = "avail"
      BY <1>10 DEF HWriteAddr
    <2> QED BY <2>1, <2>2, <2>3 DEF DInv, Filled
  <1>11. CASE HWriteAvail
    <2>1. /\ hI \in Cell
          /\ hI < PKGS_TOTAL /\ hpc = "avail" /\ hpc' = "kick" /\ UNCHANGED <<payH, hI>>
      BY <1>11 DEF HWriteAvail, IInv, TypeOK, HostTypeOK, HostPhase
    <2>2. h2r'.avail = hI + 1 /\ h2r'.addr = h2r.addr
      BY <1>11, <2>1, DescAvail DEF HWriteAvail, IInv, TypeOK, WindowTypeOK
    <2> QED BY <2>1, <2>2 DEF DInv, Filled
  <1>12. CASE HKick
    <2>1. hI \in Cell /\ hI < PKGS_TOTAL
      BY <1>12 DEF HKick, IInv, TypeOK, HostTypeOK, HostPhase
    <2>2. CASE hI + 1 < PKGS_TOTAL
      BY <1>12, <2>1, <2>2 DEF HKick, DInv, Filled
    <2>3. CASE hI + 1 = PKGS_TOTAL
      BY <1>12, <2>1, <2>3 DEF HKick, DInv, Filled
    <2> QED BY <2>1, <2>2, <2>3
  <1>13. CASE HReceiveBad
    BY <1>13, FailureStep DEF HReceiveBad, NoSpuriousFailure
  <1>14. CASE HSdPayload
    <2>1. hTxData = PKGS_TOTAL /\ payH \in [Cell -> Msg]
      BY <1>14 DEF HSdPayload, IInv, TypeOK, WindowTypeOK, HostPhase
    <2> QED BY <1>14, <2>1 DEF HSdPayload, DInv, Filled
  <1>15. CASE HSdAddr
    <2>1. hTxAddr = PKGS_TOTAL /\ hTxData = PKGS_TOTAL
      BY <1>15 DEF HSdAddr, IInv, HostPhase
    <2>2. /\ h2r'.avail = h2r.avail
          /\ \A k \in SlotIdx : k # PKGS_TOTAL => h2r'.addr[k] = h2r.addr[k]
      BY <1>15, <2>1, DescAddr DEF HSdAddr, IInv, TypeOK, WindowTypeOK
    <2> QED BY <1>15, <2>2 DEF HSdAddr, DInv, Filled
  <1>16. CASE HSdAvail
    <2>1. h2r'.addr = h2r.addr
      BY <1>16, DescAvail DEF HSdAvail, IInv, TypeOK, WindowTypeOK
    <2> QED BY <1>16, <2>1 DEF HSdAvail, DInv, Filled
  <1>17. CASE RReceive
    <2>0. rpc = "receive" /\ rCount # rRxAvail
      BY <1>17 DEF RReceive
    <2>1. rCount + 1 \in 0 .. PKGS_TOTAL + 1
      BY <2>0 DEF IInv, TypeOK, RemoteTypeOK, WindowTypeOK, Desc, Published
    <2>2. h2r'.avail = h2r.avail /\ h2r'.addr = h2r.addr
      BY <1>17, <2>1, DescUsed DEF RReceive, IInv, TypeOK, WindowTypeOK
    <2> QED BY <1>17, <2>2 DEF RReceive, DInv, Filled
  <1> QED BY <1>1, <1>2, <1>3, <1>4, <1>5, <1>6, <1>7, <1>8, <1>9, <1>10, <1>11, <1>12,
      <1>13, <1>14, <1>15, <1>16, <1>17 DEF Next, HostMain, HostIrq, RemoteTask,
      RemoteIrq

(* The remote echoes message k into cell k, and only then counts it.       *)
LEMMA AnsweredStep ==
  ASSUME Documented, IInv, DInv, [Next]_vars
  PROVE  Answered'
  <1>1. CASE \/ HInit \/ HInitFails \/ HWritePayload \/ HWriteAddr \/ HWriteAvail
             \/ HKick \/ HWaitNotified \/ HReadAvail \/ HCaughtUp \/ HSdPayload
             \/ HSdAddr \/ HSdAvail \/ HSdKick \/ HCleanup \/ irq_isr
    BY <1>1 DEF HInit, HInitFails, HWritePayload, HWriteAddr, HWriteAvail, HKick,
       HWaitNotified, HReadAvail, HCaughtUp, HSdPayload, HSdAddr, HSdAvail, HSdKick,
       HCleanup, irq_isr, DInv, Answered
  <1>2. CASE \/ RBoot \/ RTtc \/ ROsInit \/ RBootFails \/ RSuspendGeneric \/ RWfi \/ WfiEnds
             \/ RSuspendFreertos \/ RReadAvail \/ RReceiveBad \/ RCaughtUp \/ REchoKick
             \/ RCleanup \/ RIsrAck \/ RIsrResume
    BY <1>2 DEF RBoot, RTtc, ROsInit, RBootFails, RSuspendGeneric, RWfi, WfiEnds,
       RSuspendFreertos, RReadAvail, RReceiveBad, RCaughtUp, REchoKick, RCleanup,
       RIsrAck, RIsrResume, DInv, Answered
  <1>3. CASE Ended \/ UNCHANGED vars
    BY <1>3 DEF Ended, DInv, Answered
  <1>4. CASE HClear
    <2>1. h2r.avail = 0 /\ hpc \in HostStart /\ UNCHANGED <<rpc, rCount, lbuf>>
      BY <1>4 DEF HClear, IInv, Published
    <2>2. rCount = 0 /\ rpc \notin {"echo", "echoAddr", "echoAvail"}
      BY <2>1 DEF IInv, TypeOK, RemoteTypeOK, Published
    <2>3. r2h.avail = 0
      BY <2>1, <2>2, InOrderIdle DEF IInv
    <2>4. r2h'.avail = 0
      BY <1>4, <2>3, DescCleared DEF HClear
    <2> QED BY <2>1, <2>2, <2>4 DEF Answered
  <1>5. CASE HReceive
    <2>1. hI + 1 \in 0 .. PKGS_TOTAL + 1
      BY DEF IInv, TypeOK, HostTypeOK
    <2>2. r2h'.avail = r2h.avail
      BY <1>5, <2>1, DescUsed DEF HReceive, IInv, TypeOK, WindowTypeOK
    <2> QED BY <1>5, <2>2 DEF HReceive, DInv, Answered
  <1>6. CASE HReceiveBad
    BY <1>6, FailureStep DEF HReceiveBad, NoSpuriousFailure
  <1>7. CASE RWipe
    <2>1. r2h.avail = 0 /\ rpc' \in RemoteStart
      BY <1>7 DEF RWipe, IInv, RemotePhase
    <2>2. r2h'.avail = 0
      BY <1>7, <2>1, DescCleared DEF RWipe
    <2> QED BY <2>1, <2>2 DEF Answered
  <1>8. CASE RReceive
    <2>1. rpc = "receive" /\ rCount # rRxAvail
      BY <1>8 DEF RReceive
    <2>2. /\ rRxAddr = rCount /\ rCount \in Cell /\ rCount < h2r.avail
          /\ rCount + 1 \in Nat /\ (rCount + 1) - 1 = rCount
      BY <2>1 DEF IInv, TypeOK, RemoteTypeOK, WindowTypeOK, Desc, RemotePhase, Published
    <2>3. lbuf' = Sent(rCount)
      BY <1>8, <2>2, Covered DEF DInv, RReceive
    <2>4. rCount = PKGS_TOTAL => rpc' = "cleanup_ok"
      BY <1>8, <2>3 DEF RReceive, Sent, Shutdown
    <2>5. rpc' \in {"cleanup_ok", "echo"} /\ rCount' = rCount + 1 /\ UNCHANGED <<r2h, payR>>
      BY <1>8 DEF RReceive
    <2> QED BY <2>2, <2>3, <2>4, <2>5 DEF DInv, Answered, Sent
  <1>9. CASE REchoPayload
    <2>1. /\ rTxData = rCount - 1 /\ rTxData \in Cell /\ r2h.avail = rCount - 1
          /\ lbuf = Ping(rCount - 1)
      BY <1>9 DEF REchoPayload, IInv, TypeOK, RemoteTypeOK, RemotePhase, DInv, Answered
    <2> QED BY <1>9, <2>1 DEF REchoPayload, DInv, Answered, IInv, TypeOK, WindowTypeOK
  <1>10. CASE REchoAddr
    <2>1. r2h'.avail = r2h.avail
      BY <1>10, DescAddr DEF REchoAddr, IInv, TypeOK, WindowTypeOK, RemoteTypeOK
    <2> QED BY <1>10, <2>1 DEF REchoAddr, DInv, Answered
  <1>11. CASE REchoAvail
    <2>1. r2h'.avail = rCount /\ rCount \in 0 .. PKGS_TOTAL + 1 /\ r2h.avail = rCount - 1
      BY <1>11, DescAvail DEF REchoAvail, IInv, TypeOK, WindowTypeOK, RemoteTypeOK,
         RemotePhase
    <2> QED BY <1>11, <2>1 DEF REchoAvail, DInv, Answered
  <1> QED BY <1>1, <1>2, <1>3, <1>4, <1>5, <1>6, <1>7, <1>8, <1>9, <1>10, <1>11 DEF
      Next, HostMain, HostIrq, RemoteTask, RemoteIrq

(* The host counts what it has checked, and the remote ends only with the  *)
(* shutdown message, the last one.                                         *)
LEMMA CountedStep ==
  ASSUME Documented, IInv, DInv, [Next]_vars
  PROVE  Counted'
  <1>1. CASE \/ HInit \/ HInitFails \/ HWritePayload \/ HWriteAddr \/ HWriteAvail
             \/ HWaitNotified \/ HReadAvail
    BY <1>1 DEF HInit, HInitFails, HWritePayload, HWriteAddr, HWriteAvail,
       HWaitNotified, HReadAvail, DInv, Counted, Documented
  <1>2. CASE HSdPayload \/ HSdAddr \/ HSdAvail \/ HSdKick \/ HCleanup
    BY <1>2 DEF HSdPayload, HSdAddr, HSdAvail, HSdKick, HCleanup, DInv, Counted
  <1>3. CASE HCaughtUp
    BY <1>3 DEF HCaughtUp, DInv, Counted
  <1>4. CASE irq_isr
    BY <1>4 DEF irq_isr, DInv, Counted
  <1>5. CASE \/ RBoot \/ RTtc \/ ROsInit \/ RBootFails \/ RSuspendGeneric \/ RWfi \/ WfiEnds
             \/ RSuspendFreertos \/ RReadAvail \/ RReceiveBad \/ RCaughtUp
             \/ REchoPayload \/ REchoKick \/ RCleanup \/ RIsrAck \/ RIsrResume
    BY <1>5 DEF RBoot, RTtc, ROsInit, RBootFails, RSuspendGeneric, RWfi, WfiEnds,
       RSuspendFreertos, RReadAvail, RReceiveBad, RCaughtUp, REchoPayload, REchoKick,
       RCleanup, RIsrAck, RIsrResume, DInv, Counted
  <1>6. CASE Ended \/ UNCHANGED vars
    BY <1>6 DEF Ended, DInv, Counted
  <1>7. CASE HClear
    BY <1>7 DEF HClear, DInv, Counted, ClearedDesc
  <1>8. CASE HKick
    BY <1>8 DEF HKick, DInv, Counted
  <1>9. CASE HReceive
    <2>1. hI + 1 \in 0 .. PKGS_TOTAL + 1
      BY DEF IInv, TypeOK, HostTypeOK
    <2>2. r2h'.used = hI + 1
      BY <1>9, <2>1, UsedStored DEF HReceive, IInv, TypeOK, WindowTypeOK
    <2> QED BY <1>9, <2>2 DEF HReceive, DInv, Counted
  <1>10. CASE HReceiveBad
    BY <1>10, FailureStep DEF HReceiveBad, NoSpuriousFailure
  <1>11. CASE RWipe
    BY <1>11 DEF RWipe, DInv, Counted, InOrder
  <1>12. CASE RReceive
    <2>1. rpc = "receive" /\ rCount # rRxAvail
      BY <1>12 DEF RReceive
    <2>2. rRxAddr = rCount /\ rCount \in Cell /\ rCount < h2r.avail
      BY <2>1 DEF IInv, TypeOK, RemoteTypeOK, WindowTypeOK, Desc, RemotePhase, Published
    <2>3. lbuf' = Sent(rCount)
      BY <1>12, <2>2, Covered DEF DInv, RReceive
    <2>4. rpc' = "cleanup_ok" => rCount = PKGS_TOTAL
      BY <1>12, <2>3 DEF RReceive, Sent, Ping
    <2>5. rpc' # "done" /\ rCount' = rCount + 1 /\ UNCHANGED <<r2h, hpc, hI>>
      BY <1>12 DEF RReceive
    <2> QED BY <2>4, <2>5 DEF DInv, Counted
  <1>13. CASE REchoAddr
    <2>1. r2h'.used = r2h.used
      BY <1>13, UsedKept DEF REchoAddr, IInv, TypeOK, WindowTypeOK, RemoteTypeOK
    <2> QED BY <1>13, <2>1 DEF REchoAddr, DInv, Counted
  <1>14. CASE REchoAvail
    <2>1. r2h'.used = r2h.used
      BY <1>14, UsedKept DEF REchoAvail, IInv, TypeOK, WindowTypeOK, RemoteTypeOK
    <2> QED BY <1>14, <2>1 DEF REchoAvail, DInv, Counted
  <1> QED BY <1>1, <1>2, <1>3, <1>4, <1>5, <1>6, <1>7, <1>8, <1>9, <1>10, <1>11, <1>12,
      <1>13, <1>14 DEF Next, HostMain, HostIrq, RemoteTask, RemoteIrq

(* A counter the remote has not seen is followed by a kick that reaches it *)
(* or the flag it tests.                                                   *)
LEMMA RemoteNotified ==
  ASSUME Documented, IInv, DInv, [Next]_vars
  PROVE  (RemoteBehind => RemoteTold)'
  <1>1. CASE \/ HInit \/ HInitFails \/ HWritePayload \/ HWaitNotified \/ HReadAvail
             \/ HReceive \/ HReceiveBad \/ HCaughtUp \/ HSdPayload \/ HCleanup
    BY <1>1 DEF HInit, HInitFails, HWritePayload, HWaitNotified, HReadAvail, HReceive,
       HReceiveBad, HCaughtUp, HSdPayload, HCleanup, DInv, Notified, RemoteBehind,
       RemoteTold
  <1>2. CASE HKick \/ HSdKick
    BY <1>2 DEF HKick, HSdKick, DInv, Notified, RemoteBehind, RemoteTold
  <1>3. CASE HWriteAvail \/ HSdAvail
    BY <1>3 DEF HWriteAvail, HSdAvail, DInv, Notified, RemoteBehind, RemoteTold
  <1>4. CASE irq_isr
    BY <1>4 DEF irq_isr, DInv, Notified, RemoteBehind, RemoteTold
  <1>5. CASE RBoot \/ RTtc \/ RBootFails
    BY <1>5 DEF RBoot, RTtc, RBootFails, DInv, Notified, RemoteBehind, RemoteTold,
       Documented
  <1>6. CASE RSuspendGeneric
    BY <1>6 DEF RSuspendGeneric, DInv, Notified, RemoteBehind, RemoteTold
  <1>7. CASE RWfi \/ WfiEnds \/ RSuspendFreertos
    BY <1>7 DEF RWfi, WfiEnds, RSuspendFreertos, DInv, Notified, RemoteBehind, RemoteTold
  <1>8. CASE RReadAvail
    BY <1>8 DEF RReadAvail, DInv, Notified, RemoteBehind, RemoteTold
  <1>9. CASE RCaughtUp \/ RReceiveBad \/ RCleanup
    BY <1>9 DEF RCaughtUp, RReceiveBad, RCleanup, DInv, Notified, RemoteBehind,
       RemoteTold
  <1>10. CASE REchoPayload \/ REchoAddr \/ REchoAvail \/ REchoKick
    BY <1>10 DEF REchoPayload, REchoAddr, REchoAvail, REchoKick, DInv, Notified,
       RemoteBehind, RemoteTold
  <1>11. CASE RIsrAck
    BY <1>11 DEF RIsrAck, DInv, Notified, RemoteBehind, RemoteTold
  <1>12. CASE RIsrResume
    BY <1>12 DEF RIsrResume, DInv, Notified, RemoteBehind, RemoteTold
  <1>13. CASE Ended \/ UNCHANGED vars
    BY <1>13 DEF Ended, DInv, Notified, RemoteBehind, RemoteTold
  <1>14. CASE HClear
    <2>1. h2r'.avail = h2r.avail
      BY <1>14, DescCleared DEF HClear, IInv, Published
    <2> QED BY <1>14, <2>1 DEF HClear, DInv, Notified, RemoteBehind, RemoteTold
  <1>15. CASE HWriteAddr
    <2>1. h2r'.avail = h2r.avail
      BY <1>15, DescAddr DEF HWriteAddr, IInv, TypeOK, WindowTypeOK, HostTypeOK
    <2> QED BY <1>15, <2>1 DEF HWriteAddr, DInv, Notified, RemoteBehind, RemoteTold
  <1>16. CASE HSdAddr
    <2>1. h2r'.avail = h2r.avail
      BY <1>16, DescAddr DEF HSdAddr, IInv, TypeOK, WindowTypeOK, HostTypeOK
    <2> QED BY <1>16, <2>1 DEF HSdAddr, DInv, Notified, RemoteBehind, RemoteTold
  <1>17. CASE RWipe
    BY <1>17 DEF RWipe, RemoteBehind
  <1>18. CASE ROsInit
    <2>1. hpc = "init" /\ rCount = 0
      BY <1>18 DEF ROsInit, DInv, InOrder, IInv, RemotePhase
    <2>2. h2r.avail = 0
      BY <2>1 DEF IInv, Published
    <2> QED BY <1>18, <2>1, <2>2 DEF ROsInit, RemoteBehind
  <1>19. CASE RReceive
    <2>1. rCount + 1 \in 0 .. PKGS_TOTAL + 1
      <3>1. rpc = "receive" /\ rCount # rRxAvail
        BY <1>19 DEF RReceive
      <3> QED BY <3>1 DEF IInv, TypeOK, RemoteTypeOK, WindowTypeOK, Desc, Published
    <2>2. h2r'.avail = h2r.avail
      BY <1>19, <2>1, DescUsed DEF RReceive, IInv, TypeOK, WindowTypeOK
    <2> QED BY <1>19, <2>2 DEF RReceive, DInv, Notified, RemoteBehind, RemoteTold
  <1> QED BY <1>1, <1>2, <1>3, <1>4, <1>5, <1>6, <1>7, <1>8, <1>9, <1>10, <1>11, <1>12,
      <1>13, <1>14, <1>15, <1>16, <1>17, <1>18, <1>19 DEF Next, HostMain, HostIrq,
      RemoteTask, RemoteIrq

(* The same for the host and the counter of the echoes.                    *)
LEMMA HostNotified ==
  ASSUME Documented, IInv, DInv, [Next]_vars
  PROVE  (HostBehind => HostTold)'
  <1>1. CASE HInit \/ HInitFails
    BY <1>1 DEF HInit, HInitFails, DInv, Notified, HostBehind, HostTold
  <1>2. CASE HWritePayload \/ HWriteAddr \/ HWriteAvail
    BY <1>2 DEF HWritePayload, HWriteAddr, HWriteAvail, DInv, Notified, HostBehind,
       HostTold
  <1>3. CASE HWaitNotified \/ HReadAvail
    BY <1>3 DEF HWaitNotified, HReadAvail, DInv, Notified, HostBehind, HostTold
  <1>4. CASE HCaughtUp
    BY <1>4 DEF HCaughtUp, DInv, Notified, HostBehind, HostTold
  <1>5. CASE HSdPayload \/ HSdAddr \/ HSdAvail \/ HSdKick \/ HCleanup
    BY <1>5 DEF HSdPayload, HSdAddr, HSdAvail, HSdKick, HCleanup, DInv, Notified,
       HostBehind, HostTold
  <1>6. CASE HKick
    BY <1>6 DEF HKick, DInv, Notified, HostBehind, HostTold
  <1>7. CASE irq_isr
    BY <1>7 DEF irq_isr, DInv, Notified, HostBehind, HostTold
  <1>8. CASE RBoot \/ RTtc \/ ROsInit \/ RBootFails
    BY <1>8 DEF RBoot, RTtc, ROsInit, RBootFails, DInv, Notified, HostBehind, HostTold
  <1>9. CASE RSuspendGeneric \/ RWfi \/ WfiEnds \/ RSuspendFreertos
    BY <1>9 DEF RSuspendGeneric, RWfi, WfiEnds, RSuspendFreertos, DInv, Notified,
       HostBehind, HostTold
  <1>10. CASE \/ RReadAvail \/ RReceive \/ RReceiveBad \/ RCaughtUp \/ REchoPayload
              \/ RCleanup
    BY <1>10 DEF RReadAvail, RReceive, RReceiveBad, RCaughtUp, REchoPayload, RCleanup,
       DInv, Notified, HostBehind, HostTold
  <1>11. CASE REchoAvail
    BY <1>11 DEF REchoAvail, DInv, Notified, HostBehind, HostTold
  <1>12. CASE REchoKick
    BY <1>12 DEF REchoKick, DInv, Notified, HostBehind, HostTold
  <1>13. CASE RIsrAck
    BY <1>13 DEF RIsrAck, DInv, Notified, HostBehind, HostTold
  <1>14. CASE RIsrResume
    BY <1>14, PortAssumption DEF RIsrResume, DInv, Notified, HostBehind, HostTold,
       InOrder
  <1>15. CASE Ended \/ UNCHANGED vars
    BY <1>15 DEF Ended, DInv, Notified, HostBehind, HostTold
  <1>16. CASE HClear
    <2>1. h2r.avail = 0
      BY <1>16 DEF HClear, IInv, Published
    <2>2. rCount = 0
      BY <2>1 DEF IInv, TypeOK, RemoteTypeOK, Published
    <2>3. r2h'.avail = 0
      BY <1>16, <2>2, InOrderIdle, DescCleared DEF HClear
    <2> QED BY <1>16, <2>3 DEF HClear, HostBehind
  <1>17. CASE HReceive
    <2>1. hI + 1 \in 0 .. PKGS_TOTAL + 1
      BY DEF IInv, TypeOK, HostTypeOK
    <2>2. r2h'.avail = r2h.avail
      BY <1>17, <2>1, DescUsed DEF HReceive, IInv, TypeOK, WindowTypeOK
    <2> QED BY <1>17, <2>2 DEF HReceive, DInv, Notified, HostBehind, HostTold
  <1>18. CASE HReceiveBad
    BY <1>18, FailureStep DEF HReceiveBad, NoSpuriousFailure
  <1>19. CASE RWipe
    BY <1>19 DEF RWipe, DInv, InOrder, HostBehind
  <1>20. CASE REchoAddr
    <2>1. r2h'.avail = r2h.avail
      BY <1>20, DescAddr DEF REchoAddr, IInv, TypeOK, WindowTypeOK, RemoteTypeOK
    <2> QED BY <1>20, <2>1 DEF REchoAddr, DInv, Notified, HostBehind, HostTold
  <1> QED BY <1>1, <1>2, <1>3, <1>4, <1>5, <1>6, <1>7, <1>8, <1>9, <1>10, <1>11, <1>12,
      <1>13, <1>14, <1>15, <1>16, <1>17, <1>18, <1>19, <1>20 DEF Next, HostMain,
      HostIrq, RemoteTask, RemoteIrq

(* The initial state.                                                      *)
LEMMA InitDInv == Init => DInv
  BY DEF Init, DInv, InOrder, Filled, Answered, Counted, NoSpuriousFailure, Notified,
         RemoteBehind, HostBehind, ClearedDesc

(* The second invariant is kept by every step.                             *)
LEMMA NextDInv ==
  ASSUME Documented, IInv, DInv, [Next]_vars
  PROVE  DInv'
  BY OrderStep, FailureStep, FilledStep, AnsweredStep, CountedStep, RemoteNotified,
     HostNotified
     DEF DInv, Notified

(* Started in the documented order, the demo keeps both invariants.        *)
THEOREM InductiveInOrder ==
  ASSUME Documented
  PROVE  Safety => [](IInv /\ DInv)
  <1>1. Init => IInv /\ DInv
    BY InitIInv, InitDInv
  <1>2. (IInv /\ DInv) /\ [Next]_vars => (IInv /\ DInv)'
    BY NextIInv, NextDInv
  <1> QED BY <1>1, <1>2, PTL DEF Safety

(* In the documented order every entry that a counter covers names a       *)
(* complete message, and the echo of message k is message k.               *)
THEOREM OnlyCompletePublished ==
  ASSUME Documented
  PROVE  Safety => []PublishedComplete
  <1>1. ASSUME IInv, DInv PROVE PublishedComplete
    <2>1. ASSUME NEW k \in Cell, k < h2r.avail PROVE h2r.addr[k] = k /\ payH[k] = Sent(k)
      BY <1>1, <2>1, Covered DEF DInv
    <2>2. ASSUME NEW k \in Cell, k < r2h.avail PROVE r2h.addr[k] = k /\ payR[k] = Ping(k)
      BY <1>1, <2>2 DEF IInv, Echoed, DInv, Answered
    <2> QED BY <2>1, <2>2 DEF PublishedComplete
  <1>2. Safety => [](IInv /\ DInv)
    BY InductiveInOrder
  <1> QED BY <1>1, <1>2, PTL

(* In the documented order no check of either program fails and the        *)
(* handler never finds the task unknown, on both OS ports.                 *)
THEOREM ChecksSucceed ==
  ASSUME Documented
  PROVE  Safety => []NoSpuriousFailure
  <1>1. DInv => NoSpuriousFailure
    BY DEF DInv
  <1>2. Safety => [](IInv /\ DInv)
    BY InductiveInOrder
  <1> QED BY <1>1, <1>2, PTL

(* In the documented order the remote leaves its loop only after the host  *)
(* has verified every package.                                             *)
THEOREM ShutdownLast ==
  ASSUME Documented
  PROVE  Safety => []ShutdownAfterEchoes
  <1>1. ASSUME IInv, DInv PROVE ShutdownAfterEchoes
    <2> SUFFICES ASSUME rpc \in {"cleanup_ok", "done"}
                 PROVE  hI = PKGS_TOTAL /\ r2h.used = PKGS_TOTAL /\ rCount = PKGS_TOTAL + 1
      BY DEF ShutdownAfterEchoes
    <2>1. rCount = PKGS_TOTAL + 1 /\ h2r.avail \in 0 .. PKGS_TOTAL + 1
      BY <1>1 DEF DInv, Counted, IInv, TypeOK, WindowTypeOK, Desc
    <2>2. hpc \in {"sdKick", "cleanup_ok", "done"}
      BY <1>1, <2>1 DEF IInv, Published
    <2> QED BY <1>1, <2>1, <2>2 DEF IInv, HostPhase, DInv, Counted
  <1>2. Safety => [](IInv /\ DInv)
    BY InductiveInOrder
  <1> QED BY <1>1, <1>2, PTL

(* In the documented order a side that is about to wait, or works from a   *)
(* stale counter, while there is more for it, has a notification ahead.    *)
THEOREM KicksArrive ==
  ASSUME Documented
  PROVE  Safety => []NoKickLost
  <1>1. DInv => NoKickLost
    BY DEF DInv, Notified, RemoteBehind, RemoteTold, HostBehind, HostTold, NoKickLost
  <1>2. Safety => [](IInv /\ DInv)
    BY InductiveInOrder
  <1> QED BY <1>1, <1>2, PTL
=============================================================================
