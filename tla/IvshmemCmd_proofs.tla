------------------------- MODULE IvshmemCmd_proofs -------------------------
(***************************************************************************)
(* Proofs about zephyr/dual_qemu_ivshmem: no doorbell is lost, the start   *)
(* is sound whatever status byte it finds and whatever fails, and a        *)
(* command that succeeds has had its answers; for every size of the rings  *)
(* and every number of messages.                                           *)
(*                                                                         *)
(* The inductive invariant adds what the three rest on: how far each side  *)
(* has come (Started), that nothing rings before the remote is up (Met,    *)
(* Rung), and that before the first timeout at most one message is under   *)
(* way, the one the command waits for (Lockstep).                          *)
(***************************************************************************)
EXTENDS IvshmemCmd, TLAPS

(* How far each side has come, and what its virtqueue and event loop are   *)
(* then.                                                                   *)
Started ==
    /\ hpc = "boot" <=> loop["host"] = "off"
    /\ rpc = "boot" <=> loop["remote"] = "off"
    /\ rpc # "boot" => hpc # "boot"
    /\ hpc \in {"boot", "alloc"} => vq["host"] = "none"
    /\ hpc = "vdev" => vq["host"] = "alloc"
    /\ rpc \in {"boot", "alloc"} => vq["remote"] = "none"
    /\ rpc = "vdev" => vq["remote"] = "alloc"
    /\ rEpt => rpc = "ready"

(* The remote is up only after the host, and the host has somebody to send *)
(* to only after the remote.                                               *)
Met ==
    /\ hpc # "boot" /\ status => vq["host"] = "up"
    /\ vq["remote"] = "up" => vq["host"] = "up"
    /\ bound => vq["remote"] = "up"
    /\ rpmsg_dev \/ hEpt \/ hpc = "ept" => bound
    /\ rEpt /\ vq["remote"] = "up" => bound \/ \E k \in 1 .. Len(ring["host"]) : ring["host"][k] = Ns

(* Messages, doorbells and signals: only of sides that are up.             *)
Rung ==
    /\ \A s \in Side : ring[s] # <<>> \/ bell[s] \/ sig[s] => vq["remote"] = "up"
    /\ \A s \in Side : loop[s] \in {"reset", "dispatch"} => vq["remote"] = "up"

(* What is left to send stays within the bound.                            *)
Counted ==
    /\ first <= sent + 1
    /\ cmd = "send" => noof_messages >= 1 /\ sent + noof_messages <= MaxMsgs
    /\ cmd = "wait" => noof_messages >= 1 /\ sent + noof_messages <= MaxMsgs + 1 /\ first <= sent

(* Before the first timeout at most one message is under way, the last one *)
(* sent, and the command waits for it.                                     *)
Carries(s, k) == ring[s][k] # Ns
Answered(n)   == first .. n \subseteq echoed /\ number_of_completed_msgs = n + 1 - first
Lockstep ==
    ~expired =>
        /\ \A s \in Side : \A k \in 1 .. Len(ring[s]) :
               Carries(s, k) => ring[s][k] = sent /\ cmd = "wait" /\ rx_sem = 0
        /\ \A s, t \in Side : \A j \in 1 .. Len(ring[s]), k \in 1 .. Len(ring[t]) :
               Carries(s, j) /\ Carries(t, k) => s = t /\ j = k
        /\ rx_sem = 1 => cmd = "wait"
        /\ cmd \in {"send", "done"} \/ rx_sem = 1 => Answered(sent)
        /\ cmd = "wait" /\ rx_sem = 0 => Answered(sent - 1)

(* The remote is only sent numbers.                                        *)
Numbers == \A k \in 1 .. Len(ring["remote"]) : Carries("remote", k)

(* The inductive invariant.                                                *)
IInv == TypeOK /\ Started /\ Met /\ Rung /\ Counted /\ Numbers /\ Lockstep /\ NoBellLost
-----------------------------------------------------------------------------
(* A sequence with a message added.                                        *)
LEMMA AppendFacts ==
  ASSUME NEW S, NEW q \in Seq(S), NEW m \in S
  PROVE  /\ Append(q, m) \in Seq(S)
         /\ Len(q) \in Nat /\ Len(Append(q, m)) = Len(q) + 1
         /\ \A k \in 1 .. Len(q) : Append(q, m)[k] = q[k]
         /\ Append(q, m)[Len(q) + 1] = m
  OBVIOUS

(* What is left of a sequence when its head is taken.                      *)
LEMMA TailFacts ==
  ASSUME NEW S, NEW q \in Seq(S), q # <<>>
  PROVE  /\ Tail(q) \in Seq(S)
         /\ Len(Tail(q)) \in Nat /\ Len(q) = Len(Tail(q)) + 1
         /\ \A k \in 1 .. Len(Tail(q)) : Tail(q)[k] = q[k + 1]
         /\ Head(q) = q[1] /\ Head(q) \in S
  <1>1. Tail(q) \in Seq(S)
    OBVIOUS
  <1>2. Len(Tail(q)) \in Nat /\ Len(q) = Len(Tail(q)) + 1
    OBVIOUS
  <1>3. \A k \in 1 .. Len(Tail(q)) : Tail(q)[k] = q[k + 1]
    OBVIOUS
  <1>4. Head(q) = q[1] /\ Head(q) \in S
    OBVIOUS
  <1> QED BY <1>1, <1>2, <1>3, <1>4

(* The rings after a send, after a dispatch, and after an echo, which is   *)
(* both.                                                                   *)
Longer(s, m) ==
    /\ Len(ring[s]) \in Nat /\ Len(ring'[s]) = Len(ring[s]) + 1
    /\ \A k \in 1 .. Len(ring[s]) : ring'[s][k] = ring[s][k]
    /\ ring'[s][Len(ring[s]) + 1] = m

Shorter(s) ==
    /\ Len(ring'[s]) \in Nat /\ Len(ring[s]) = Len(ring'[s]) + 1
    /\ \A k \in 1 .. Len(ring'[s]) : ring'[s][k] = ring[s][k + 1]
    /\ Head(ring[s]) = ring[s][1] /\ ring[s][1] \in 0 .. MaxMsgs

(* A send keeps the ring within its buffers.                               *)
LEMMA RingSend ==
  ASSUME RingTypeOK, NEW s \in Side, NEW m \in 0 .. MaxMsgs, NBuf \in Nat,
         Avail(s), ring' = [ring EXCEPT ![s] = Append(@, m)]
  PROVE  RingTypeOK' /\ Longer(s, m) /\ \A t \in Side \ {s} : ring'[t] = ring[t]
  <1> DEFINE M == 0 .. MaxMsgs
  <1> HIDE DEF M
  <1>1. ring \in [Side -> Seq(M)] /\ m \in M
    BY DEF RingTypeOK, M
  <1>2. ring'[s] = Append(ring[s], m) /\ \A t \in Side \ {s} : ring'[t] = ring[t]
    BY <1>1
  <1>3. Append(ring[s], m) \in Seq(M) /\ Longer(s, m)
    BY <1>1, <1>2, AppendFacts DEF Longer
  <1>4. ring' \in [Side -> Seq(M)]
    BY <1>1, <1>3
  <1>5. \A t \in Side : Len(ring'[t]) <= NBuf
    BY <1>2, <1>3 DEF RingTypeOK, Avail, Longer
  <1> QED BY <1>2, <1>3, <1>4, <1>5 DEF RingTypeOK, M

(* A dispatch takes the oldest message and leaves the other ring alone.    *)
LEMMA RingTake ==
  ASSUME RingTypeOK, NEW s \in Side, ring[s] # <<>>, NBuf \in Nat,
         ring' = [ring EXCEPT ![s] = Tail(@)]
  PROVE  RingTypeOK' /\ Shorter(s) /\ \A t \in Side \ {s} : ring'[t] = ring[t]
  <1> DEFINE M == 0 .. MaxMsgs
  <1> HIDE DEF M
  <1>1. ring \in [Side -> Seq(M)]
    BY DEF RingTypeOK, M
  <1>2. ring'[s] = Tail(ring[s]) /\ \A t \in Side \ {s} : ring'[t] = ring[t]
    BY <1>1
  <1>3. Tail(ring[s]) \in Seq(M) /\ Shorter(s)
    <2>1. ring[s] \in Seq(M)
      BY <1>1
    <2>2. /\ Tail(ring[s]) \in Seq(M) /\ Len(Tail(ring[s])) \in Nat
          /\ Len(ring[s]) = Len(Tail(ring[s])) + 1
          /\ \A k \in 1 .. Len(Tail(ring[s])) : Tail(ring[s])[k] = ring[s][k + 1]
          /\ Head(ring[s]) = ring[s][1] /\ Head(ring[s]) \in M
      BY <2>1, TailFacts
    <2> QED BY <1>2, <2>2 DEF Shorter, M
  <1>4. ring' \in [Side -> Seq(M)]
    BY <1>1, <1>3
  <1>5. \A t \in Side : Len(ring'[t]) <= NBuf
    BY <1>2, <1>3 DEF RingTypeOK, Shorter
  <1> QED BY <1>2, <1>3, <1>4, <1>5 DEF RingTypeOK, M

(* An echo moves the oldest message of the remote's ring to the host's.    *)
LEMMA RingEcho ==
  ASSUME RingTypeOK, ring["remote"] # <<>>, NBuf \in Nat, Avail("host"),
         ring' = [ring EXCEPT !["remote"] = Tail(@), !["host"] = Append(@, Head(ring["remote"]))]
  PROVE  RingTypeOK' /\ Shorter("remote") /\ Longer("host", Head(ring["remote"]))
  <1> DEFINE M == 0 .. MaxMsgs
             m == Head(ring["remote"])
  <1> HIDE DEF M
  <1>1. ring \in [Side -> Seq(M)]
    BY DEF RingTypeOK, M
  <1>2. ring'["remote"] = Tail(ring["remote"]) /\ ring'["host"] = Append(ring["host"], m)
    BY <1>1 DEF Side
  <1>3. Tail(ring["remote"]) \in Seq(M) /\ m \in M /\ Shorter("remote")
    BY <1>1, <1>2, TailFacts DEF Shorter, M, Side
  <1>4. Append(ring["host"], m) \in Seq(M) /\ Longer("host", m)
    BY <1>1, <1>2, <1>3, AppendFacts DEF Longer, Side
  <1>5. ring' \in [Side -> Seq(M)]
    BY <1>1, <1>3, <1>4 DEF Side
  <1>6. \A t \in Side : Len(ring'[t]) <= NBuf
    BY <1>2, <1>3, <1>4 DEF RingTypeOK, Avail, Longer, Shorter, Side
  <1> QED BY <1>3, <1>4, <1>5, <1>6 DEF RingTypeOK, M

-----------------------------------------------------------------------------
(* Every step keeps the types, one lemma per part.                         *)
LEMMA FlagStep == IInv /\ [Next]_vars => FlagTypeOK'
  <1> SUFFICES ASSUME IInv, [Next]_vars PROVE FlagTypeOK'
    OBVIOUS
  <1> USE IvshmemAssumption
      DEF IInv, Side, Ns, setting, loopVars, mainVars, bindVars, cmdVars, rxVars,
          MainFrame, RemoteFrame, LoopFrame, CmdFrame, Avail, virtio_notify, Send,
          virtio_get_status, virtio_set_status, Registered, At, Dispatch, TypeOK,
          FlagTypeOK
  <1>1. CASE HostInit
    BY <1>1 DEF HostInit
  <1>2. CASE HostAlloc
    BY <1>2 DEF HostAlloc
  <1>3. CASE HostVdev
    BY <1>3 DEF HostVdev
  <1>4. CASE HostBind
    BY <1>4 DEF HostBind
  <1>5. CASE HostMain
    BY <1>5 DEF HostMain
  <1>6. CASE HostEpt
    BY <1>6 DEF HostEpt
  <1>7. CASE RemoteInit
    BY <1>7 DEF RemoteInit
  <1>8. CASE RemoteAlloc
    BY <1>8 DEF RemoteAlloc
  <1>9. CASE RemoteVdev
    BY <1>9 DEF RemoteVdev
  <1>10. CASE RemoteMain
    BY <1>10 DEF RemoteMain
  <1>11. CASE CmdSend
    BY <1>11 DEF CmdSend
  <1>12. CASE CmdTake
    BY <1>12 DEF CmdTake
  <1>13. CASE CmdTimeout
    BY <1>13 DEF CmdTimeout
  <1>14. CASE CmdReturn
    BY <1>14 DEF CmdReturn
  <1>15. CASE ns_bind_cb
    BY <1>15 DEF ns_bind_cb
  <1>16. CASE endpoint_cb
    BY <1>16 DEF endpoint_cb
  <1>17. CASE Echo
    BY <1>17 DEF Echo
  <1>18. ASSUME NEW s \in Side, Doorbell(s) PROVE FlagTypeOK'
    BY <1>18 DEF Doorbell
  <1>19. ASSUME NEW s \in Side, PollReturns(s) PROVE FlagTypeOK'
    BY <1>19 DEF PollReturns
  <1>20. ASSUME NEW s \in Side, k_poll_signal_reset(s) PROVE FlagTypeOK'
    BY <1>20 DEF k_poll_signal_reset
  <1>21. ASSUME NEW s \in Side, Dispatched(s) PROVE FlagTypeOK'
    BY <1>21 DEF Dispatched
  <1>22. ASSUME NEW n \in 1 .. MaxN, CmdStart(n) PROVE FlagTypeOK'
    BY <1>22 DEF CmdStart
  <1>23. CASE UNCHANGED vars
    BY <1>23 DEF vars
  <1> QED
    BY <1>1, <1>2, <1>3, <1>4, <1>5, <1>6, <1>7, <1>8, <1>9, <1>10, <1>11, <1>12, <1>13,
       <1>14, <1>15, <1>16, <1>17, <1>18, <1>19, <1>20, <1>21, <1>22, <1>23
    DEF Next, HostThread, RemoteThread, Shell, EventLoop

(* The rings stay sequences of messages that fit their buffers.            *)
LEMMA RingStep == IInv /\ [Next]_vars => RingTypeOK'
  <1> SUFFICES ASSUME IInv, [Next]_vars PROVE RingTypeOK'
    OBVIOUS
  <1> USE IvshmemAssumption
      DEF IInv, Side, Ns, setting, loopVars, mainVars, bindVars, cmdVars, rxVars,
          MainFrame, RemoteFrame, LoopFrame, CmdFrame, Avail, virtio_notify, Send,
          virtio_get_status, virtio_set_status, Registered, At, Dispatch, TypeOK,
          RingTypeOK, ControlTypeOK, Counted
  <1>1. CASE HostInit
    BY <1>1 DEF HostInit
  <1>2. CASE HostAlloc
    BY <1>2 DEF HostAlloc
  <1>3. CASE HostVdev
    <2>1. CASE ring' = [s \in Side |-> <<>>]
      BY <2>1
    <2>2. CASE UNCHANGED ring
      BY <2>2
    <2> QED BY <1>3, <2>1, <2>2 DEF HostVdev
  <1>4. CASE HostBind
    BY <1>4 DEF HostBind
  <1>5. CASE HostMain
    BY <1>5 DEF HostMain
  <1>6. CASE HostEpt
    BY <1>6 DEF HostEpt
  <1>7. CASE RemoteInit
    BY <1>7 DEF RemoteInit
  <1>8. CASE RemoteAlloc
    BY <1>8 DEF RemoteAlloc
  <1>9. CASE RemoteVdev
    BY <1>9 DEF RemoteVdev
  <1>10. CASE RemoteMain
    <2>1. CASE Send("host", Ns)
      BY <2>1, RingSend
    <2>2. CASE UNCHANGED ring
      BY <2>2
    <2> QED BY <1>10, <2>1, <2>2 DEF RemoteMain
  <1>11. CASE CmdSend
    <2>1. CASE Send("remote", sent + 1)
      <3>1. sent + 1 \in 0 .. MaxMsgs
        BY <1>11 DEF CmdSend
      <3> QED BY <2>1, <3>1, RingSend
    <2>2. CASE UNCHANGED ring
      BY <2>2
    <2> QED BY <1>11, <2>1, <2>2 DEF CmdSend
  <1>12. CASE CmdTake
    BY <1>12 DEF CmdTake
  <1>13. CASE CmdTimeout
    BY <1>13 DEF CmdTimeout
  <1>14. CASE CmdReturn
    BY <1>14 DEF CmdReturn
  <1>15. CASE ns_bind_cb
    BY <1>15, RingTake DEF ns_bind_cb
  <1>16. CASE endpoint_cb
    BY <1>16, RingTake DEF endpoint_cb
  <1>17. CASE Echo
    BY <1>17, RingEcho, RingTake DEF Echo
  <1>18. ASSUME NEW s \in Side, Doorbell(s) PROVE RingTypeOK'
    BY <1>18 DEF Doorbell
  <1>19. ASSUME NEW s \in Side, PollReturns(s) PROVE RingTypeOK'
    BY <1>19 DEF PollReturns
  <1>20. ASSUME NEW s \in Side, k_poll_signal_reset(s) PROVE RingTypeOK'
    BY <1>20 DEF k_poll_signal_reset
  <1>21. ASSUME NEW s \in Side, Dispatched(s) PROVE RingTypeOK'
    BY <1>21 DEF Dispatched
  <1>22. ASSUME NEW n \in 1 .. MaxN, CmdStart(n) PROVE RingTypeOK'
    BY <1>22 DEF CmdStart
  <1>23. CASE UNCHANGED vars
    BY <1>23 DEF vars
  <1> QED
    BY <1>1, <1>2, <1>3, <1>4, <1>5, <1>6, <1>7, <1>8, <1>9, <1>10, <1>11, <1>12, <1>13,
       <1>14, <1>15, <1>16, <1>17, <1>18, <1>19, <1>20, <1>21, <1>22, <1>23
    DEF Next, HostThread, RemoteThread, Shell, EventLoop

(* Program counters, semaphores and counts stay in their ranges.           *)
LEMMA ControlStep == IInv /\ [Next]_vars => ControlTypeOK'
  <1> SUFFICES ASSUME IInv, [Next]_vars PROVE ControlTypeOK'
    OBVIOUS
  <1> USE IvshmemAssumption
      DEF IInv, Side, Ns, setting, loopVars, mainVars, bindVars, cmdVars, rxVars,
          MainFrame, RemoteFrame, LoopFrame, CmdFrame, Avail, virtio_notify, Send,
          virtio_get_status, virtio_set_status, Registered, At, Dispatch, TypeOK,
          RingTypeOK, ControlTypeOK, Counted, Numbers
  <1>1. CASE HostInit
    BY <1>1 DEF HostInit
  <1>2. CASE HostAlloc
    BY <1>2 DEF HostAlloc
  <1>3. CASE HostVdev
    BY <1>3 DEF HostVdev
  <1>4. CASE HostBind
    BY <1>4 DEF HostBind
  <1>5. CASE HostMain
    BY <1>5 DEF HostMain
  <1>6. CASE HostEpt
    BY <1>6 DEF HostEpt
  <1>7. CASE RemoteInit
    BY <1>7 DEF RemoteInit
  <1>8. CASE RemoteAlloc
    BY <1>8 DEF RemoteAlloc
  <1>9. CASE RemoteVdev
    BY <1>9 DEF RemoteVdev
  <1>10. CASE RemoteMain
    BY <1>10 DEF RemoteMain
  <1>11. CASE CmdSend
    BY <1>11 DEF CmdSend
  <1>12. CASE CmdTake
    BY <1>12 DEF CmdTake
  <1>13. CASE CmdTimeout
    BY <1>13 DEF CmdTimeout
  <1>14. CASE CmdReturn
    BY <1>14 DEF CmdReturn
  <1>15. CASE ns_bind_cb
    BY <1>15 DEF ns_bind_cb
  <1>16. CASE endpoint_cb
    <2>1. Head(ring["host"]) \in 1 .. MaxMsgs
      BY <1>16, RingTake DEF endpoint_cb, Shorter
    <2>2. echoed' \subseteq 1 .. MaxMsgs
      BY <1>16, <2>1 DEF endpoint_cb
    <2>3. number_of_completed_msgs' \in Nat /\ rx_sem' \in 0 .. 1
      BY <1>16 DEF endpoint_cb
    <2> QED BY <1>16, <2>2, <2>3 DEF endpoint_cb
  <1>17. CASE Echo
    BY <1>17 DEF Echo
  <1>18. ASSUME NEW s \in Side, Doorbell(s) PROVE ControlTypeOK'
    BY <1>18 DEF Doorbell
  <1>19. ASSUME NEW s \in Side, PollReturns(s) PROVE ControlTypeOK'
    BY <1>19 DEF PollReturns
  <1>20. ASSUME NEW s \in Side, k_poll_signal_reset(s) PROVE ControlTypeOK'
    BY <1>20 DEF k_poll_signal_reset
  <1>21. ASSUME NEW s \in Side, Dispatched(s) PROVE ControlTypeOK'
    BY <1>21 DEF Dispatched
  <1>22. ASSUME NEW n \in 1 .. MaxN, CmdStart(n) PROVE ControlTypeOK'
    BY <1>22 DEF CmdStart
  <1>23. CASE UNCHANGED vars
    BY <1>23 DEF vars
  <1> QED
    BY <1>1, <1>2, <1>3, <1>4, <1>5, <1>6, <1>7, <1>8, <1>9, <1>10, <1>11, <1>12, <1>13,
       <1>14, <1>15, <1>16, <1>17, <1>18, <1>19, <1>20, <1>21, <1>22, <1>23
    DEF Next, HostThread, RemoteThread, Shell, EventLoop

(* An announcement stays in the host's ring until it is dispatched.        *)
Announced == \E k \in 1 .. Len(ring["host"]) : ring["host"][k] = Ns

(* The host's endpoint_cb takes another message.                           *)
LEMMA EndpointAnnounced == IInv /\ endpoint_cb /\ Announced => Announced'
  <1> SUFFICES ASSUME IInv, endpoint_cb, NEW k \in 1 .. Len(ring["host"]), ring["host"][k] = Ns
               PROVE  Announced'
    BY DEF Announced
  <1>1. Shorter("host") /\ Head(ring["host"]) # Ns
    BY IvshmemAssumption, RingTake DEF IInv, TypeOK, endpoint_cb, Dispatch, Side
  <1>2. k # 1 /\ k \in Nat
    BY <1>1 DEF Shorter
  <1>3. k - 1 \in 1 .. Len(ring'["host"]) /\ (k - 1) + 1 = k
    BY <1>1, <1>2 DEF Shorter
  <1>4. ring'["host"][k - 1] = ring["host"][(k - 1) + 1]
    BY <1>1, <1>3 DEF Shorter
  <1> QED BY <1>3, <1>4 DEF Announced

(* An echo goes behind it.                                                 *)
LEMMA EchoAnnounced == IInv /\ Echo /\ Announced => Announced'
  <1> SUFFICES ASSUME IInv, Echo, NEW k \in 1 .. Len(ring["host"]), ring["host"][k] = Ns
               PROVE  Announced'
    BY DEF Announced
  <1>1. CASE Avail("host")
    <2>1. Longer("host", Head(ring["remote"]))
      BY <1>1, IvshmemAssumption, RingEcho DEF IInv, TypeOK, Echo, Dispatch
    <2> QED BY <2>1 DEF Longer, Announced
  <1>2. CASE ~Avail("host")
    <2>1. ring'["host"] = ring["host"]
      BY <1>2 DEF Echo, IInv, TypeOK, RingTypeOK, Side
    <2> QED BY <2>1 DEF Announced
  <1> QED BY <1>1, <1>2

(* Every step keeps the order of the start and the doorbells.              *)
LEMMA StartStep == IInv /\ [Next]_vars => (Started /\ Met /\ Rung /\ NoBellLost)'
  <1> SUFFICES ASSUME IInv, [Next]_vars PROVE (Started /\ Met /\ Rung /\ NoBellLost)'
    OBVIOUS
  <1> USE IvshmemAssumption
      DEF IInv, Side, Ns, setting, loopVars, mainVars, bindVars, cmdVars, rxVars,
          MainFrame, RemoteFrame, LoopFrame, CmdFrame, Avail, virtio_notify, Send,
          virtio_get_status, virtio_set_status, Registered, At, Dispatch, TypeOK,
          FlagTypeOK, RingTypeOK, ControlTypeOK, Started, Met, Rung, NoBellLost
  <1>1. CASE HostInit
    BY <1>1 DEF HostInit
  <1>2. CASE HostAlloc
    BY <1>2 DEF HostAlloc
  <1>3. CASE HostVdev
    BY <1>3 DEF HostVdev
  <1>4. CASE HostBind
    BY <1>4 DEF HostBind
  <1>5. CASE HostMain
    BY <1>5 DEF HostMain
  <1>6. CASE HostEpt
    BY <1>6 DEF HostEpt
  <1>7. CASE RemoteInit
    BY <1>7 DEF RemoteInit
  <1>8. CASE RemoteAlloc
    BY <1>8 DEF RemoteAlloc
  <1>9. CASE RemoteVdev
    BY <1>9 DEF RemoteVdev
  <1>10. CASE RemoteMain
    <2>1. Started'
      <3>1. /\ UNCHANGED <<hpc, loop, vq>> /\ rpc = "main"
            /\ rpc' = "ready" \/ (rpc' = "failed" /\ rEpt' = rEpt)
        BY <1>10 DEF RemoteMain
      <3> QED BY <3>1
    <2>2. Met'
      BY <1>10 DEF RemoteMain
    <2>3. Rung'
      BY <1>10 DEF RemoteMain
    <2>4. NoBellLost'
      BY <1>10 DEF RemoteMain
    <2> QED BY <2>1, <2>2, <2>3, <2>4
  <1>11. CASE CmdSend
    <2>1. Started'
      BY <1>11 DEF CmdSend
    <2>2. Met'
      BY <1>11 DEF CmdSend
    <2>3. Rung'
      BY <1>11 DEF CmdSend
    <2>4. NoBellLost'
      BY <1>11 DEF CmdSend
    <2> QED BY <2>1, <2>2, <2>3, <2>4
  <1>12. CASE CmdTake
    BY <1>12 DEF CmdTake
  <1>13. CASE CmdTimeout
    BY <1>13 DEF CmdTimeout
  <1>14. CASE CmdReturn
    BY <1>14 DEF CmdReturn
  <1>15. CASE ns_bind_cb
    BY <1>15 DEF ns_bind_cb
  <1>16. CASE endpoint_cb
    BY <1>16, EndpointAnnounced DEF endpoint_cb, Announced
  <1>17. CASE Echo
    BY <1>17, EchoAnnounced DEF Echo, Announced
  <1>18. ASSUME NEW s \in Side, Doorbell(s) PROVE (Started /\ Met /\ Rung /\ NoBellLost)'
    BY <1>18 DEF Doorbell
  <1>19. ASSUME NEW s \in Side, PollReturns(s) PROVE (Started /\ Met /\ Rung /\ NoBellLost)'
    BY <1>19 DEF PollReturns
  <1>20. ASSUME NEW s \in Side, k_poll_signal_reset(s) PROVE (Started /\ Met /\ Rung /\ NoBellLost)'
    BY <1>20 DEF k_poll_signal_reset
  <1>21. ASSUME NEW s \in Side, Dispatched(s) PROVE (Started /\ Met /\ Rung /\ NoBellLost)'
    BY <1>21 DEF Dispatched
  <1>22. ASSUME NEW n \in 1 .. MaxN, CmdStart(n) PROVE (Started /\ Met /\ Rung /\ NoBellLost)'
    BY <1>22 DEF CmdStart
  <1>23. CASE UNCHANGED vars
    BY <1>23 DEF vars
  <1> QED
    BY <1>1, <1>2, <1>3, <1>4, <1>5, <1>6, <1>7, <1>8, <1>9, <1>10, <1>11, <1>12, <1>13,
       <1>14, <1>15, <1>16, <1>17, <1>18, <1>19, <1>20, <1>21, <1>22, <1>23
    DEF Next, HostThread, RemoteThread, Shell, EventLoop

(* The host empties the rings: nothing is under way.                       *)
LEMMA VdevCommand == IInv /\ HostVdev => (Counted /\ Numbers /\ Lockstep)'
  <1> SUFFICES ASSUME IInv, HostVdev PROVE (Counted /\ Numbers /\ Lockstep)'
    OBVIOUS
  <1>1. UNCHANGED <<cmdVars, rxVars>>
    BY DEF HostVdev, MainFrame
  <1>2. CASE \A s \in Side : ring'[s] = <<>>
    <2>1. \A s \in Side : 1 .. Len(ring'[s]) = {}
      BY <1>2
    <2> QED BY <1>1, <2>1 DEF IInv, Counted, Numbers, Lockstep, Answered, cmdVars,
        rxVars, Side
  <1>3. CASE UNCHANGED ring
    BY <1>1, <1>3 DEF IInv, Counted, Numbers, Lockstep, Answered, Carries, cmdVars,
       rxVars
  <1> QED BY <1>2, <1>3 DEF HostVdev

(* The announcement is no message of a command.                            *)
LEMMA RemoteMainCommand == IInv /\ RemoteMain => (Counted /\ Numbers /\ Lockstep)'
  <1> SUFFICES ASSUME IInv, RemoteMain PROVE (Counted /\ Numbers /\ Lockstep)'
    OBVIOUS
  <1>1. UNCHANGED <<cmdVars, rxVars>>
    BY DEF RemoteMain, RemoteFrame
  <1>2. CASE Send("host", Ns)
    <2>1. Longer("host", Ns) /\ ring'["remote"] = ring["remote"]
      <3>1. Ns \in 0 .. MaxMsgs /\ NBuf \in Nat /\ RingTypeOK
        BY IvshmemAssumption DEF Ns, IInv, TypeOK
      <3>2. Longer("host", Ns) /\ \A t \in Side \ {"host"} : ring'[t] = ring[t]
        BY <1>2, <3>1, RingSend DEF Send, Side
      <3> QED BY <3>2 DEF Side
    <2>2. ASSUME NEW s \in Side, NEW k \in 1 .. Len(ring'[s]), Carries(s, k)'
          PROVE  k \in 1 .. Len(ring[s]) /\ Carries(s, k) /\ ring'[s][k] = ring[s][k]
      BY <2>1, <2>2 DEF Longer, Carries, Side
    <2>3. Counted' /\ Numbers'
      BY <1>1, <2>1 DEF IInv, Counted, Numbers, Carries, cmdVars
    <2>4. Lockstep'
      BY <1>1, <2>2 DEF IInv, Lockstep, Answered, cmdVars, rxVars
    <2> QED BY <2>3, <2>4
  <1>3. CASE UNCHANGED ring
    BY <1>1, <1>3 DEF IInv, Counted, Numbers, Lockstep, Answered, Carries, cmdVars,
       rxVars
  <1> QED BY <1>2, <1>3 DEF RemoteMain

(* A command sends when nothing is under way; then its message is.         *)
LEMMA CmdSendCommand == IInv /\ CmdSend => (Counted /\ Numbers /\ Lockstep)'
  <1> SUFFICES ASSUME IInv, CmdSend PROVE (Counted /\ Numbers /\ Lockstep)'
    OBVIOUS
  <1>1. UNCHANGED <<first, expired, noof_messages, rxVars>> /\ cmd = "send"
    BY DEF CmdSend, CmdFrame, rxVars
  <1>2. sent \in Nat /\ first \in Nat /\ rx_sem \in 0 .. 1 /\ MaxMsgs \in Nat /\ noof_messages \in Nat
    BY IvshmemAssumption DEF IInv, TypeOK, ControlTypeOK
  <1>3. CASE Send("remote", sent + 1) /\ sent' = sent + 1 /\ cmd' = "wait"
    <2>1. sent + 1 \in 0 .. MaxMsgs
      BY <1>1, <1>2 DEF IInv, Counted
    <2>2. Longer("remote", sent + 1) /\ ring'["host"] = ring["host"]
      BY <1>3, <2>1, IvshmemAssumption, RingSend DEF IInv, TypeOK, Send, Side
    <2>3. Counted'
      BY <1>1, <1>2, <1>3 DEF IInv, Counted
    <2>4. Numbers'
      BY <1>2, <2>2 DEF IInv, Numbers, Longer, Carries, Ns
    <2>5. SUFFICES ASSUME ~expired PROVE Lockstep'
      BY <1>1, <2>3, <2>4 DEF Lockstep
    <2>6. \A s \in Side : \A k \in 1 .. Len(ring[s]) : ~Carries(s, k)
      BY <1>1, <2>5 DEF IInv, Lockstep
    <2>7. rx_sem = 0 /\ Answered(sent)
      BY <1>1, <1>2, <2>5 DEF IInv, Lockstep
    <2>8. ASSUME NEW s \in Side, NEW k \in 1 .. Len(ring'[s]), Carries(s, k)'
          PROVE  s = "remote" /\ k = Len(ring["remote"]) + 1 /\ ring'[s][k] = sent + 1
      BY <2>2, <2>6, <2>8 DEF Longer, Carries, Side
    <2>9. Answered(sent - 1)'
      BY <1>1, <1>2, <1>3, <2>7 DEF Answered, rxVars
    <2> QED BY <1>1, <1>3, <2>7, <2>8, <2>9 DEF Lockstep, rxVars
  <1>4. CASE UNCHANGED <<ring, sent>> /\ cmd' = "idle"
    BY <1>1, <1>4 DEF IInv, Counted, Numbers, Lockstep, Answered, Carries, rxVars
  <1> QED BY <1>3, <1>4 DEF CmdSend

(* The message that was under way is counted; none is left.                *)
LEMMA EndpointCommand == IInv /\ endpoint_cb => (Counted /\ Numbers /\ Lockstep)'
  <1> SUFFICES ASSUME IInv, endpoint_cb PROVE (Counted /\ Numbers /\ Lockstep)'
    OBVIOUS
  <1> DEFINE m == ring["host"][1]
  <1>1. Shorter("host") /\ ring'["remote"] = ring["remote"]
    BY IvshmemAssumption, RingTake DEF IInv, TypeOK, endpoint_cb, Dispatch, Side
  <1>2. /\ UNCHANGED cmdVars /\ rx_sem' = 1 /\ Carries("host", 1)
        /\ number_of_completed_msgs' = number_of_completed_msgs + 1 /\ echoed' = echoed \cup {m}
    BY <1>1 DEF endpoint_cb, LoopFrame, Shorter, Carries
  <1>3. sent \in Nat /\ first \in Nat /\ number_of_completed_msgs \in Nat
    BY DEF IInv, TypeOK, ControlTypeOK
  <1>4. Counted' /\ Numbers'
    BY <1>1, <1>2 DEF IInv, Counted, Numbers, Carries, cmdVars
  <1>5. SUFFICES ASSUME ~expired PROVE Lockstep'
    BY <1>2, <1>4 DEF Lockstep, cmdVars
  <1>6. "host" \in Side /\ 1 \in 1 .. Len(ring["host"])
    BY <1>1 DEF Shorter, Side
  <1>7. m = sent /\ cmd = "wait" /\ Answered(sent - 1)
    BY <1>2, <1>5, <1>6 DEF IInv, Lockstep
  <1>8. Answered(sent)'
    BY <1>2, <1>3, <1>7 DEF Answered, cmdVars
  <1>9. ASSUME NEW s \in Side, NEW k \in 1 .. Len(ring'[s]) PROVE ~Carries(s, k)'
    <2>1. \A t \in Side : \A j \in 1 .. Len(ring[t]) : Carries(t, j) => t = "host" /\ j = 1
      BY <1>2, <1>5, <1>6 DEF IInv, Lockstep
    <2>2. CASE s = "remote"
      BY <1>1, <1>9, <2>1, <2>2 DEF Carries
    <2>3. CASE s = "host"
      <3>1. k + 1 \in 1 .. Len(ring["host"]) /\ k + 1 # 1
        BY <1>1, <1>9, <2>3 DEF Shorter
      <3>2. ~Carries("host", k + 1)
        BY <1>6, <2>1, <3>1
      <3> QED BY <1>1, <1>9, <2>3, <3>2 DEF Carries, Shorter
    <2> QED BY <2>2, <2>3 DEF Side
  <1> QED BY <1>2, <1>7, <1>8, <1>9 DEF Lockstep, cmdVars

(* The message that was under way to the remote is now under way back, or, *)
(* without a buffer, lost.                                                 *)
LEMMA EchoCommand == IInv /\ Echo => (Counted /\ Numbers /\ Lockstep)'
  <1> SUFFICES ASSUME IInv, Echo PROVE (Counted /\ Numbers /\ Lockstep)'
    OBVIOUS
  <1>1. UNCHANGED <<cmdVars, rxVars>> /\ ring["remote"] # <<>> /\ RingTypeOK /\ NBuf \in Nat
    BY IvshmemAssumption DEF Echo, LoopFrame, Dispatch, IInv, TypeOK
  <1>2. CASE Avail("host")
    <2>1. Shorter("remote") /\ Longer("host", ring["remote"][1])
      BY <1>1, <1>2, RingEcho DEF Echo, Shorter
    <2>2. Counted' /\ Numbers'
      BY <1>1, <2>1 DEF IInv, Counted, Numbers, Carries, Shorter, cmdVars
    <2>3. SUFFICES ASSUME ~expired PROVE Lockstep'
      BY <1>1, <2>2 DEF Lockstep, cmdVars
    <2>4. "remote" \in Side /\ 1 \in 1 .. Len(ring["remote"]) /\ Carries("remote", 1)
      BY <2>1 DEF Shorter, Side, IInv, Numbers
    <2>5. \A t \in Side : \A j \in 1 .. Len(ring[t]) : Carries(t, j) => t = "remote" /\ j = 1
      BY <2>3, <2>4 DEF IInv, Lockstep
    <2>6. ring["remote"][1] = sent /\ cmd = "wait" /\ rx_sem = 0
      BY <2>3, <2>4 DEF IInv, Lockstep
    <2>7. ASSUME NEW s \in Side, NEW k \in 1 .. Len(ring'[s]), Carries(s, k)'
          PROVE  s = "host" /\ k = Len(ring["host"]) + 1 /\ ring'[s][k] = sent
      <3>1. CASE s = "remote"
        <4>1. k + 1 \in 1 .. Len(ring["remote"]) /\ k + 1 # 1
          BY <2>1, <2>7, <3>1 DEF Shorter
        <4>2. ~Carries("remote", k + 1)
          BY <2>4, <2>5, <4>1
        <4> QED BY <2>1, <2>7, <3>1, <4>2 DEF Carries, Shorter
      <3>2. CASE s = "host"
        BY <2>1, <2>5, <2>6, <2>7, <3>2 DEF Carries, Longer
      <3> QED BY <3>1, <3>2 DEF Side
    <2> QED BY <1>1, <2>3, <2>6, <2>7 DEF IInv, Lockstep, Answered, cmdVars, rxVars
  <1>3. CASE ~Avail("host")
    <2>1. Shorter("remote") /\ ring'["host"] = ring["host"]
      BY <1>1, <1>3, RingTake DEF Echo, Side
    <2>2. Counted' /\ Numbers'
      <3>1. Counted'
        BY <1>1 DEF IInv, Counted, cmdVars
      <3>2. ASSUME NEW k \in 1 .. Len(ring'["remote"]) PROVE Carries("remote", k)'
        <4>1. k + 1 \in 1 .. Len(ring["remote"])
          BY <2>1, <3>2 DEF Shorter
        <4> QED BY <2>1, <3>2, <4>1 DEF Shorter, Carries, IInv, Numbers
      <3> QED BY <3>1, <3>2 DEF Numbers
    <2>3. SUFFICES ASSUME ~expired PROVE Lockstep'
      BY <1>1, <2>2 DEF Lockstep, cmdVars
    <2>4. "remote" \in Side /\ 1 \in 1 .. Len(ring["remote"]) /\ Carries("remote", 1)
      BY <2>1 DEF Shorter, Side, IInv, Numbers
    <2>5. \A t \in Side : \A j \in 1 .. Len(ring[t]) : Carries(t, j) => t = "remote" /\ j = 1
      BY <2>3, <2>4 DEF IInv, Lockstep
    <2>6. ASSUME NEW s \in Side, NEW k \in 1 .. Len(ring'[s]) PROVE ~Carries(s, k)'
      <3>1. CASE s = "remote"
        <4>1. k + 1 \in 1 .. Len(ring["remote"]) /\ k + 1 # 1
          BY <2>1, <2>6, <3>1 DEF Shorter
        <4>2. ~Carries("remote", k + 1)
          BY <2>4, <2>5, <4>1
        <4> QED BY <2>1, <2>6, <3>1, <4>2 DEF Carries, Shorter
      <3>2. CASE s = "host"
        BY <2>1, <2>5, <2>6, <3>2 DEF Carries
      <3> QED BY <3>1, <3>2 DEF Side
    <2> QED BY <1>1, <2>3, <2>6 DEF IInv, Lockstep, Answered, cmdVars, rxVars
  <1> QED BY <1>2, <1>3

(* The announcement leaves the ring of the host, the rest moves up.        *)
LEMMA BindCommand == IInv /\ ns_bind_cb => (Counted /\ Numbers /\ Lockstep)'
  <1> SUFFICES ASSUME IInv, ns_bind_cb PROVE (Counted /\ Numbers /\ Lockstep)'
    OBVIOUS
  <1>1. Shorter("host") /\ ring'["remote"] = ring["remote"]
    BY IvshmemAssumption, RingTake DEF IInv, TypeOK, ns_bind_cb, Dispatch, Side
  <1>2. UNCHANGED <<cmdVars, rxVars>>
    BY DEF ns_bind_cb, LoopFrame
  <1>3. Counted' /\ Numbers'
    BY <1>1, <1>2 DEF IInv, Counted, Numbers, Carries, cmdVars
  <1>4. SUFFICES ASSUME ~expired PROVE Lockstep'
    BY <1>2, <1>3 DEF Lockstep, cmdVars
  <1> DEFINE Old(s, k) == IF s = "host" THEN k + 1 ELSE k
  <1>5. ASSUME NEW s \in Side, NEW k \in 1 .. Len(ring'[s])
        PROVE  Old(s, k) \in 1 .. Len(ring[s]) /\ ring'[s][k] = ring[s][Old(s, k)]
    BY <1>1, <1>5 DEF Shorter, Side
  <1>6. ASSUME NEW s \in Side, NEW k \in 1 .. Len(ring'[s]), Carries(s, k)'
        PROVE  /\ Carries(s, Old(s, k)) /\ ring'[s][k] = sent
               /\ cmd = "wait" /\ rx_sem = 0
    BY <1>4, <1>5, <1>6 DEF IInv, Lockstep, Carries
  <1>7. ASSUME NEW s \in Side, NEW t \in Side, NEW j \in 1 .. Len(ring'[s]),
               NEW k \in 1 .. Len(ring'[t]), Carries(s, j)', Carries(t, k)'
        PROVE  s = t /\ j = k
    <2>1. s = t /\ Old(s, j) = Old(t, k)
      BY <1>4, <1>5, <1>6, <1>7 DEF IInv, Lockstep
    <2> QED BY <2>1
  <1> QED BY <1>2, <1>4, <1>6, <1>7 DEF IInv, Lockstep, Answered, cmdVars, rxVars

(* Every step keeps a command in lockstep with its answers.                *)
LEMMA CommandStep == IInv /\ [Next]_vars => (Counted /\ Numbers /\ Lockstep)'
  <1> SUFFICES ASSUME IInv, [Next]_vars PROVE (Counted /\ Numbers /\ Lockstep)'
    OBVIOUS
  <1> USE IvshmemAssumption
      DEF IInv, Side, Ns, setting, loopVars, mainVars, bindVars, cmdVars, rxVars,
          MainFrame, RemoteFrame, LoopFrame, CmdFrame, Avail, virtio_notify, Send,
          virtio_get_status, virtio_set_status, Registered, At, Dispatch, TypeOK,
          FlagTypeOK, RingTypeOK, ControlTypeOK, Counted, Numbers, Lockstep, Answered,
          Carries, Rung, Met
  <1>1. CASE HostInit
    BY <1>1 DEF HostInit
  <1>2. CASE HostAlloc
    BY <1>2 DEF HostAlloc
  <1>3. CASE HostVdev
    BY <1>3, VdevCommand
  <1>4. CASE HostBind
    BY <1>4 DEF HostBind
  <1>5. CASE HostMain
    BY <1>5 DEF HostMain
  <1>6. CASE HostEpt
    BY <1>6 DEF HostEpt
  <1>7. CASE RemoteInit
    BY <1>7 DEF RemoteInit
  <1>8. CASE RemoteAlloc
    BY <1>8 DEF RemoteAlloc
  <1>9. CASE RemoteVdev
    BY <1>9 DEF RemoteVdev
  <1>10. CASE RemoteMain
    BY <1>10, RemoteMainCommand
  <1>11. CASE CmdSend
    BY <1>11, CmdSendCommand
  <1>12. CASE CmdTake
    <2>1. Counted'
      BY <1>12 DEF CmdTake
    <2>2. Numbers'
      BY <1>12 DEF CmdTake
    <2>3. Lockstep'
      BY <1>12 DEF CmdTake
    <2> QED BY <2>1, <2>2, <2>3
  <1>13. CASE CmdTimeout
    BY <1>13 DEF CmdTimeout
  <1>14. CASE CmdReturn
    BY <1>14 DEF CmdReturn
  <1>15. CASE ns_bind_cb
    BY <1>15, BindCommand
  <1>16. CASE endpoint_cb
    BY <1>16, EndpointCommand
  <1>17. CASE Echo
    BY <1>17, EchoCommand
  <1>18. ASSUME NEW s \in Side, Doorbell(s) PROVE (Counted /\ Numbers /\ Lockstep)'
    BY <1>18 DEF Doorbell
  <1>19. ASSUME NEW s \in Side, PollReturns(s) PROVE (Counted /\ Numbers /\ Lockstep)'
    BY <1>19 DEF PollReturns
  <1>20. ASSUME NEW s \in Side, k_poll_signal_reset(s) PROVE (Counted /\ Numbers /\ Lockstep)'
    BY <1>20 DEF k_poll_signal_reset
  <1>21. ASSUME NEW s \in Side, Dispatched(s) PROVE (Counted /\ Numbers /\ Lockstep)'
    BY <1>21 DEF Dispatched
  <1>22. ASSUME NEW n \in 1 .. MaxN, CmdStart(n) PROVE (Counted /\ Numbers /\ Lockstep)'
    BY <1>22 DEF CmdStart
  <1>23. CASE UNCHANGED vars
    BY <1>23 DEF vars
  <1> QED
    BY <1>1, <1>2, <1>3, <1>4, <1>5, <1>6, <1>7, <1>8, <1>9, <1>10, <1>11, <1>12, <1>13,
       <1>14, <1>15, <1>16, <1>17, <1>18, <1>19, <1>20, <1>21, <1>22, <1>23
    DEF Next, HostThread, RemoteThread, Shell, EventLoop

-----------------------------------------------------------------------------
(* The invariant holds at first, whatever the status byte is.              *)
LEMMA InitIInv == Init => IInv
  <1> SUFFICES ASSUME Init PROVE IInv
    OBVIOUS
  <1>1. \A s \in Side : ring[s] = <<>> /\ Len(ring[s]) = 0 /\ 1 .. Len(ring[s]) = {}
    BY DEF Init
  <1>2. FlagTypeOK
    BY IvshmemAssumption DEF Init, FlagTypeOK
  <1>3. RingTypeOK
    BY <1>1, IvshmemAssumption DEF Init, RingTypeOK
  <1>4. ControlTypeOK
    BY IvshmemAssumption DEF Init, ControlTypeOK
  <1>5. Started /\ Met /\ Rung /\ Counted /\ NoBellLost
    BY <1>1, IvshmemAssumption DEF Init, Started, Met, Rung, Counted, NoBellLost, Side
  <1>6. Numbers /\ Lockstep
    BY <1>1 DEF Init, Numbers, Lockstep, Side
  <1> QED BY <1>2, <1>3, <1>4, <1>5, <1>6 DEF IInv, TypeOK

(* Every step keeps the invariant.                                         *)
LEMMA NextIInv == IInv /\ [Next]_vars => IInv'
  BY FlagStep, RingStep, ControlStep, StartStep, CommandStep DEF IInv, TypeOK

(* The inductive invariant holds in every reachable state.                 *)
THEOREM Invariance == Safety => []IInv
  BY InitIInv, NextIInv, PTL DEF Safety

(* The variables keep their types; no ring holds more messages than it has *)
(* buffers and no command sends more than it was asked to.                 *)
THEOREM TypeCorrect == Safety => []TypeOK
  <1>1. IInv => TypeOK
    BY DEF IInv
  <1> QED BY <1>1, Invariance, PTL

(* k_poll_signal_reset loses no doorbell: an event loop never sleeps on a  *)
(* message whose interrupt is gone.                                        *)
THEOREM BellsKept == Safety => []NoBellLost
  <1>1. IInv => NoBellLost
    BY DEF IInv
  <1> QED BY <1>1, Invariance, PTL

(* Whatever status byte an earlier run has left and whatever step of the   *)
(* start fails, event loops dispatch only from virtqueues that exist and   *)
(* the remote's announcement reaches the host.                             *)
THEOREM StartsSound == Safety => []StartSound
  <1>1. IInv => StartSound
    <2> SUFFICES ASSUME IInv PROVE StartSound
      OBVIOUS
    <2>1. ASSUME NEW s \in Side, loop[s] = "dispatch" PROVE vq[s] # "none"
      BY <2>1 DEF IInv, Rung, Met, Side
    <2> QED BY <2>1 DEF IInv, Met, StartSound
  <1> QED BY <1>1, Invariance, PTL

(* A command that returns 0 has had the echo of each of its messages and   *)
(* of no other, unless a wait has timed out before.                        *)
THEOREM HonestSuccess == Safety => []SuccessHonest
  <1>1. IInv => SuccessHonest
    BY DEF IInv, Lockstep, Answered, SuccessHonest
  <1> QED BY <1>1, Invariance, PTL
=============================================================================
