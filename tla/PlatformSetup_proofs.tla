------------------------ MODULE PlatformSetup_proofs ------------------------
(***************************************************************************)
(* Proofs about the set-up of the legacy_apps platforms: whichever calls   *)
(* fail and however often programs are started, a client parses the table  *)
(* of its own server, a device starts on a driver it has not met before    *)
(* and can be notified by it, and what a program does not give back is     *)
(* what Leaks names.                                                       *)
(*                                                                         *)
(* The inductive invariant has two halves.  Placed, Holding, GoesOn and    *)
(* Hearing follow one program: what it has at each step, given its port    *)
(* and the call that has failed.  InTurn and Unmet relate the two: on      *)
(* Linux a client is connected only after the server's table is written,   *)
(* and no table, copy or session knows of a driver before its DRIVER_OK.   *)
(***************************************************************************)
EXTENDS PlatformSetup, TLAPS

(* Which steps of platform_init a port takes.                              *)
Placed ==
    \A p \in Programs :
        /\ pc[p] = "machine" => Port(p) = "r5"
        /\ pc[p] \in {"setup", "copying", "bind", "accept"} => p = "dev" /\ Port(p) = "lg"
        /\ pc[p] = "connect" => p = "drv" /\ Port(p) = "lg"

(* What a port has at most once it is initialised, without the device.     *)
MayHold(p) ==
    CASE Port(p) = "r5"      -> {"copy", "metal", "isr", "irqc", "open", "handler", "mems"}
      [] Port(p) = "zl_ipi"  -> {"metal", "shm", "open", "handler"}
      [] Port(p) = "zl_poll" -> {"metal", "shm", "poll"}
      [] OTHER               -> {"metal", "shm", "sock", "handler"}

(* What a program has on its way, and what platform_cleanup will leave.    *)
Holding ==
    \A p \in Programs :
        /\ pc[p] = "init" => held[p] = {}
        /\ pc[p] = "machine" => held[p] \subseteq {"copy"}
        /\ pc[p] \in {"setup", "copying"} => held[p] \subseteq {"metal"}
        /\ pc[p] = "proc" =>
               held[p] \subseteq IF Port(p) = "r5" THEN {"copy", "metal", "isr", "irqc"} ELSE {"metal"}
        /\ pc[p] \in {"bind", "accept", "connect"} => held[p] \subseteq {"metal", "shm"}
        /\ pc[p] = "mmap" => held[p] \subseteq MayHold(p) \ {"mems"}
        /\ pc[p] = "create" => held[p] \subseteq MayHold(p)
        /\ pc[p] \in {"wait", "run", "release"} =>
               held[p] \subseteq MayHold(p) \cup {"rpvdev", "vdev"}
        /\ pc[p] = "cleanup" => (IF Unset(p) THEN held[p] ELSE RemovedProc(p)) \ {"metal", "copy"}
                                    \subseteq Leaks(p)

(* Which failure a program goes on after.                                  *)
GoesOn ==
    /\ pc["drv"] \notin {"cleanup", "ended", "undefined"} => fail["drv"] = "no"
    /\ pc["dev"] \in {"init", "machine", "setup", "copying", "proc", "bind", "accept", "mmap"} =>
           fail["dev"] \in {"no", "irq"}

(* The attempts that a client has left.                                    *)
Trying ==
    /\ pair.dev = "r5" \/ pc["drv"] \in {"init", "proc"} => tries = 0
    /\ pc["drv"] = "connect" => tries < MaxTries

(* The labels of a session.                                                *)
Serving == {"wait", "run", "release"}

(* What is registered when the R5 has not missed a failure.                *)
Hearing ==
    /\ pair.dev = "r5" =>
        /\ pc["dev"] \in {"proc", "mmap"} /\ fail["dev"] # "irq" =>
               {"isr", "irqc"} \subseteq held["dev"]
        /\ pc["dev"] = "mmap" /\ fail["dev"] # "irq" => "handler" \in held["dev"]
        /\ pc["dev"] \in {"create"} \cup Serving /\ fail["dev"] \notin {"irq", "mmap"} =>
               {"isr", "irqc", "handler"} \subseteq held["dev"]
        /\ pc["dev"] \in {"create"} \cup Serving /\ fail["dev"] = "mmap" =>
               "mems" \notin held["dev"]
        /\ pc["dev"] \in Serving => "mems" \in held["dev"]
    /\ pair.dev = "lg" /\ pc["dev"] \in {"mmap", "create"} \cup Serving => "handler" \in held["dev"]

(* Linux: a client that is connected comes after the server's table.       *)
InTurn ==
    pair.dev = "lg" =>
        /\ sock = "listening" \/ link # "down" =>
               pc["dev"] \notin {"init", "setup", "copying"} /\ table.by = run
        /\ pc["dev"] \in {"proc", "bind", "accept"} => table.by = run
        /\ pc["drv"] \in {"mmap", "create"} \cup Serving => link # "down"
        /\ pc["dev"] \in {"init", "setup", "copying"} => table.ok # run
        /\ pc["dev"] \in {"proc", "bind", "accept", "mmap", "create", "wait"} =>
               table.ok \in {Nobody, run}
        /\ pc["dev"] \notin {"run", "release", "cleanup", "ended"} => run \notin served
        /\ copy = Nobody

(* Nobody has met a driver program that has not set its DRIVER_OK.         *)
Unmet ==
    /\ served \subseteq 1 .. run
    /\ copy \in 0 .. run
    /\ table.ok \in 0 .. run \/ (pair.dev = "lg" /\ table.ok = Torn)
    /\ pc["drv"] \in {"init", "proc", "connect", "mmap", "create", "wait"} =>
           run \notin served /\ table.ok # run /\ copy # run
    /\ pc["dev"] = "wait" /\ copy = Nobody => table.ok \notin served

(* What follows one program, what relates the two, and the inductive       *)
(* invariant.                                                              *)
Account == Placed /\ Holding /\ GoesOn /\ Hearing /\ GivenBack
Meeting == Trying /\ InTurn /\ Unmet /\ TableOfThisRun
IInv    == TypeOK /\ Account /\ Meeting
-----------------------------------------------------------------------------
(* The pairs there are.                                                    *)
LEMMA PairShape ==
  ASSUME pair \in Pairs
  PROVE  /\ pair.main \in {"task", "echo"}
         /\ \/ pair.dev = "r5" /\ pair.drv \in {"zl_ipi", "zl_poll"}
            \/ pair.dev = "lg" /\ pair.drv = "lg" /\ pair.main = "echo"
  BY SetupAssumption DEF AllPairs

(* No step changes the pair.                                               *)
LEMMA PairKept == [Next]_vars => UNCHANGED pair
  BY DEF Next, Device, Driver, Steps, Local, ProcFrame, vars, get_resource_table,
     init_system, xlnx_machine_init, zynqmp_r5_a53_proc_init, zynqmp_linux_r5_proc_init,
     setup_resource_table, setup_resource_table_done, linux_proc_init,
     sk_unix_server_listen, sk_unix_server_accept, event_open, R5CreateProc,
     ZynqmpCreateProc, LinuxCreateProc, R5CreateVdev, LinuxCreateVdev,
     platform_release_rpmsg_vdev, platform_cleanup, InitDevice, rpmsg_echo_app,
     InitDriver, app, NewDriver, Restart

(* A device that goes on has met a driver of this run or an earlier one.   *)
LEMMA DriverMet == IInv /\ InitDevice => table.ok \in 1 .. run /\ (pair.dev = "lg" => table.ok = run)
  <1> SUFFICES ASSUME IInv, InitDevice
               PROVE  table.ok \in 1 .. run /\ (pair.dev = "lg" => table.ok = run)
    OBVIOUS
  <1>1. pc["dev"] = "wait" /\ table.ok # 0 /\ run \in Nat \ {0}
    BY SetupAssumption DEF InitDevice, At, Nobody, IInv, TypeOK, Runs
  <1>2. CASE pair.dev = "lg"
    BY <1>1, <1>2 DEF IInv, Meeting, InTurn, Nobody
  <1>3. CASE pair.dev # "lg"
    BY <1>1, <1>3 DEF IInv, Meeting, Unmet
  <1> QED BY <1>2, <1>3

(* Every step keeps the types.                                             *)
LEMMA TypeStep == IInv /\ [Next]_vars => TypeOK'
  <1> SUFFICES ASSUME IInv, [Next]_vars PROVE TypeOK'
    OBVIOUS
  <1>0. /\ pair' = pair /\ pair.main \in {"task", "echo"}
        /\ \/ pair.dev = "r5" /\ pair.drv \in {"zl_ipi", "zl_poll"}
           \/ pair.dev = "lg" /\ pair.drv = "lg" /\ pair.main = "echo"
    BY PairShape, PairKept DEF IInv, TypeOK
  <1> USE SetupAssumption DEF IInv, Account, Meeting, TypeOK, Placed, Trying, Unmet,
      FaultPoints, Labels, Resources, Mapped, At, Goto, Take, Give, Works, Fails,
      GivesUp, TableVars, SocketVars, SessionVars, Local, Removed, RemovedProc,
      ProcFrame, Port, Main, Programs, Runs, Torn, Nobody
  <1>1. ASSUME NEW p \in Programs, get_resource_table(p) PROVE TypeOK'
    BY <1>0, <1>1 DEF get_resource_table
  <1>2. ASSUME NEW p \in Programs, init_system(p) PROVE TypeOK'
    BY <1>0, <1>2 DEF init_system
  <1>3. ASSUME NEW p \in Programs, xlnx_machine_init(p) PROVE TypeOK'
    BY <1>0, <1>3 DEF xlnx_machine_init, MachineResult, system_interrupt_register
  <1>4. ASSUME NEW p \in Programs, zynqmp_r5_a53_proc_init(p) PROVE TypeOK'
    BY <1>0, <1>4 DEF zynqmp_r5_a53_proc_init
  <1>5. ASSUME NEW p \in Programs, zynqmp_linux_r5_proc_init(p) PROVE TypeOK'
    BY <1>0, <1>5 DEF zynqmp_linux_r5_proc_init
  <1>6. ASSUME NEW p \in Programs, setup_resource_table(p) PROVE TypeOK'
    BY <1>0, <1>6 DEF setup_resource_table
  <1>7. ASSUME NEW p \in Programs, setup_resource_table_done(p) PROVE TypeOK'
    BY <1>0, <1>7 DEF setup_resource_table_done
  <1>8. ASSUME NEW p \in Programs, linux_proc_init(p) PROVE TypeOK'
    BY <1>0, <1>8 DEF linux_proc_init
  <1>9. ASSUME NEW p \in Programs, sk_unix_server_listen(p) PROVE TypeOK'
    BY <1>0, <1>9 DEF sk_unix_server_listen
  <1>10. ASSUME NEW p \in Programs, sk_unix_server_accept(p) PROVE TypeOK'
    BY <1>0, <1>10 DEF sk_unix_server_accept
  <1>11. ASSUME NEW p \in Programs, event_open(p) PROVE TypeOK'
    BY <1>0, <1>11 DEF event_open, Connected, Refused
  <1>12. ASSUME NEW p \in Programs, R5CreateProc(p) PROVE TypeOK'
    BY <1>0, <1>12 DEF R5CreateProc, Mapped
  <1>13. ASSUME NEW p \in Programs, ZynqmpCreateProc(p) PROVE TypeOK'
    BY <1>0, <1>13 DEF ZynqmpCreateProc
  <1>14. ASSUME NEW p \in Programs, LinuxCreateProc(p) PROVE TypeOK'
    BY <1>0, <1>14 DEF LinuxCreateProc
  <1>15. ASSUME NEW p \in Programs, R5CreateVdev(p) PROVE TypeOK'
    BY <1>0, <1>15 DEF R5CreateVdev, VdevMade, VdevFailed, Restored
  <1>16. ASSUME NEW p \in Programs, LinuxCreateVdev(p) PROVE TypeOK'
    BY <1>0, <1>16 DEF LinuxCreateVdev, VdevMade, VdevFailed
  <1>17. ASSUME NEW p \in Programs, platform_release_rpmsg_vdev(p) PROVE TypeOK'
    BY <1>0, <1>17 DEF platform_release_rpmsg_vdev, AfterSession
  <1>18. ASSUME NEW p \in Programs, platform_cleanup(p) PROVE TypeOK'
    BY <1>0, <1>18 DEF platform_cleanup, Unset
  <1>19. CASE InitDevice
    <2>1. table.ok \in 1 .. run /\ (served' = served \/ served' = served \cup {table.ok})
      BY <1>19, DriverMet DEF InitDevice
    <2>2. table.ok \in 1 .. Torn
      BY <2>1
    <2>3. served' \subseteq 1 .. Torn
      BY <2>1, <2>2
    <2> QED BY <1>0, <1>19, <2>3 DEF InitDevice
  <1>20. CASE rpmsg_echo_app
    BY <1>0, <1>20 DEF rpmsg_echo_app
  <1>21. CASE InitDriver
    BY <1>0, <1>21 DEF InitDriver
  <1>22. CASE app
    BY <1>0, <1>22 DEF app
  <1>23. CASE NewDriver
    BY <1>0, <1>23 DEF NewDriver
  <1>24. CASE Restart
    <2>1. run' \in Runs /\ tries' \in 0 .. MaxTries
      BY <1>24 DEF Restart
    <2>2. /\ pc' \in [Programs -> Labels] /\ held' \in [Programs -> SUBSET Resources]
          /\ fail' \in [Programs -> FaultPoints \cup {"no", "connect"}]
      BY <1>24 DEF Restart
    <2>3. UNCHANGED <<pair, table, copy, wiped, served>> /\ parsed' \in 0 .. Torn
      BY <1>24 DEF Restart
    <2>4. /\ sock' \in {"none", "stale", "listening"} /\ link' \in {"down", "queued", "up"}
          /\ shutdown_req' \in BOOLEAN
      BY <1>24 DEF Restart
    <2> QED BY <2>1, <2>2, <2>3, <2>4
  <1>25. CASE UNCHANGED vars
    BY <1>0, <1>25 DEF vars
  <1> QED
    BY <1>1, <1>2, <1>3, <1>4, <1>5, <1>6, <1>7, <1>8, <1>9, <1>10, <1>11, <1>12, <1>13,
       <1>14, <1>15, <1>16, <1>17, <1>18, <1>19, <1>20, <1>21, <1>22, <1>23, <1>24,
       <1>25
    DEF Next, Device, Driver, Steps, Programs

(* Every step keeps account of what a program has.                         *)
LEMMA HoldStep == IInv /\ [Next]_vars => Account'
  <1> SUFFICES ASSUME IInv, [Next]_vars PROVE Account'
    OBVIOUS
  <1>0. /\ pair' = pair /\ pair.main \in {"task", "echo"}
        /\ \/ pair.dev = "r5" /\ pair.drv \in {"zl_ipi", "zl_poll"}
           \/ pair.dev = "lg" /\ pair.drv = "lg" /\ pair.main = "echo"
    BY PairShape, PairKept DEF IInv, TypeOK
  <1> USE DEF IInv, Account, Meeting, TypeOK, Placed, Holding, GoesOn, Hearing,
      GivenBack, Unset, Leaks, MayHold, Serving, FaultPoints, Labels, At, Goto, Take,
      Give, Works, Fails, GivesUp, TableVars, SocketVars, SessionVars, Local, Removed,
      RemovedProc, ProcFrame, Port, Main, Programs, Runs, Torn, Nobody
  <1>1. ASSUME NEW p \in Programs, get_resource_table(p) PROVE Account'
    BY <1>0, <1>1 DEF get_resource_table
  <1>2. ASSUME NEW p \in Programs, init_system(p) PROVE Account'
    BY <1>0, <1>2 DEF init_system
  <1>3. ASSUME NEW p \in Programs, xlnx_machine_init(p) PROVE Account'
    BY <1>0, <1>3 DEF xlnx_machine_init, MachineResult, system_interrupt_register
  <1>4. ASSUME NEW p \in Programs, zynqmp_r5_a53_proc_init(p) PROVE Account'
    BY <1>0, <1>4 DEF zynqmp_r5_a53_proc_init
  <1>5. ASSUME NEW p \in Programs, zynqmp_linux_r5_proc_init(p) PROVE Account'
    BY <1>0, <1>5 DEF zynqmp_linux_r5_proc_init
  <1>6. ASSUME NEW p \in Programs, setup_resource_table(p) PROVE Account'
    BY <1>0, <1>6 DEF setup_resource_table
  <1>7. ASSUME NEW p \in Programs, setup_resource_table_done(p) PROVE Account'
    BY <1>0, <1>7 DEF setup_resource_table_done
  <1>8. ASSUME NEW p \in Programs, linux_proc_init(p) PROVE Account'
    BY <1>0, <1>8 DEF linux_proc_init
  <1>9. ASSUME NEW p \in Programs, sk_unix_server_listen(p) PROVE Account'
    BY <1>0, <1>9 DEF sk_unix_server_listen
  <1>10. ASSUME NEW p \in Programs, sk_unix_server_accept(p) PROVE Account'
    BY <1>0, <1>10 DEF sk_unix_server_accept
  <1>11. ASSUME NEW p \in Programs, event_open(p) PROVE Account'
    BY <1>0, <1>11 DEF event_open, Connected, Refused
  <1>12. ASSUME NEW p \in Programs, R5CreateProc(p) PROVE Account'
    BY <1>0, <1>12 DEF R5CreateProc, Mapped
  <1>13. ASSUME NEW p \in Programs, ZynqmpCreateProc(p) PROVE Account'
    BY <1>0, <1>13 DEF ZynqmpCreateProc
  <1>14. ASSUME NEW p \in Programs, LinuxCreateProc(p) PROVE Account'
    BY <1>0, <1>14 DEF LinuxCreateProc
  <1>15. ASSUME NEW p \in Programs, R5CreateVdev(p) PROVE Account'
    BY <1>0, <1>15 DEF R5CreateVdev, VdevMade, VdevFailed, Restored
  <1>16. ASSUME NEW p \in Programs, LinuxCreateVdev(p) PROVE Account'
    BY <1>0, <1>16 DEF LinuxCreateVdev, VdevMade, VdevFailed
  <1>17. ASSUME NEW p \in Programs, platform_release_rpmsg_vdev(p) PROVE Account'
    BY <1>0, <1>17 DEF platform_release_rpmsg_vdev, AfterSession
  <1>18. ASSUME NEW p \in Programs, platform_cleanup(p) PROVE Account'
    BY <1>0, <1>18 DEF platform_cleanup, Unset
  <1>19. CASE InitDevice
    BY <1>0, <1>19 DEF InitDevice
  <1>20. CASE rpmsg_echo_app
    BY <1>0, <1>20 DEF rpmsg_echo_app
  <1>21. CASE InitDriver
    BY <1>0, <1>21 DEF InitDriver
  <1>22. CASE app
    BY <1>0, <1>22 DEF app
  <1>23. CASE NewDriver
    BY <1>0, <1>23 DEF NewDriver
  <1>24. CASE Restart
    BY <1>0, <1>24 DEF Restart
  <1>25. CASE UNCHANGED vars
    BY <1>0, <1>25 DEF vars
  <1> QED
    BY <1>1, <1>2, <1>3, <1>4, <1>5, <1>6, <1>7, <1>8, <1>9, <1>10, <1>11, <1>12, <1>13,
       <1>14, <1>15, <1>16, <1>17, <1>18, <1>19, <1>20, <1>21, <1>22, <1>23, <1>24,
       <1>25
    DEF Next, Device, Driver, Steps, Programs

(* Every step keeps the order in which the programs meet.                  *)
LEMMA TableStep == IInv /\ [Next]_vars => Meeting'
  <1> SUFFICES ASSUME IInv, [Next]_vars PROVE Meeting'
    OBVIOUS
  <1>0. /\ pair' = pair /\ pair.main \in {"task", "echo"}
        /\ \/ pair.dev = "r5" /\ pair.drv \in {"zl_ipi", "zl_poll"}
           \/ pair.dev = "lg" /\ pair.drv = "lg" /\ pair.main = "echo"
    BY PairShape, PairKept DEF IInv, TypeOK
  <1> USE SetupAssumption DEF IInv, Account, Meeting, TypeOK, Placed, GoesOn, Trying,
      InTurn, Unmet, TableOfThisRun, Serving, Labels, At, Goto, Take, Give, Works,
      Fails, GivesUp, TableVars, SocketVars, SessionVars, Local, Removed, RemovedProc,
      ProcFrame, Port, Main, Programs, Runs, Torn, Nobody
  <1>1. ASSUME NEW p \in Programs, get_resource_table(p) PROVE Meeting'
    BY <1>0, <1>1 DEF get_resource_table
  <1>2. ASSUME NEW p \in Programs, init_system(p) PROVE Meeting'
    BY <1>0, <1>2 DEF init_system
  <1>3. ASSUME NEW p \in Programs, xlnx_machine_init(p) PROVE Meeting'
    BY <1>0, <1>3 DEF xlnx_machine_init, MachineResult, system_interrupt_register
  <1>4. ASSUME NEW p \in Programs, zynqmp_r5_a53_proc_init(p) PROVE Meeting'
    BY <1>0, <1>4 DEF zynqmp_r5_a53_proc_init
  <1>5. ASSUME NEW p \in Programs, zynqmp_linux_r5_proc_init(p) PROVE Meeting'
    BY <1>0, <1>5 DEF zynqmp_linux_r5_proc_init
  <1>6. ASSUME NEW p \in Programs, setup_resource_table(p) PROVE Meeting'
    BY <1>0, <1>6 DEF setup_resource_table
  <1>7. ASSUME NEW p \in Programs, setup_resource_table_done(p) PROVE Meeting'
    BY <1>0, <1>7 DEF setup_resource_table_done
  <1>8. ASSUME NEW p \in Programs, linux_proc_init(p) PROVE Meeting'
    BY <1>0, <1>8 DEF linux_proc_init
  <1>9. ASSUME NEW p \in Programs, sk_unix_server_listen(p) PROVE Meeting'
    BY <1>0, <1>9 DEF sk_unix_server_listen
  <1>10. ASSUME NEW p \in Programs, sk_unix_server_accept(p) PROVE Meeting'
    BY <1>0, <1>10 DEF sk_unix_server_accept
  <1>11. ASSUME NEW p \in Programs, event_open(p) PROVE Meeting'
    BY <1>0, <1>11 DEF event_open, Connected, Refused
  <1>12. ASSUME NEW p \in Programs, R5CreateProc(p) PROVE Meeting'
    BY <1>0, <1>12 DEF R5CreateProc, Mapped
  <1>13. ASSUME NEW p \in Programs, ZynqmpCreateProc(p) PROVE Meeting'
    BY <1>0, <1>13 DEF ZynqmpCreateProc
  <1>14. ASSUME NEW p \in Programs, LinuxCreateProc(p) PROVE Meeting'
    BY <1>0, <1>14 DEF LinuxCreateProc
  <1>15. ASSUME NEW p \in Programs, R5CreateVdev(p) PROVE Meeting'
    BY <1>0, <1>15 DEF R5CreateVdev, VdevMade, VdevFailed, Restored
  <1>16. ASSUME NEW p \in Programs, LinuxCreateVdev(p) PROVE Meeting'
    BY <1>0, <1>16 DEF LinuxCreateVdev, VdevMade, VdevFailed
  <1>17. ASSUME NEW p \in Programs, platform_release_rpmsg_vdev(p) PROVE Meeting'
    BY <1>0, <1>17 DEF platform_release_rpmsg_vdev, AfterSession
  <1>18. ASSUME NEW p \in Programs, platform_cleanup(p) PROVE Meeting'
    BY <1>0, <1>18 DEF platform_cleanup, Unset
  <1>19. CASE InitDevice
    <2>1. /\ table.ok \in 1 .. run /\ (pair.dev = "lg" => table.ok = run)
          /\ (served' = served \/ (served' = served \cup {table.ok} /\ pc'["dev"] = "run"))
      BY <1>19, DriverMet DEF InitDevice
    <2>2. /\ UNCHANGED <<pair, run, tries, table, copy, wiped, sock, link, shutdown_req, parsed>>
          /\ pc["dev"] = "wait" /\ pc'["drv"] = pc["drv"] /\ pc'["dev"] \in {"run", "cleanup"}
      BY <1>19 DEF InitDevice
    <2>3. Trying' /\ TableOfThisRun'
      BY <2>2
    <2>4. InTurn'
      BY <1>0, <2>1, <2>2
    <2>5. Unmet'
      BY <1>0, <2>1, <2>2
    <2> QED BY <2>3, <2>4, <2>5
  <1>20. CASE rpmsg_echo_app
    BY <1>0, <1>20 DEF rpmsg_echo_app
  <1>21. CASE InitDriver
    BY <1>0, <1>21 DEF InitDriver
  <1>22. CASE app
    BY <1>0, <1>22 DEF app
  <1>23. CASE NewDriver
    BY <1>0, <1>23 DEF NewDriver
  <1>24. CASE Restart
    BY <1>0, <1>24 DEF Restart
  <1>25. CASE UNCHANGED vars
    BY <1>0, <1>25 DEF vars
  <1> QED
    BY <1>1, <1>2, <1>3, <1>4, <1>5, <1>6, <1>7, <1>8, <1>9, <1>10, <1>11, <1>12, <1>13,
       <1>14, <1>15, <1>16, <1>17, <1>18, <1>19, <1>20, <1>21, <1>22, <1>23, <1>24,
       <1>25
    DEF Next, Device, Driver, Steps, Programs

-----------------------------------------------------------------------------
(* The invariant holds at first, whatever an earlier run has left.         *)
LEMMA InitIInv == Init => IInv
  <1> SUFFICES ASSUME Init PROVE IInv
    OBVIOUS
  <1>0. /\ pair.main \in {"task", "echo"}
        /\ \/ pair.dev = "r5" /\ pair.drv \in {"zl_ipi", "zl_poll"}
           \/ pair.dev = "lg" /\ pair.drv = "lg" /\ pair.main = "echo"
    BY PairShape DEF Init
  <1>1. /\ table \in [by : 0 .. Torn, ok : 0 .. Torn]
        /\ table.ok = Nobody \/ (pair.dev = "lg" /\ table.ok = Torn)
    BY SetupAssumption DEF Init, Torn, Nobody
  <1>2. TypeOK
    <2>1. run \in Runs /\ tries \in 0 .. MaxTries /\ copy \in 0 .. MaxRuns /\ parsed \in 0 .. Torn
      BY SetupAssumption DEF Init, Runs, Torn, Nobody
    <2>2. /\ pc \in [Programs -> Labels] /\ held \in [Programs -> SUBSET Resources]
          /\ fail \in [Programs -> FaultPoints \cup {"no", "connect"}]
      BY DEF Init, Labels
    <2>3. /\ sock \in {"none", "stale", "listening"} /\ link \in {"down", "queued", "up"}
          /\ pair \in Pairs /\ served \subseteq 1 .. Torn
      BY DEF Init
    <2>4. shutdown_req \in BOOLEAN /\ wiped \in BOOLEAN
      BY DEF Init
    <2> QED BY <1>1, <2>1, <2>2, <2>3, <2>4 DEF TypeOK
  <1>3. Placed /\ Holding /\ GoesOn /\ Trying /\ Hearing /\ GivenBack
    BY <1>0, SetupAssumption
    DEF Init, Placed, Holding, GoesOn, Trying, Hearing, GivenBack, Programs, Serving
  <1>4. InTurn /\ Unmet /\ TableOfThisRun
    BY <1>0, <1>1, SetupAssumption
    DEF Init, InTurn, Unmet, TableOfThisRun, Programs, Serving, Torn, Nobody
  <1> QED BY <1>2, <1>3, <1>4 DEF IInv, Account, Meeting

(* Every step keeps the invariant.                                         *)
LEMMA NextIInv == IInv /\ [Next]_vars => IInv'
  BY TypeStep, HoldStep, TableStep DEF IInv

(* The inductive invariant holds in every reachable state.                 *)
THEOREM Invariance == Safety => []IInv
  BY InitIInv, NextIInv, PTL DEF Safety

(* A client that is connected has parsed the table of this run's server,   *)
(* and no DRIVER_OK it has set is erased.                                  *)
THEOREM ClientsTable == Safety => []TableOfThisRun
  <1>1. IInv => TableOfThisRun
    BY DEF IInv, Account, Meeting
  <1> QED BY <1>1, Invariance, PTL

(* Whichever calls of platform_init, platform_create_rpmsg_vdev and        *)
(* rpmsg_init_vdev fail, a program that has ended has given back all but   *)
(* what Leaks names.                                                       *)
THEOREM AllGivenBack == Safety => []GivenBack
  <1>1. IInv => GivenBack
    BY DEF IInv, Account, Meeting
  <1> QED BY <1>1, Invariance, PTL

(* A device in a session has its interrupts registered, unless the bare    *)
(* metal registration has failed unnoticed.                                *)
THEOREM DeviceHears == Safety => []HearsDriver
  <1>1. IInv => HearsDriver
    <2> SUFFICES ASSUME IInv, pc["dev"] = "run", fail["dev"] # "irq" PROVE Reachable
      BY DEF HearsDriver
    <2>1. CASE pair.dev = "r5"
      BY <2>1 DEF IInv, Account, Hearing, Serving, Reachable
    <2>2. CASE pair.dev = "lg"
      BY <2>2 DEF IInv, Account, Hearing, Serving, Reachable
    <2> QED BY <2>1, <2>2, PairShape DEF IInv, TypeOK
  <1> QED BY <1>1, Invariance, PTL

(* Every session starts on a DRIVER_OK that no session before has started  *)
(* on, and on Linux on that of this run's client.                          *)
THEOREM SessionsFresh == Safety => FreshDriver
  <1>1. IInv /\ [Next]_vars => [InitDevice /\ pc'["dev"] = "run" =>
                                   /\ copy = Nobody => table.ok \notin served
                                   /\ pair.dev = "lg" => table.ok = run]_vars
    <2> SUFFICES ASSUME IInv, InitDevice
                 PROVE  /\ copy = Nobody => table.ok \notin served
                        /\ pair.dev = "lg" => table.ok = run
      OBVIOUS
    <2>1. pair.dev = "lg" => table.ok = run
      BY DriverMet
    <2>2. copy = Nobody => table.ok \notin served
      BY DEF IInv, Meeting, Unmet, InitDevice, At
    <2> QED BY <2>1, <2>2
  <1> QED BY <1>1, Invariance, PTL DEF Safety, FreshDriver
=============================================================================
