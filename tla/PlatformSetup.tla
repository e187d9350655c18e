--------------------------- MODULE PlatformSetup ---------------------------
(***************************************************************************)
(* How two programs of legacy_apps set up their platforms, meet through    *)
(* the resource table and give everything back: platform_init,             *)
(* platform_create_rpmsg_vdev, platform_release_rpmsg_vdev and             *)
(* platform_cleanup of three ports, and the main programs that call them.  *)
(*                                                                         *)
(*   r5       machine/xlnx/zynqmp_r5: the VIRTIO device (echo, matrix).    *)
(*            As a FreeRTOS task it serves one session after the other     *)
(*   zl_ipi   machine/xlnx/zynqmp: Linux user space, the VIRTIO driver     *)
(*   zl_poll  (ping), with IPIs or with polling (RPMSG_NO_IPI)             *)
(*   lg       system/linux/machine/generic: two Linux processes with a     *)
(*            shared file and a socket; the server is the device           *)
(*                                                                         *)
(* The device goes on once the driver has set DRIVER_OK in the resource    *)
(* table.  That table outlasts programs: the shared file keeps what an     *)
(* earlier run left, and the R5 starts session after session on the same   *)
(* table.  A step is a function of the source or, where the other program  *)
(* or a failing call comes in between, a part of one.                      *)
(***************************************************************************)
EXTENDS Integers

CONSTANTS
    Pairs,     \* the pairs of programs to consider
    MaxRuns,   \* driver programs started one after the other
    MaxTries,  \* connection attempts of a client: 100 in the code
    Faults     \* the calls that may fail

FaultPoints == {"irq", "ctrl", "register", "open", "io", "poll", "poll_io", "ipi", "ipi_io",
                "setup", "shm", "bind", "mmap", "table", "alloc", "get_io", "virtio", "vdev"}

(* Of a pair: the device's port and main program, and the driver's port.   *)
AllPairs == {[dev |-> "r5", main |-> m, drv |-> d] :
                 m \in {"task", "echo"}, d \in {"zl_ipi", "zl_poll"}}
            \cup {[dev |-> "lg", main |-> "echo", drv |-> "lg"]}

ASSUME SetupAssumption == /\ Pairs \subseteq AllPairs
                          /\ MaxRuns \in Nat \ {0}
                          /\ MaxTries \in Nat \ {0}
                          /\ Faults \subseteq FaultPoints

VARIABLES
    pair,          \* the pair of this behaviour
    pc, held,      \* of each program: where it is, and what it has and must give back
    fail,          \* of each program: the call that failed, or "no"
    run,           \* number of the driver program running
    tries,         \* connections it has attempted
    table,         \* the resource table: run that wrote it, run that set DRIVER_OK
    copy,          \* initial_resources: DRIVER_OK in the copy of the table
    sock, link,    \* path of the socket, and the connection
    shutdown_req,  \* static flag of the device's application
    parsed,        \* history: whose table the driver has parsed
    served,        \* history: the driver runs on whose DRIVER_OK a session has started
    wiped          \* history: a DRIVER_OK was erased before the device had seen it

vars == <<pair, pc, held, fail, run, tries, table, copy, sock, link, shutdown_req,
          parsed, served, wiped>>

Programs == {"dev", "drv"}
Runs     == 1 .. MaxRuns
Torn     == MaxRuns + 1      \* a table being written
Nobody   == 0                \* DRIVER_OK is not set; an earlier run's table

Port(p) == pair[p]
Main(p) == IF p = "dev" THEN pair.main ELSE "ping"

(* Whatever a run before these has left: a table with DRIVER_OK or without *)
(* (a kernel that loads the R5's firmware resets it), and the socket's     *)
(* path.                                                                   *)
Init ==
    /\ pair \in Pairs
    /\ pc = [p \in Programs |-> "init"]
    /\ held = [p \in Programs |-> {}] /\ fail = [p \in Programs |-> "no"]
    /\ run = 1 /\ tries = 0
    /\ table \in IF pair.dev = "lg"
                 THEN {[by |-> b, ok |-> k] : b \in {Nobody, Torn}, k \in {Nobody, Torn}}
                 ELSE {[by |-> Nobody, ok |-> Nobody]}
    /\ copy = Nobody
    /\ sock \in IF pair.dev = "lg" THEN {"none", "stale"} ELSE {"none"}
    /\ link = "down"
    /\ shutdown_req = FALSE
    /\ parsed = Nobody /\ served = {} /\ wiped = FALSE
-----------------------------------------------------------------------------
(* Of a step of a program.                                                 *)

At(p, label)     == pc[p] = label
Goto(p, label)   == pc' = [pc EXCEPT ![p] = label]
Take(p, what)    == held' = [held EXCEPT ![p] = @ \cup what]
Give(p, what)    == held' = [held EXCEPT ![p] = @ \ what]
Works            == UNCHANGED fail
Fails(p, call)   == /\ call \in Faults
                    /\ fail' = [fail EXCEPT ![p] = call]

(* After a failed platform_init the servers' mains return, and the pings'  *)
(* go on to platform_cleanup.                                              *)
GivesUp(p) == Goto(p, IF Main(p) = "ping" THEN "cleanup" ELSE "ended")

TableVars   == <<table, copy, wiped>>
SocketVars  == <<tries, sock, link>>
SessionVars == <<shutdown_req, parsed, served>>

Local == UNCHANGED <<pair, run, TableVars, SocketVars, SessionVars>>
-----------------------------------------------------------------------------
(* platform_init and what it calls.                                        *)

(* The R5 copies the table first, whatever it holds by then; Linux only    *)
(* initialises libmetal.                                                   *)
get_resource_table(p) ==
    /\ At(p, "init") /\ Port(p) = "r5"
    /\ copy' = table.ok /\ Take(p, {"copy"}) /\ Goto(p, "machine") /\ Works
    /\ UNCHANGED <<pair, run, table, wiped, SocketVars, SessionVars>>

init_system(p) ==
    /\ At(p, "init") /\ Port(p) # "r5"
    /\ Take(p, {"metal"}) /\ Works
    /\ Goto(p, IF p = "dev" THEN "setup" ELSE "proc")
    /\ Local

(* What system_interrupt_register returns for a failure: on FreeRTOS       *)
(* -EINVAL, on bare metal XST_FAILURE, which is 1.  platform_init takes a  *)
(* negative result for an error, and otherwise goes on.                    *)
system_interrupt_register(p) == IF Main(p) = "task" THEN -22 ELSE 1

MachineResult(p, ret) == IF ret < 0 THEN GivesUp(p) ELSE Goto(p, "proc")

(* Mutation: a failed registration of the controller is not noticed.       *)
MachineIgnores(p) ==
    /\ At(p, "machine")
    /\ \/ Take(p, {"metal", "isr", "irqc"}) /\ Works
       \/ Fails(p, "ctrl") /\ Take(p, {"metal", "isr"})
    /\ MachineResult(p, 0) /\ Local

xlnx_machine_init(p) ==
    /\ At(p, "machine")
    /\ \/ Take(p, {"metal", "isr", "irqc"}) /\ MachineResult(p, 0) /\ Works
       \/ /\ Fails(p, "irq") /\ Take(p, {"metal"})
          /\ MachineResult(p, system_interrupt_register(p))
       \/ Fails(p, "ctrl") /\ Take(p, {"metal", "isr"}) /\ MachineResult(p, -1)
    /\ Local

(* zynqmp_r5_a53_proc_init, after the registration of the device.  Without *)
(* the controller metal_irq_register fails, which nobody looks at.         *)
zynqmp_r5_a53_proc_init(p) ==
    /\ At(p, "proc") /\ Port(p) = "r5"
    /\ \/ /\ Take(p, {"open"} \cup IF "irqc" \in held[p] THEN {"handler"} ELSE {})
          /\ Goto(p, "mmap") /\ Works
       \/ \E call \in {"register", "open", "io"} :
             Fails(p, call) /\ GivesUp(p) /\ UNCHANGED held
    /\ Local

(* zynqmp_linux_r5_proc_init.  Its error labels close the shared memory    *)
(* device unless the poll device cannot be opened; they never close that   *)
(* one.                                                                    *)
zynqmp_linux_r5_proc_init(p) ==
    /\ At(p, "proc") /\ Port(p) \in {"zl_ipi", "zl_poll"}
    /\ \/ /\ Take(p, IF Port(p) = "zl_ipi" THEN {"shm", "open", "handler"} ELSE {"shm", "poll"})
          /\ Goto(p, "mmap") /\ Works
       \/ \E call \in {"open", "io"} : Fails(p, call) /\ GivesUp(p) /\ UNCHANGED held
       \/ /\ Port(p) = "zl_poll" /\ GivesUp(p)
          /\ \/ Fails(p, "poll") /\ Take(p, {"shm"})
             \/ Fails(p, "poll_io") /\ Take(p, {"poll"})
       \/ /\ Port(p) = "zl_ipi" /\ GivesUp(p) /\ UNCHANGED held
          /\ \E call \in {"ipi", "ipi_io"} : Fails(p, call)
    /\ Local

(* platform_device_setup_resource_table: only the server writes the table, *)
(* by a memcpy that a reader may see half done.                            *)
setup_resource_table(p) ==
    /\ At(p, "setup")
    /\ \/ /\ table' = [by |-> Torn, ok |-> table.ok]
          /\ Goto(p, "copying") /\ Works /\ UNCHANGED wiped
       \/ Fails(p, "setup") /\ GivesUp(p) /\ UNCHANGED <<table, wiped>>
    /\ UNCHANGED <<pair, held, run, copy, SocketVars, SessionVars>>

setup_resource_table_done(p) ==
    /\ At(p, "copying")
    /\ table' = [by |-> run, ok |-> Nobody]
    /\ wiped' = (wiped \/ table.ok = run)
    /\ Goto(p, "proc") /\ Works
    /\ UNCHANGED <<pair, held, run, copy, SocketVars, SessionVars>>

(* linux_proc_init up to the socket.  No path gives the mapping back.      *)
linux_proc_init(p) ==
    /\ At(p, "proc") /\ Port(p) = "lg"
    /\ \/ Take(p, {"shm"}) /\ Goto(p, IF p = "dev" THEN "bind" ELSE "connect") /\ Works
       \/ Fails(p, "shm") /\ GivesUp(p) /\ UNCHANGED held
    /\ Local

(* sk_unix_server: an old path is unlinked; connections queue up from      *)
(* listen on.                                                              *)
sk_unix_server_listen(p) ==
    /\ At(p, "bind")
    /\ \/ sock' = "listening" /\ Goto(p, "accept") /\ Works
       \/ Fails(p, "bind") /\ sock' = "none" /\ GivesUp(p)
    /\ UNCHANGED <<pair, held, run, tries, link, TableVars, SessionVars>>

sk_unix_server_accept(p) ==
    /\ At(p, "accept") /\ link = "queued"
    /\ link' = "up" /\ sock' = "stale"
    /\ Take(p, {"sock", "handler"}) /\ Goto(p, "mmap") /\ Works
    /\ UNCHANGED <<pair, run, tries, TableVars, SessionVars>>

(* Mutation: the path of an earlier run is taken for a server.             *)
ConnectedStale(p) ==
    /\ sock # "none" /\ link = "down"
    /\ link' = "queued" /\ Take(p, {"sock", "handler"}) /\ Goto(p, "mmap") /\ Works
    /\ UNCHANGED tries

(* event_open of the client: sk_unix_client again and again, up to the     *)
(* limit.  A connection needs somebody who listens, and no path of an      *)
(* earlier run has anybody.                                                *)
Connected(p) ==
    /\ sock = "listening" /\ link = "down"
    /\ link' = "queued" /\ Take(p, {"sock", "handler"}) /\ Goto(p, "mmap") /\ Works
    /\ UNCHANGED tries

Refused(p) ==
    /\ sock # "listening" \/ link # "down"
    /\ tries' = tries + 1
    /\ IF tries + 1 < MaxTries
       THEN Goto(p, "connect") /\ Works
       ELSE GivesUp(p) /\ fail' = [fail EXCEPT ![p] = "connect"]
    /\ UNCHANGED <<held, link>>

event_open(p) ==
    /\ At(p, "connect")
    /\ Connected(p) \/ Refused(p)
    /\ UNCHANGED <<pair, run, sock, TableVars, SessionVars>>

(* The end of platform_create_proc: the table is mapped and parsed.  One   *)
(* that cannot be parsed ends in remoteproc_remove, which calls the port's *)
(* remove.  Only the R5 allocates for a mapping, and it ignores a failure. *)
Mapped(p)      == IF Port(p) = "r5" THEN {"mems"} ELSE {}
RemovedProc(p) == held[p] \ {"handler", "open", "sock", "shm"}
Removed(p)     == held' = [held EXCEPT ![p] = RemovedProc(p)]

ProcFrame == UNCHANGED <<pair, run, TableVars, SocketVars, shutdown_req, served>>

R5CreateProc(p) ==
    /\ At(p, "mmap") /\ Port(p) = "r5"
    /\ \/ Take(p, Mapped(p)) /\ Goto(p, "create") /\ Works
       \/ Fails(p, "mmap") /\ Goto(p, "create") /\ UNCHANGED held
       \/ /\ Fails(p, "table") /\ GivesUp(p)
          /\ held' = [held EXCEPT ![p] = RemovedProc(p) \cup Mapped(p)]
    /\ Local

(* Mutation: the instance is given up without remoteproc_remove.           *)
ParseNoRemove(p) ==
    /\ At(p, "mmap") /\ Port(p) \in {"zl_ipi", "zl_poll"}
    /\ \/ parsed' = table.by /\ Goto(p, "create") /\ Works
       \/ Fails(p, "table") /\ GivesUp(p) /\ UNCHANGED parsed
    /\ UNCHANGED held /\ ProcFrame

(* Without the mapping zynqmp Linux gives up, with no remoteproc_remove.   *)
ZynqmpCreateProc(p) ==
    /\ At(p, "mmap") /\ Port(p) \in {"zl_ipi", "zl_poll"}
    /\ \/ parsed' = table.by /\ Goto(p, "create") /\ Works /\ UNCHANGED held
       \/ Fails(p, "mmap") /\ GivesUp(p) /\ UNCHANGED <<held, parsed>>
       \/ Fails(p, "table") /\ Removed(p) /\ GivesUp(p) /\ UNCHANGED parsed
    /\ ProcFrame

LinuxCreateProc(p) ==
    /\ At(p, "mmap") /\ Port(p) = "lg"
    /\ \/ /\ parsed' = (IF p = "drv" THEN table.by ELSE parsed)
          /\ Goto(p, "create") /\ Works /\ UNCHANGED held
       \/ Fails(p, "table") /\ Removed(p) /\ GivesUp(p) /\ UNCHANGED parsed
    /\ ProcFrame
-----------------------------------------------------------------------------
(* platform_create_rpmsg_vdev.                                             *)

(* Mutation: the table of the last session is used as it is.               *)
NotRestored(p) == UNCHANGED <<table, wiped>>

(* restore_initial_rsc_table: a driver that was too early is erased.       *)
Restored(p) ==
    /\ table' = [table EXCEPT !.ok = copy]
    /\ wiped' = (wiped \/ table.ok \notin served \cup {Nobody, copy})

(* Up to remoteproc_create_virtio; err1 frees the memory.                  *)
VdevMade(p)   == Take(p, {"rpvdev", "vdev"}) /\ Goto(p, "wait")
VdevFailed(p) == Goto(p, "cleanup") /\ UNCHANGED held

(* On the R5 there is no region for the buffers without the mapping.       *)
R5CreateVdev(p) ==
    /\ At(p, "create") /\ Port(p) = "r5" /\ Restored(p)
    /\ IF "mems" \in held[p]
       THEN \/ VdevMade(p) /\ Works
            \/ VdevFailed(p) /\ \E call \in {"alloc", "get_io", "virtio"} : Fails(p, call)
       ELSE VdevFailed(p) /\ Works
    /\ UNCHANGED <<pair, run, copy, SocketVars, SessionVars>>

LinuxCreateVdev(p) ==
    /\ At(p, "create") /\ Port(p) # "r5"
    /\ \/ VdevMade(p) /\ Works
       \/ VdevFailed(p) /\ \E call \in {"alloc", "get_io", "virtio"} : Fails(p, call)
    /\ Local

(* rpmsg_init_vdev (external): the device waits for DRIVER_OK, then sets   *)
(* up the queues.                                                          *)
InitDevice ==
    /\ At("dev", "wait") /\ table.ok # Nobody
    /\ \/ served' = served \cup {table.ok} /\ Goto("dev", "run") /\ Works
          /\ UNCHANGED held
       \/ /\ Fails("dev", "vdev") /\ Give("dev", {"rpvdev", "vdev"})
          /\ Goto("dev", "cleanup") /\ UNCHANGED served
    /\ UNCHANGED <<pair, run, TableVars, SocketVars, shutdown_req, parsed>>

(* The driver empties the rings and sets DRIVER_OK.                        *)
InitDriver ==
    /\ At("drv", "wait")
    /\ \/ table' = [table EXCEPT !.ok = run] /\ Goto("drv", "run") /\ Works
          /\ UNCHANGED held
       \/ /\ Fails("drv", "vdev") /\ Give("drv", {"rpvdev", "vdev"})
          /\ Goto("drv", "cleanup") /\ UNCHANGED table
    /\ UNCHANGED <<pair, run, copy, wiped, SocketVars, SessionVars>>
-----------------------------------------------------------------------------
(* The applications, as far as set-up and release depend on them.          *)

Reachable == IF pair.dev = "r5" THEN {"isr", "irqc", "handler"} \subseteq held["dev"]
                                ELSE "handler" \in held["dev"]

(* Mutation: the end of the driver's endpoint does not set shutdown_req.   *)
EchoAppDeaf ==
    /\ At("dev", "run") /\ Reachable /\ shutdown_req
    /\ Goto("dev", "release") /\ Works
    /\ UNCHANGED <<pair, held, run, TableVars, SocketVars, SessionVars>>

(* rpmsg_echo_app ends after the notification that finds shutdown_req set. *)
(* The driver's application sets it when it ends; no session clears it.    *)
rpmsg_echo_app ==
    /\ At("dev", "run") /\ Reachable
    /\ \/ shutdown_req
       \/ run \notin served \/ pc["drv"] \in {"release", "cleanup", "ended"}
    /\ shutdown_req' = TRUE /\ Goto("dev", "release") /\ Works
    /\ UNCHANGED <<pair, held, run, TableVars, SocketVars, parsed, served>>

(* app of the ping: it waits for the device's endpoint, works and leaves.  *)
app ==
    /\ At("drv", "run") /\ run \in served
    /\ Goto("drv", "release") /\ Works /\ UNCHANGED held /\ Local

(* A FreeRTOS task goes on to the next session.                            *)
AfterSession(p) == IF Main(p) = "task" THEN "create" ELSE "cleanup"

platform_release_rpmsg_vdev(p) ==
    /\ At(p, "release")
    /\ Give(p, {"rpvdev", "vdev"}) /\ Goto(p, AfterSession(p)) /\ Works
    /\ Local

(* The ping's mains pass on a pointer that platform_init has not set if it *)
(* failed: it is null or anything.                                         *)
Unset(p) == /\ Main(p) = "ping"
            /\ fail[p] \in FaultPoints \cup {"connect"}
            /\ fail[p] \notin {"alloc", "get_io", "virtio", "vdev"}

platform_cleanup(p) ==
    /\ At(p, "cleanup") /\ Works
    /\ \/ /\ held' = [held EXCEPT ![p] = (IF Unset(p) THEN @ ELSE RemovedProc(p))
                                         \ {"metal", "copy"}]
          /\ Goto(p, "ended")
       \/ Unset(p) /\ Goto(p, "undefined") /\ UNCHANGED held
    /\ Local

(* Another ping is started on Linux, while the R5 knows nothing of it.     *)
NewDriver ==
    /\ pair.dev = "r5" /\ pc["drv"] = "ended" /\ run < MaxRuns
    /\ run' = run + 1 /\ Goto("drv", "init")
    /\ held' = [held EXCEPT !["drv"] = {}] /\ fail' = [fail EXCEPT !["drv"] = "no"]
    /\ parsed' = Nobody
    /\ UNCHANGED <<pair, TableVars, SocketVars, shutdown_req, served>>

(* Both Linux processes are stopped, anywhere, and started again.  The     *)
(* kernel takes back all but the shared file and the path of the socket.   *)
Restart ==
    /\ pair.dev = "lg" /\ run < MaxRuns
    /\ run' = run + 1 /\ pc' = [p \in Programs |-> "init"]
    /\ held' = [p \in Programs |-> {}] /\ fail' = [p \in Programs |-> "no"]
    /\ tries' = 0 /\ link' = "down"
    /\ sock' = IF sock = "listening" THEN "stale" ELSE sock
    /\ shutdown_req' = FALSE /\ parsed' = Nobody
    /\ UNCHANGED <<pair, TableVars, served>>
-----------------------------------------------------------------------------
Steps(p) ==
    \/ get_resource_table(p) \/ init_system(p) \/ xlnx_machine_init(p)
    \/ zynqmp_r5_a53_proc_init(p) \/ zynqmp_linux_r5_proc_init(p)
    \/ setup_resource_table(p) \/ setup_resource_table_done(p) \/ linux_proc_init(p)
    \/ sk_unix_server_listen(p) \/ sk_unix_server_accept(p) \/ event_open(p)
    \/ R5CreateProc(p) \/ ZynqmpCreateProc(p) \/ LinuxCreateProc(p)
    \/ R5CreateVdev(p) \/ LinuxCreateVdev(p)
    \/ platform_release_rpmsg_vdev(p) \/ platform_cleanup(p)

Device == Steps("dev") \/ InitDevice \/ rpmsg_echo_app
Driver == Steps("drv") \/ InitDriver \/ app

Next == Device \/ Driver \/ NewDriver \/ Restart

Safety == Init /\ [][Next]_vars

(* Both programs run; nobody has to start another one.                     *)
Spec == Safety /\ WF_vars(Device) /\ WF_vars(Driver)
-----------------------------------------------------------------------------
Labels == {"init", "machine", "setup", "copying", "proc", "bind", "accept", "connect",
           "mmap", "create", "wait", "run", "release", "cleanup", "ended", "undefined"}
Resources == {"copy", "metal", "isr", "irqc", "open", "shm", "poll", "sock", "handler",
              "mems", "rpvdev", "vdev"}

(* Types.                                                                  *)
TypeOK ==
    /\ pair \in Pairs
    /\ pc \in [Programs -> Labels] /\ held \in [Programs -> SUBSET Resources]
    /\ fail \in [Programs -> FaultPoints \cup {"no", "connect"}]
    /\ run \in Runs /\ tries \in 0 .. MaxTries
    /\ table \in [by : 0 .. Torn, ok : 0 .. Torn] /\ copy \in 0 .. MaxRuns
    /\ sock \in {"none", "stale", "listening"} /\ link \in {"down", "queued", "up"}
    /\ shutdown_req \in BOOLEAN /\ parsed \in 0 .. Torn
    /\ served \subseteq 1 .. Torn /\ wiped \in BOOLEAN

(* Every session of the device starts on a DRIVER_OK of its own: on the    *)
(* R5 on one that a later driver has set, on Linux on that of the client   *)
(* of this run, never on what an earlier session or run has left in the    *)
(* table.  The R5 depends on a copy made before any driver was up.         *)
FreshDriver ==
    [][InitDevice /\ pc'["dev"] = "run" =>
           /\ copy = Nobody => table.ok \notin served
           /\ pair.dev = "lg" => table.ok = run]_vars

(* A client that is connected finds the whole table of this run's server,  *)
(* whatever earlier runs have left in the file and under the path of the   *)
(* socket, and nothing it writes there is erased.                          *)
TableOfThisRun ==
    pair.dev = "lg" =>
        /\ pc["drv"] \in {"create", "wait", "run", "release"} => parsed = run
        /\ ~wiped

(* What a program that has ended has not given back, after whichever call  *)
(* has failed: neither device nor shared memory, and no handler that an    *)
(* interrupt could still enter, with the exceptions named here.            *)
Leaks(p) ==
    (IF Main(p) # "ping" /\ fail[p] \in FaultPoints \ {"alloc", "get_io", "virtio", "vdev"}
     THEN {"metal", "copy"} ELSE {})
    \cup (IF Port(p) = "r5" THEN {"isr", "irqc", "mems"} ELSE {})
    \cup (IF Port(p) = "zl_poll" THEN {"poll"} ELSE {})
    \cup (IF fail[p] \in {"bind", "connect", "poll"} THEN {"shm"} ELSE {})
    \cup (IF Port(p) = "zl_ipi" /\ fail[p] = "mmap" THEN {"shm", "open", "handler"} ELSE {})
    \cup (IF Port(p) = "zl_poll" /\ fail[p] = "mmap" THEN {"shm"} ELSE {})

GivenBack == \A p \in Programs : pc[p] = "ended" => held[p] \subseteq Leaks(p)

(* A device that serves a session can be notified, unless the bare-metal   *)
(* registration of its interrupt has failed.                               *)
HearsDriver == pc["dev"] = "run" /\ fail["dev"] # "irq" => Reachable

(* Every driver program gets a session, unless a call of one of the two    *)
(* programs has failed, it has set DRIVER_OK before the R5 was ready for   *)
(* it, or the R5 serves no further session; on Linux a client that has not *)
(* run out of attempts always gets one.                                    *)
Excused == \/ \E p \in Programs : fail[p] # "no"
           \/ pair.dev = "r5" /\ (wiped \/ copy # Nobody \/ pc["dev"] = "ended")
EachRunMet == \A r \in Runs : (run = r) ~> (r \in served \/ Excused \/ run # r)
=============================================================================
