# OpenAMP system reference: TLA+ models

The repository holds reference applications for asymmetric multiprocessing: two
processors (a Linux or Zephyr host and a remote core running bare metal,
FreeRTOS or Zephyr) that talk through shared memory and interrupts, directly
with libmetal or through the rpmsg rings of the OpenAMP library. OpenAMP,
libmetal, FreeRTOS and Zephyr themselves are not part of the repository; they
appear here as far as the applications depend on them, and are marked external
in `PROJECT.json`.

Paths below are relative to `src/examples/`.

## Inventory

| component | state | operations | what is hard |
|---|---|---|---|
| libmetal irq_shmem demo (`libmetal/demos`, `libmetal/machine`) | two descriptors with avail and used counters, two payload halves, IPI status and enable bits, one flag per side | host: clear, send loop, verify loop, shutdown; remote: boot, wait, echo, clean up; two interrupt handlers | four threads of control on unsynchronised memory; wait primitives that race with the handler; start order; clearing of the window |
| notification path of legacy_apps (`legacy_apps/machine`, `legacy_apps/system`) | `ipi_nokick` flag, IPI status / socket bytes / polled word, task state | init, remove, notify, interrupt handler, `platform_poll`, `system_suspend` | test of the flag against the handler, sleeping task, pending interrupts of earlier runs, merging of kicks |
| set-up, sessions and release of a platform (same directories, and the `main`s) | metal devices, handler, remoteproc instance, mappings; the resource table with `DRIVER_OK`; for Linux a shared file and a socket path that outlast the processes | `platform_init`, `platform_create_proc`, `platform_create_rpmsg_vdev`, release, cleanup, next session, another driver program | failing branches that must undo what was done; what earlier sessions and runs left behind; who is ready first |
| echo, ping, flood, sample, matrix (`legacy_apps/examples`, `legacy_apps/tests`) | endpoint, `rnum`, `err_cnt`, `ept_deleted`, `shutdown_req` | application loop, endpoint callback, bind, unbind | bounded rings, notifications that merge, who ends first, failing sends |
| nocopy echo and update (`legacy_apps/examples/nocopy_echo`, `legacy_apps/tests/msg`) | list of held receive buffers, zero-copy transmit buffers | hold, release, get, send, release on failure | each buffer owned by exactly one side, partial failure |
| rpc demos (`legacy_apps/examples/rpc_demo`, `linux_rpc_demo`, `linux/rpmsg-proxy-app`) | request tables, response globals, open descriptors, signal flags | open, read, write, close, input, terminate | late responses, failed sends, signals during the loop |
| load_fw (`legacy_apps/examples/load_fw`) | remoteproc state, mapped regions, requested memory banks, power of the core | blocking and non-blocking load, request of banks by address, start, stop, shutdown, remove | two loads on one instance, a failure in the middle of a load, bounds of banks and of the address space |
| Zephyr rpmsg_multi_services | four threads, four semaphores, one message slot per endpoint | callbacks, service threads, bind and unbind | one slot, binary semaphores, held buffers |
| Zephyr dual_qemu_ivshmem | event loop, `rx_sem` | back-end event thread, shell command | timeout against a late answer |
| other Linux user-space tools | file descriptors | sequences of ioctl, read and write | little concurrency |

The properties that make each part correct:

* irq_shmem: only completely written messages are published, no kick is lost, no
  check fails without a cause, a reported success is a success, the demo ends.
* notification path: no kick is forgotten, no sleeper is left asleep, the
  handler runs only while its instance exists; together, the path behaves as a
  mailbox that delivers.
* platform set-up: a session starts on a driver of its own and never on what an
  earlier one left in the table; whichever call fails, what was taken is given
  back; a device that serves can be notified; every driver gets a session.
* echo demonstrations: a report without errors means every answer was seen; no
  false alarm; the server's end does not overtake an answer; both sides end.
* nocopy: every buffer has one owner, and is released or sent exactly once; a
  report without errors is true of the messages sent, and of all of them unless a
  failed call goes uncounted; neither side is left waiting.
* rpc: a response is the response to the request that waits for it; both sides
  end after terminate.
* load_fw: only requested banks are written, only complete executables are
  started, a failed load leaves the core down.
* multi services: no message is overwritten before it is taken, no buffer leaked.
* ivshmem: an answer is credited to the command that asked for it.

`PROJECT.json` lists the hazards at their lines with the properties aimed at
them.

## Modules

### IrqShmemDemo

`libmetal/demos/irq_shmem_demo` with both platform layers. One variable per
piece of shared or program state: `h2r`, `r2h` (descriptors), `payH`, `payR`
(payload halves), `hIsr`/`hIer`/`rIsr`/`rIer` (IPI status and enable bits), the
locals of `irq_shmem_echo` and `demo`, the flags `remote_nkicked` and
`irq_pending`, FreeRTOS' task state. Every store to and every load from the
window is a step of its own, because the order of those accesses is what the
protocol consists of. The host's handler runs in libmetal's interrupt thread,
concurrently with the main thread, but not inside a section with interrupts
disabled; the remote's handler preempts its task. A message is 16 bytes, so an
offset is a cell number. An address array entry that was cleared translates to
no offset. A message body is `stamp`, `shutdown` or `zero`.

Constants choose the OS port (`Os`), whether the host starts only once the remote
waits (`HostWaits`, the order the README of the machine prescribes) and whether
devices and allocations may fail (`Faults`). A `wfi` ends with the IPI, and may end
without it (`WfiEnds`), as the architecture allows; but nothing makes it end so.

### PlatformPoll and Mailbox

`Mailbox` is the abstract promise: what is put is delivered, once, in order and
without a further kick. `PlatformPoll` is the code of five ports
(`r5_freertos`, `r5_generic`, `zynqmp_linux`, `linux_generic`, `no_ipi`): the
peer puts a message and notifies, the handler runs in the order of its
statements, the application's task runs `platform_poll` with the test-and-set,
`system_suspend` and the restore as separate steps. The port is a variable set
by `Init`, so one run and one theorem cover all five. `Delivers` is
`Mailbox!Spec` under the refinement mapping `put <- put, got <- got`: `put` counts
what the peer has placed in the ring before it notifies, `got` what the dispatch
has taken out.

### PlatformSetup

The same ports before and after the notification path is in use, and the `main`s:
`r5` (the device; as a FreeRTOS task it serves one session after the other, bare
metal serves one), `zl_ipi` and `zl_poll` (a ping in Linux user space with IPIs or
polling) and `lg` (two Linux processes). `pair` says who meets whom. Each program
has a label `pc` and the set `held` of what it has taken and must give back; a
step is a function of the source, divided where the other program can come in
between (the copying of the table, listen and accept, each attempt to connect).
`table` is the resource table: which run has written it (or that it is half
written) and which run's driver has set `DRIVER_OK`. `copy` is `initial_resources`
of the R5. `NewDriver` starts another ping against an R5 that goes on running;
`Restart` stops both Linux processes anywhere and starts them again, with the file
and the socket's path as they were. Which of the calls has failed is in `fail`;
after a `platform_init` that failed the pings clean up an uninitialised pointer,
which is null or anything (label `undefined`). Applications are one step each: the
device's ends when `shutdown_req` is set, as `rpmsg_echo_app` and
`rpmsg_matrix_app` do, and the flag is carried from session to session.
`rpmsg_init_vdev` is the library's. `parsed`, `served` and `wiped` are history
variables.

### RpmsgEcho

The clients `ping`, `flood`, `matrix`, `sample` and their servers; `ping` and
`flood` also against `rpmsg-update.c` (`retrying`), which sends an answer again
inside its callback until there is a buffer. The rings
are FIFOs of `NBuf` buffers; a buffer is free when the callback for its message
has returned, so a client that is notified by the answer may still find no
buffer. `platform_poll` is the contract PlatformPoll establishes: it blocks
until a notification is latched, then dispatches until the ring is empty. A
send and its notification are one step here; PlatformPoll separates them. A
payload is its number and round; a matrix result is the number of the pair it
belongs to. The server's reaction to `SHUTDOWN_MSG` is not modelled: none of
the four clients sends it. `verified` is a history variable: which answers the
client's callback accepted. In a `faulty` run endpoint creation, allocation,
client sends and server answers may fail; `Faults` says which runs there are.

### NocopyBuffers

The zero-copy ping and echo, in the variant of the examples and in that of the
tests. Buffers have identities: `place` says whether a buffer is free, taken by
its sender's application, in the ring, or held by its receiver's application,
and `mem` what it contains, so that a message read from a buffer that has gone
back to its sender is seen to change. The library hands out any free buffer.
`rpmsg_list`, `rcv_msg`, `buff_list` (`cList`, `sList`) and `i_payload` hold
buffers, as in the code; the lost buffer of the tests is what is left of
`buff_list`. A program may lose its endpoint to its peer's end: the client's is
destroyed by `rpmsg_service_unbind` (`CUnbind`; `ept_deleted` is `cEpt = "none"`),
which ends its wait and its loop. An `app` that returns early, after a failed call,
is at `leave`: it reports nothing and leaves its endpoint to `main`, which ends it
with the device. `faults`, one of `FaultSets`, is the set of calls that may fail in a
behaviour. `MCNocopyBuffers` gives two of them (no call fails; every call but the
discards of the tests' server may) and adds the symmetry of the buffers.

### RpcDemo and RemoteCall

The two remote procedure call demonstrations and the Linux proxy application:
`linux_rpc_demo` with `linux_rpc_demod`, `rpc_demo` with `rpc_demod`, and
`rpc_demo` with `proxy_app`; `pair` is set by `Init`. The client is the sequence
of statements of `app` (`cpc`), each of which makes one call; `call` says whether
it waits. `rpmsg_open`, `rpmsg_read`, `rpmsg_write`, `rpmsg_close` and
`rpmsg_input` differ in what they do when the send fails (retry, give up, wait
all the same), which is where their actions differ too. The retargeted C library
used by `rpc_demo.c` is external: a call sends, waits for its response and
returns an error if it cannot send. The server handles a request in two steps,
the system call and the response, so that a signal can fall between them. Its
file system is a file that holds the string a number of times and the set of open
descriptors. In a `faulty` run the operations in `Faults` may fail and one
signal of `Signals` may arrive, at any moment. `printf`, which is a request of its
own in `rpc_demo.c` and local in `linux_rpc_demo.c`, is left out, and so are
`main` of the other two servers. The proxy's search for its channel and character
device is one step that may fail (`ProxyFind`; what `linux/common/common.c` does
under /sys is behind it), the opening of its endpoint and the allocation of `proxy`
another (`ProxyAlloc`), and a third sets `active` and sends the first message
(`ProxyCreate`): between the two a signal finds `proxy` but its store is overwritten
(`signal = "early"`). A read may fail for good (`ProxyReadFails`).
Since one call is under way at a time, buffers do not run out, and a
`platform_poll` that brings nothing changes nothing.

`RemoteCall` is what an application expects of all this: its handler runs at most
once for each call and only while the application is in this call, the response
that returns is the one of that run, and a call of which something is lost does
not return. The mapping takes `at` for the statement `cpc`, `store` for the file
and the open descriptors, and reads the `phase` of the call off the rings, the
server's `reply` and `wait_resp` (`Phase`). `ServedOnce` says that RpcDemo
implements it; it holds for the constants of `MCRpc.cfg` and is proved for all
(`AtMostOnce`).

### MultiServices

`zephyr/rpmsg_multi_services`: the remote's threads `rpmsg_mng_task` and the three
services for the Linux client sample, tty and char drivers. All four are
cooperative, so `cpu` names the thread that has not blocked yet, and a service
that becomes ready runs before `rpmsg_mng_task`; `rpmsg_send` without a free
buffer sleeps, which lets the others run. Semaphores are binary (`data_sem`,
`sem`). A received buffer is free, in the ring, or held in the one `slot` of an
endpoint; the client sample's message is copied instead (`cs_msg`). The second
tty device is created by a name service message (`new_service_cb`,
`rpmsg_service_unbind`) and may go and come back. Linux is external: a user of a
channel sends a message and waits for its answer, `Users` says which sets of
users are considered. `MCMultiServices` defines three groups that together use
every endpoint.

### IvshmemCmd

`zephyr/dual_qemu_ivshmem`: back-end, host and remote. Both sides start in steps,
each of which may fail; the status byte in shared memory may be what an earlier
run left there, and the remote is started after the host as `README.rst` demands.
A doorbell raises a `k_poll` signal; the event loop is woken, resets the signal
and dispatches, three steps between which the peer may ring again. The shell
command sends, waits at most five seconds for `rx_sem` and counts; in a `slow` run
an answer may be later than that. Only commands with a positive number of
messages are considered. `sent`, `first`, `echoed` and `expired` are history
variables.

### LoadFw

`load_fw`: `main` with the blocking and the non-blocking load, for the two R5 cores
(`RPU_0`, `RPU_1`) and an A53 (`APU`), with and without
`RPU_BOOT_LINUX`. An executable is a sequence of segments; addresses are counted in
half banks of 0x8000 bytes modulo 2^32, which is enough to tell every bound in the
`mmap` operations apart. `Requests` and `Releases` are the comparisons of the code
with these addresses, literally: the translation of a core's own address, the
value METAL_BAD_PHYS for the end of a region and the wrap of an end to zero
included. The address of a region stays METAL_BAD_PHYS (`Bad`), the value both
programs hand in, where the operation does not set it: for every segment of an A53,
and for one behind the tightly coupled memories of an R5. Such a load fails, after
its banks have been requested and its region added. The walk through the ELF file, the list of regions and the states of an
instance are the library's (external). Every call of `FaultPoints` may fail: after
a refused wake-up the library may or may not take the core for running, and a core
may refuse to power down.

## Runs

| run | cfg | what it shows |
|---|---|---|
| `shmem_generic` | `MCShmemGeneric` | documented start order, bare metal: `TypeOK` (indices stay inside the arrays), `PublishedComplete`, `NoSpuriousFailure`, `ShutdownAfterEchoes`, `NoKickLost`, and `DoneOrOverslept`: both programs end, unless the remote sleeps for ever over a kick that was handled just before its `wfi` |
| `shmem_any_order` | `MCShmemAnyOrder` | FreeRTOS, any start order, faults: `HostSuccessSound`. Deadlock is not checked: in a wrong order the two sides may wait for ever |
| `shmem_freertos` | `MCShmemFreertos` | violation: the FreeRTOS wait loses a wake-up |
| `platform_poll` | `MCPlatformPoll` | all five ports: `NothingForgotten`, `SleeperWoken`, `HandlerWithinLife`, and the refinement `Delivers` |
| `rpmsg_echo` | `MCRpmsgEcho` | all four demonstrations and the retrying server, without faults (`LockstepHonest`, `NoFalseAlarm`, `ServerOutlivesWork`, `BothEnd`) and with them (`LockstepHonest` except for the flood test without the retrying server, `NoFalseAlarm`). Deadlock is not checked: a lost answer makes the client wait for ever |
| `nocopy` | `MCNocopy` | both variants; whatever call fails (but a discard of the tests' server, see the observations): `RxOwned`, `TxOwned`, `ReportHonest` (whose exceptions are failed calls that neither program counts, see the observations); where none fails: `ServerStopsLast`, `NeitherStuck`. Deadlock is not checked: a lost answer makes the client wait for ever |
| `rpc` | `MCRpc` | all three pairs, without faults (`OneAtATime`, `ClosedBehind`, `BothEnd`: both sides end with the file written and closed) and with every operation failing and any signal (`OneAtATime`, `ClosedBehind` for the Linux demo, `ProxyExits` for every signal that is not early). Deadlock is not checked: a lost response makes the client wait for ever |
| `rpc_signal` | `MCRpcSignal` | violation: `rpc_demod` and `linux_rpc_demod` go on polling after SIGTERM, SIGINT or SIGHUP |
| `multi_services` | `MCMultiServices` | three groups of users, without faults and with failing start and sends: no service reads or releases a buffer it does not hold (`SlotsHeld`), none is lost (`NoBufferLost`), answers go back where they came from (`AnswersMatch`), every message is answered and the client sample ends (`Answered`, unless two endpoints write to one address, see below). Deadlock is not checked: firmware waits for ever |
| `ivshmem` | `MCIvshmem` | any status byte left over, failing starts, late answers: `NoBellLost`, `StartSound`, `SuccessHonest`, `CmdEnds` (both sides become ready, and a command ends). Deadlock is not checked: the user may give no command |
| `platform_setup` | `MCPlatformSetup` | five pairs of programs, three driver runs, any call failing, any left-over: a session starts on a driver of its own (`FreshDriver`), a connected client finds the whole table of its own server (`TableOfThisRun`), nothing is leaked but what `Leaks` names (`GivenBack`), a device that serves can be notified (`HearsDriver`), every driver gets a session unless something `Excused` names has happened (`EachRunMet`). Deadlock is not checked: a server may wait for a client that has gone |
| `load_fw` | `MCLoadFw` | executables of one or two segments on both sides of the banks' bounds, for three cores, loaded twice: only an R5's memory is written, at an address that is one, and no bank that is not requested (`WrittenRequested`), no core is woken up without its whole executable or while it is up (`StartComplete`), whatever fails the core is left down and its regions are gone (`LeftDown`). Deadlock is checked |

The violation runs are explained under "findings" in `PROJECT.json`, with the
sentence of the repository each one contradicts.

### Bounds

* `PKGS_TOTAL = 3`, `Slots = 4` (1024 and 4094 in the code): a first, a middle
  and a last package, each direction with several packages in flight, and the
  assumption `Slots > PKGS_TOTAL` the code relies on. The proofs hold for every
  value.
* `MaxMsgs = 4`, `ReadMax = 2` (32 in the code): more kicks in the socket than
  one read takes, a kick during every step of the handler and of
  `platform_poll`.
* `N = 4`, `Rounds = 2`, `NBuf = 2`: twice as many messages as buffers, so the
  flood test blocks for a buffer; two payload sizes, so answers could be
  credited to the wrong round. With one buffer per direction the flood test
  could stall (the notification precedes the release of the buffer); the
  repository's rings have 16 or 256, hence the assumption `NBuf > 1`.
* Three buffers per direction, `MaxTx = 2` (10 in the code), `Every = 2` (13 in
  the code), `N = 3`: with one buffer lost and one taken to be given back there
  is one left, so a leak of a single buffer stops the test; messages with and
  without the extra buffer, on both sides.
* PlatformSetup: `MaxRuns = 3`: a run, one that meets what the first has left, and
  one that meets what a session on left-overs has left. `MaxTries = 3` (100 in the
  code): a client that connects at once, after a refusal, and never.
* LoadFw: `MaxSegments = 2`: two segments in one region, in touching banks, and one
  that has an address before one that has not; segments start and end on, before and
  behind a bound of a bank, and one lies behind the tightly coupled memories.
* `MaxRepeat = 2`: the user starts again twice, by an unusable answer or by
  asking for it. The file part of the demonstration runs once, before that loop;
  `remote.file` may exist from an earlier run.
* MultiServices: `MSGS = 2` (100 in the code), three receive and two transmit
  buffers, `MaxUses = 4`: three users at once, a service that sleeps for a
  transmit buffer while another is woken, and a device that is created, used,
  released and created again.
* IvshmemCmd: `NBuf = 2` (16 in the code), `MaxN = 2`, `MaxMsgs = 4`: two commands
  of two messages, so that an answer that is late can meet the next message and
  the next command.

### Fairness

* IrqShmemDemo: weak fairness of the host's main thread and interrupt thread
  (scheduled by Linux), of the remote's task (alone on its core) and of its
  handler (a pending enabled interrupt is taken). `WfiEnds` has none: the
  bare-metal start enables only the IPI, so that no other interrupt can be counted
  on, and `DoneOrOverslept` says what is left (see the observations below).
* PlatformPoll: weak fairness of the task and of a notify already begun; strong
  fairness of the handler, since `platform_poll` disables and enables
  interrupts again and again and an interrupt that stays pending is taken when
  they are enabled (on Linux: the thread gets the lock that libmetal holds
  around handlers). Nothing makes the peer send.
* PlatformSetup: weak fairness of the device's and of the driver's program, which
  run on cores or in processes of their own. Nobody has to start another driver or
  to stop a process.
* RpmsgEcho and RpcDemo: weak fairness of each side, which run on cores or in
  processes of their own. In RpcDemo the user answers every prompt; nothing
  makes a signal arrive.
* NocopyBuffers and LoadFw state none: `NeitherStuck` is an invariant (while not
  both programs have ended one of them has a step), and `LeftDown` speaks of the
  moment `main` returns.
* MultiServices: weak fairness of the host's drivers and of the remote's threads
  and interrupt; nothing makes a user send, and what users may do is bounded by
  `MaxUses`.
* IvshmemCmd: weak fairness of each thread, event loop and doorbell; nothing makes
  the user give a command.

## Proofs

Each `M_proofs` extends the module `M` and proves, for every value of the
constants that the `ASSUME`s of `M` allow, the safety properties the runs check on
small instances. `Remoteproc_proofs` is about both PlatformPoll and LoadFw, which
have nothing but the remote processor in common: it extends the two and names
their invariants `IInv` and `LoadInv`. All follow the same lines: an inductive invariant (`IInv`), one
lemma for the initial state, lemmas that say that a step, taken action by action,
keeps each part of it, a theorem that it holds in every reachable state, and from
it the theorems below. The invariants were model-checked before they were proved.

| module | theorems | for every |
|---|---|---|
| `IrqShmemDemo_proofs` | `TypeCorrect`, `HostSuccess`; in the documented order `OnlyCompletePublished`, `ChecksSucceed`, `ShutdownLast`, `KicksArrive` | number of packages, OS port; the first two also start order and faults |
| `Remoteproc_proofs` | `KickKept`, `Woken`, `WithinLife`, `RefinesMailbox`; `MainLeavesDown`, `StartsComplete`, `WritesRequested` | set of ports, number of messages, size of a read; executables, failing calls |
| `PlatformSetup_proofs` | `ClientsTable`, `AllGivenBack`, `DeviceHears`, `SessionsFresh` | number of runs and of attempts to connect, failing call, left-over |
| `RpmsgEcho_proofs` | `ReportsHonest`, `AlarmsAreReal`, `ServerStaysLongEnough`, `TypeCorrect` | number of messages, of payload sizes and of buffers, with and without faults |
| `NocopyBuffers_proofs` | `ReceiversOwn`, `SendersOwn`, `ReportsHonest`, `ServersStopLast`, `NoDeadlock` | sets of buffers, number of messages and of extra transmit buffers, failing calls |
| `RpcDemo_proofs` | `OneCall`, `NothingLeftOpen`, `WorkDone`, `AtMostOnce`, `NoLostCall`, `TypeCorrect` | number of repetitions, pairs, failing operations, signals |
| `MultiServices_proofs` | `SlotsAreHeld`, `NoBufferIsLost`, `AnswersDoMatch`, `TypeCorrect` | number of buffers, messages and uses of the devices, set of users |
| `IvshmemCmd_proofs` | `BellsKept`, `StartsSound`, `HonestSuccess`, `TypeCorrect` | size of the rings, number of messages |

Why the properties are not inductive themselves, and what had to be added:

* irq_shmem. An index stays in range only because counters, offsets and the
  program counter move together (`HostPhase`, `RemotePhase`, `Published`). A
  success of the host rests on cells that it has verified and that nothing the
  remote may still do, a late clearing of the window included, changes (`Echoed`,
  `Messages`). In the documented order (`Documented`: the host starts once the
  remote waits, nothing fails) a second invariant, `DInv`, adds that nothing is
  cleared any more once messages are written (`InOrder`), that a message is
  complete before it is counted (`Filled`, `Answered`), what the host has counted
  (`Counted`), and that a side behind a counter is being notified (`Notified`),
  which needs the echoes that come while the host still sends. Both OS ports are
  covered; for FreeRTOS the first half of `NoKickLost` says nothing, since its
  `irq_pending` is never set.
* notification path. `TypeOK /\ Critical /\ Sleeping /\ InHandler /\ Kicks /\
  NothingForgotten`: which steps run with interrupts disabled, that a suspended
  task is at its suspension point, what has happened at each point of the handler,
  and how many bytes the socket may hold.
* platform set-up. `Account` follows one program: what it holds at each step, given
  its port and the call that has failed. `Meeting` relates the two: on Linux a
  client is connected only after the server has written its table, and no table,
  copy or session knows of a driver before its `DRIVER_OK`.
* echo demonstrations. Each side does only what its place in its loop allows
  (`Stages`); an announcement is the first and a farewell the last that is heard of
  an endpoint (`Order`). The tests that wait for each answer have at most one
  message in flight, the one they wait for (`Lockstep`), and have verified exactly
  the earlier ones (`Verified`); the sample's server has counted as far as its
  client, or one further while the answer is under way (`Counting`). The flood test
  keeps a window: if every message is answered, what was received, what is in the
  two rings and what was sent fit together without a gap, and only then does the
  number of the last answer stand for all of them (`Flood`).
* nocopy. The rings and the server's list name exactly the buffers that `place`
  puts there, each once (`Rings`, `Lists`); one message at most is on its way, the
  client's latest (`Flow`); messages are checked one after the other (`Rounds`); a transmit
  buffer is taken only while a program has it in hand or in the test's array
  (`ClientTakes`, `ServerTakes`); the request to stop is the last message (`Stops`).
  That the two never wait for each other (`NoDeadlock`) needs a second invariant
  (`Live`): announcements come first and farewells last (`First`, `Last`), no
  message is without its notification (`Kicks`), and who sleeps has nothing left to
  do and something to wait for (`Waiting`); the rest is counting buffers.
* rpc. A ring holds nothing but the request of the running statement, or its
  response (`Rings`), and nothing at all of a call that is over (`Flow`), which is
  what makes the next response the right one although responses are not compared
  with their request. Nothing is called before the announcement (`Meeting`); without
  a fault the server serves until the client ends (`Peaceful`). What the server has
  open is what the client knows or will be told by the response under way
  (`Descriptors`, which holds for the Linux pair under faults too); the file is
  there once it is opened and written once it is (`Written`, `Bounds`). From the
  same invariant each step is shown to be one of RemoteCall's, or none
  (`NextRefines`, by the stage the call is in, `Stage`); and where nothing fails no
  call is ever lost (`NoLostCall`, with `Kept`).
* multi services. A buffer is in one place and holds what fits the place (`Places`,
  `Contents`); a user has one message under way, in the ring, in a slot, in a
  service's copy or in an answer (`Alone`, `Answering`, `Answers`, `Sample`); the
  client sample and its service count the same messages (`Counts`, `Farewell`);
  nobody writes before the announcement (`Greetings`, `Known`); the second tty
  endpoint belongs to the device in use, and a release comes before the next
  announcement (`Bindings`, `Order`); no buffer is lost (`Kept`).
* ivshmem. How far each side has come (`Started`), that nothing rings before the
  remote is up (`Met`, `Rung`), that before the first timeout one message is under
  way, the one the command waits for (`Lockstep`).
* load_fw. How far a load has come (`Loading`), what the library takes the core for
  (`Known`), and which banks the regions of an instance stand for (`Held`).

Assumptions. The `ASSUME`s of the modules: a positive number of packages that fits
the address array, known ports, a read of at least one byte, rings of at least one
buffer and the like. Some theorems need more, as an explicit hypothesis:

* `Documented` (above), for what is only true in the documented start order.
* `DiscardWorks` (NocopyBuffers): the discards of the tests' server do not fail.
  Where one does, `RxOwned` is false (see the observations). TLC checks that the
  run satisfies it (`MCDiscards`).
* `BuffersSuffice` (NocopyBuffers), for `NoDeadlock`: finitely many buffers on each
  side and more than `MaxTx`, which is 10 in the code, where a vring has 256. So a
  test never waits for its own announcement to be read while it takes `MaxTx`
  buffers, which keeps the argument short; it is not claimed that fewer do not do.
  TLC checks that the run satisfies it (`MCSuffices`).

`StartComplete`, `WrittenRequested` and `FreshDriver` are action properties, proved
from the same invariants.

Only model-checked: the liveness properties (`DoneOrOverslept`, the fairness part
of `Delivers`, `BothEnd`, `ProxyExits`, `Answered`, `CmdEnds`, `EachRunMet`) and
the first half of `NeitherStuck`, which speaks of ENABLED, all beyond the prover.
That half says that a program has no step exactly where its guards, written out as
`ClientWaits` and `ServerWaits`, say so; the other half, `OneGoesOn`, is about these
guards, and is what `NoDeadlock` proves.

## Observations

Met while reading and modelling. Most are visible in the models, with other
constants or as an exception that a property names; no run of the list is about
them.

* The bare-metal `system_suspend` of the irq_shmem remote
  (`libmetal/machine/remote/amd_rpu/system/generic/amp_demo_os.h:63`) tests
  `irq_pending` and then executes `wfi`; an IPI between the two is handled and the
  core sleeps until another interrupt, of which the demo enables none. So
  `EventuallyDone` is false on bare metal too; `DoneOrOverslept` names this one way
  of not ending (`Oversleeps`) and excludes every other.
* The README of the same remote
  (`libmetal/demos/irq_shmem_demo/remote/README.md:16`) says that the clean-up
  disables the interrupt, which `platform_cleanup` does not do: `rIer` is still
  set when the remote has ended.
* The flood test takes the number of the last answer for the number of answers
  (`legacy_apps/tests/msg/rpmsg-flood-ping.c:80`): if an answer before it is lost,
  it reports success all the same. `ReportHonest` fails for it under faults;
  `LockstepHonest` leaves that case out.
* `rpmsg-update.c` cannot lose an answer, but does not return from its callback if
  the client has ended with its ring full.
* The tests' zero-copy server (`legacy_apps/tests/msg/rpmsg-nocopy-echo.c:158`)
  releases a node's buffer, then takes and gives back a transmit buffer, and leaves
  the loop if that fails, before it has removed the node: the next pass answers the
  message and releases the buffer a second time. With "discard" among the faults
  `RxOwned` fails.
* The zero-copy clients leave their loop when a call fails that they do not count
  (`legacy_apps/examples/nocopy_echo/rpmsg-nocopy-ping.c:153` and `172`), or when
  their endpoint is deleted (`183`; `legacy_apps/tests/msg/rpmsg-nocopy-ping.c:241`),
  which a server does that has ended on a failed call
  (`legacy_apps/tests/msg/rpmsg-nocopy-echo.c:146`): they then print an error count
  of zero for a test that is not complete. `ReportHonest` names both.
* The sample client waits for an answer without looking at `ept_deleted`
  (`legacy_apps/examples/rpmsg_sample_echo/rpmsg-sample-ping.c:138`): if the server
  has ended it polls for ever.
* `shutdown_req` of the echo and matrix servers is never reset
  (`legacy_apps/examples/echo/freertos/main.c:59`): the second session of the
  FreeRTOS task ends at its first notification.
* The bare-metal registration of the R5's interrupt returns XST_FAILURE, which is 1,
  and only negative results are errors
  (`legacy_apps/machine/xlnx/zynqmp_r5/platform_info.c:342`): the device goes on and
  hears nothing. `HearsDriver` excepts it.
* A ping that sets `DRIVER_OK` before the R5 has made its copy of the table, or
  between two sessions, is respectively taken for every later driver or erased
  (`platform_info.c:372` of the same port). `Excused` names both.
* What a failed or finished set-up does not give back (`Leaks`): the handler, the
  IPI device and the shared memory of the zynqmp Linux port after a failed mmap
  (`legacy_apps/machine/xlnx/zynqmp/platform_info.c:141`); the poll device, never; the mapping
  of the Linux port after a failed bind or connect, of the polling port after a
  failed open of the poll device; on the R5 the interrupt and the memory of a
  mapping; and all that `platform_init` has set up globally, in the servers, which
  return without `platform_cleanup` when it fails.
* The Linux server waits in accept without limit for a client that may have run out
  of attempts (`legacy_apps/system/linux/machine/generic/platform_info.c:216`).
* A load for an A53, or of a segment of an R5 above its tightly coupled memories,
  never succeeds: both loads hand in METAL_BAD_PHYS
  (`legacy_apps/examples/load_fw/load_fw.c:86`), and the operations keep it
  (`zynqmp_apu_lcm_rproc_example.c:57`, `zynqmp_rpu_lcm_rproc_example.c:57`), where
  the older `zynqmp_r5_lcm_rproc_example.c:196` has `if (lpa == METAL_BAD_PHYS)
  lpa = lda;`.
* load_fw does not give back the banks it has requested: the shutdown of an RPU
  compares addresses already translated
  (`legacy_apps/examples/load_fw/zynqmp_rpu_lcm_rproc_example.c:140`), and that of
  the APU takes the address behind a region, METAL_BAD_PHYS, for its end, so that
  DDR is never released and banks of the OCM nobody has requested are.
* Two Linux endpoints that write to the address 0x1 of the raw service at the same
  time, as Demo 5 of `zephyr/rpmsg_multi_services/README.rst` sets them up, share
  its one slot (`main_remote.c:136`): the second message replaces the first, which
  is not answered and whose buffer is not released. `Resent` fails for the users
  `{"rawA", "rawB"}`; `Answered` and `NoBufferLost` leave that case out.
* ivshmem: an answer that comes after the timeout of its command is credited to
  the next one (`dual_qemu_ivshmem/host/src/main.c:79`), hence `expired` in
  `SuccessHonest`; the remote's `main` goes on after a failed initialisation and
  reports ready; a command with the number 0 decrements it below zero.
* A SIGTERM or SIGINT that `proxy_app` gets between the `malloc` of `proxy` and
  `proxy->active = 1` (`proxy_app.c:291` and `298`) is overwritten: the program goes
  on polling. `ProxyExits` excepts it.
* `proxy_app` closes its endpoint twice (`proxy_app.c:346` and `361`), and
  `bind_rpmsg_chrdev` takes a device for bound whose override was written by a run
  that then failed to bind it (`common.c:101`).

## Not modelled

The contents of resource tables, linker scripts and build files (static data);
caches, UART and logging; the arithmetic of the matrix product; weak memory ordering
beyond the order of the code's accesses (the window is mapped as device memory); the
peer closing its socket under `linux_generic`, which makes the handler thread spin;
the microblaze port, whose poll is the `no_ipi` port and whose release function
does not compile as it stands; `zynqmp_r5_lcm_rproc_example.c`, an older form of the
RPU operations that no build file names; the Linux user-space tools `echo_test`,
`mat_mul_demo` and `rpmsg-utils`, each a sequence of ioctl, read and write on one
descriptor; `printf` through the rpc channel.

## Plan

1. Theorems: the flood test with a server that drops answers: what its report does
   say.
2. Several sessions of RpmsgEcho with `shutdown_req` as the last one left it.
3. Repeated runs of the Linux tools: `bind_rpmsg_chrdev` after a failed bind.

The order is that of what can go wrong: notification and shared memory first
(IrqShmemDemo, PlatformPoll), then the applications on top of them, then set-up
and loading; what is left is to prove more of what is checked. RpmsgEcho,
NocopyBuffers and RpcDemo use the contract of `platform_poll` that
`RefinesMailbox` establishes.
