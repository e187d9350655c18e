------------------------------- MODULE LoadFw -------------------------------
(***************************************************************************)
(* load_fw: an R5 loads an executable into the memory of another core,     *)
(* starts the core, stops it and shuts it down; first with the blocking    *)
(* remoteproc_load, then once more through remoteproc_load_noblock.        *)
(*                                                                         *)
(*   load_fw.c, platform_info.c, mem_image_store.c   the program           *)
(*   zynqmp_rpu_lcm_rproc_example.c, zynqmp_apu_...  the operations of the *)
(*                                                   two kinds of core     *)
(*                                                                         *)
(* A memory bank is a power node: it has to be requested from the platform *)
(* management unit before it is written to.  Addresses are counted in half *)
(* banks of 0x8000 bytes and have 32 bits, as metal_phys_addr_t has on the *)
(* R5.  remoteproc is the library's (external): its states, its list of    *)
(* mapped regions, and its walk through the segments of the executable.    *)
(* The programs hand it METAL_BAD_PHYS for "any address"; so does it to    *)
(* the core's mapping operation, which may leave it as it is.              *)
(*                                                                         *)
(* The specification is named LoadSpec, and its parts likewise: the proofs *)
(* about this module stand beside those about PlatformPoll.                *)
(***************************************************************************)
EXTENDS Naturals, Sequences

CONSTANTS
    RpuSegments, ApuSegments,  \* segments an executable for either core may have
    MaxSegments,               \* segments of an executable, at most
    Faults                     \* the calls that may fail

Top == 131072                  \* 2^32 in half banks: addresses are taken % Top
Ddr == 65536                   \* 0x80000000
Ocm == 131064                  \* 0xFFFC0000
Bad == Top                     \* METAL_BAD_PHYS: above all of them

(* A segment: where, and how large.  The part of it that is not in the     *)
(* file, all of a .bss, is filled with zeros.  It ends inside the address  *)
(* space, and is not larger than half of it.                               *)
Segment == {s \in [da : 0 .. Top - 1, size : 1 .. Top \div 2] : s.da + s.size <= Top}

FaultPoints == {"init", "map", "store", "wake", "down"}

ASSUME LoadAssumption == /\ RpuSegments \subseteq Segment
                         /\ ApuSegments \subseteq Segment
                         /\ MaxSegments \in Nat \ {0}
                         /\ Faults \subseteq FaultPoints

VARIABLES
    target,       \* the core to be started
    bootLinux,    \* built with RPU_BOOT_LINUX
    image,        \* the executable
    main, mode,   \* where main is, and which of the two ways of loading it is in
    state,        \* rproc->state
    priv,         \* the memory of the instance
    mems,         \* regions the library has in its list
    nodes,        \* banks requested and not released
    power,        \* the core
    k,            \* next segment
    filled,       \* segments in the core's memory, file and padding
    ret,          \* what main returns
    refused       \* history: the last power-down was refused

loadVars == <<target, bootLinux, image, main, mode, state, priv, mems, nodes, power, k,
              filled, ret, refused>>

Targets     == {"RPU_0", "RPU_1", "APU"}
SegmentsOf(t) == IF t = "APU" THEN ApuSegments ELSE RpuSegments

LoadInit ==
    /\ target \in Targets /\ bootLinux \in BOOLEAN
    /\ image \in UNION {[1 .. n -> SegmentsOf(target)] : n \in 1 .. MaxSegments}
    /\ main = "app_init" /\ mode = "block" /\ state = "OFFLINE" /\ priv = "none"
    /\ mems = {} /\ nodes = {} /\ power = "down" /\ k = 1 /\ filled = {}
    /\ ret = 0 /\ refused = FALSE

Fixed == UNCHANGED <<target, bootLinux, image>>
-----------------------------------------------------------------------------
(* The operations of the two kinds of core.                                *)

End(s) == (s.da + s.size) % Top

(* Mutation: the end of a segment is not looked at.                        *)
RpuRequestsFirst(s) ==
    IF target = "RPU_0"
    THEN {n \in {"TCM_0_A"} : s.da < 2} \cup {n \in {"TCM_1_A"} : s.da \in 2 .. 4}
         \cup {n \in {"TCM_0_B"} : s.da \in 4 .. 6} \cup {n \in {"TCM_1_B"} : s.da \in 6 .. 8}
    ELSE {n \in {"TCM_1_A"} : s.da < 2} \cup {n \in {"TCM_1_B"} : s.da \in 4 .. 6}

(* rpu_rproc_mmap: which tightly coupled memories are requested.           *)
RpuRequests(s) ==
    LET lda == s.da
    IN IF lda > 8 THEN {}
       ELSE IF target = "RPU_0"
       THEN {n \in {"TCM_0_A"} : lda < 2}
            \cup {n \in {"TCM_1_A"} : lda <= 4 /\ End(s) >= 2}
            \cup {n \in {"TCM_0_B"} : lda <= 6 /\ End(s) >= 4}
            \cup {n \in {"TCM_1_B"} : lda <= 8 /\ End(s) >= 6}
       ELSE {n \in {"TCM_1_A"} : lda < 2}
            \cup {n \in {"TCM_1_B"} : lda <= 6 /\ End(s) >= 4}

(* The core's own address becomes the one the R5 writes to; but one above  *)
(* the tightly coupled memories leaves the caller's METAL_BAD_PHYS.        *)
RpuPa(s) == IF s.da > 8 THEN Bad
            ELSE (IF target = "RPU_0" THEN 131008 ELSE 131026) + s.da

(* apu_rproc_mmap.                                                         *)
ApuRequests(s) ==
    {n \in {"DDR"} : End(s) <= Ddr}
    \cup {n \in {"OCM_0"} : s.da >= Ocm /\ s.da < Ocm + 2}
    \cup {n \in {"OCM_1"} : s.da < Ocm + 4 /\ End(s) >= Ocm + 2}
    \cup {n \in {"OCM_2"} : s.da < Ocm + 6 /\ End(s) >= Ocm + 4}
    \cup {n \in {"OCM_3"} : End(s) >= Ocm + 6}

Requests(s) == IF target = "APU" THEN ApuRequests(s) ELSE RpuRequests(s)

(* The address a region gets.  apu_rproc_mmap leaves the caller's.         *)
PaOf(s)     == IF target = "APU" THEN Bad ELSE RpuPa(s)

(* What a shutdown releases for a region.  Its end is asked for with       *)
(* metal_io_phys at the offset behind the region, which answers            *)
(* METAL_BAD_PHYS, the largest address.  And the bounds of the RPU are     *)
(* those of the core, compared with addresses that were translated.        *)
RpuReleases(m) ==
    IF PaOf(m) > 8 THEN {}
    ELSE IF target = "RPU_0"
    THEN {n \in {"TCM_0_A"} : PaOf(m) < 2} \cup {"TCM_1_A", "TCM_0_B", "TCM_1_B"}
    ELSE {n \in {"TCM_1_A"} : PaOf(m) < 2} \cup {"TCM_1_B"}

ApuReleases(m) ==
    {n \in {"OCM_0"} : PaOf(m) >= Ocm /\ PaOf(m) < Ocm + 2}
    \cup {n \in {"OCM_1"} : PaOf(m) < Ocm + 4}
    \cup {n \in {"OCM_2"} : PaOf(m) < Ocm + 6}
    \cup {"OCM_3"}

Releases(m) == IF target = "APU" THEN ApuReleases(m) ELSE RpuReleases(m)
-----------------------------------------------------------------------------
(* main up to the load.                                                    *)

(* rpu_rproc_init and apu_rproc_init leave the state "ready".              *)
rproc_init == priv' = "live" /\ state' = "READY"

(* app_init: the IPI, the platform management library, remoteproc_init.    *)
app_init ==
    /\ main = "app_init"
    /\ \/ rproc_init /\ main' = "config" /\ UNCHANGED ret
       \/ "init" \in Faults /\ main' = "returned" /\ ret' = 1 /\ UNCHANGED <<priv, state>>
    /\ Fixed /\ UNCHANGED <<mode, mems, nodes, power, k, filled, refused>>

(* remoteproc_config, whose refusal is ignored; then the load refuses an   *)
(* instance that is not ready.                                             *)
Ready == IF state = "OFFLINE" THEN "READY" ELSE state

remoteproc_config ==
    /\ main = "config"
    /\ state' = Ready
    /\ main' = IF Ready = "READY" THEN "map" ELSE "failed"
    /\ k' = 1 /\ filled' = {}
    /\ Fixed /\ UNCHANGED <<mode, priv, mems, nodes, power, ret, refused>>
-----------------------------------------------------------------------------
(* The segments, by remoteproc_load or by the loop of the non-blocking     *)
(* load: each is mapped, read from the store and padded.                   *)

(* remoteproc_mmap only asks the core's operation for a region that is not *)
(* in the list.  The operation requests the banks and adds the region      *)
(* before it knows whether it has an address for it: a load to             *)
(* METAL_BAD_PHYS is refused with both done.                               *)
Inside(s, m)  == m.da <= s.da /\ s.da + s.size <= m.da + m.size

Next_segment == image[k]

remoteproc_mmap ==
    /\ main = "map" /\ k <= Len(image)
    /\ IF \E m \in mems : Inside(Next_segment, m)
       THEN main' = "store" /\ UNCHANGED <<mems, nodes>>
       ELSE /\ nodes' = nodes \cup Requests(Next_segment)
            /\ \/ /\ mems' = mems \cup {Next_segment}
                  /\ main' = IF PaOf(Next_segment) = Bad THEN "failed" ELSE "store"
               \/ "map" \in Faults /\ main' = "failed" /\ UNCHANGED mems
    /\ Fixed /\ UNCHANGED <<mode, state, priv, power, k, filled, ret, refused>>

(* mem_image_load, and the padding.                                        *)
mem_image_load ==
    /\ main = "store"
    /\ \/ filled' = filled \cup {k} /\ k' = k + 1 /\ main' = "map"
       \/ "store" \in Faults /\ main' = "failed" /\ UNCHANGED <<filled, k>>
    /\ Fixed /\ UNCHANGED <<mode, state, priv, mems, nodes, power, ret, refused>>

(* The load is over when there is nothing more to read and nothing to pad. *)
Loaded ==
    /\ main = "map" /\ k > Len(image)
    /\ main' = "start"
    /\ Fixed /\ UNCHANGED <<mode, state, priv, mems, nodes, power, k, filled, ret, refused>>
-----------------------------------------------------------------------------
(* The core's life.                                                        *)

(* remoteproc_start with rpu_rproc_start or apu_rproc_start.  After a      *)
(* refused wake-up the library may or may not take the core for running.   *)
remoteproc_start ==
    /\ main = "start"
    /\ \/ /\ power' = "up" /\ state' = "RUNNING"
          /\ main' = IF bootLinux THEN "remove" ELSE "wfi"
       \/ /\ "wake" \in Faults /\ main' = "failed"
          /\ state' \in {"READY", "RUNNING"} /\ UNCHANGED power
    /\ Fixed /\ UNCHANGED <<mode, priv, mems, nodes, k, filled, ret, refused>>

(* An interrupt ends the wfi; the stop operation does nothing.             *)
remoteproc_stop ==
    /\ main = "wfi" /\ state' = "STOPPED" /\ main' = "shutdown"
    /\ Fixed /\ UNCHANGED <<mode, priv, mems, nodes, power, k, filled, ret, refused>>

(* Mutation: a core that refuses to power down is taken for shut down.     *)
ShutdownForgets ==
    /\ mems' = {} /\ nodes' = nodes \ UNION {Releases(m) : m \in mems}
    /\ state' = "OFFLINE"
    /\ \/ power' = "down" /\ refused' = FALSE
       \/ "down" \in Faults /\ refused' = TRUE /\ UNCHANGED power

(* rpu_rproc_shutdown and apu_rproc_shutdown under remoteproc_shutdown:    *)
(* the regions are deleted and the core is powered down.  One that is not  *)
(* offline can be shut down again.                                         *)
remoteproc_shutdown ==
    /\ mems' = {} /\ nodes' = nodes \ UNION {Releases(m) : m \in mems}
    /\ \/ state' = "OFFLINE" /\ power' = "down" /\ refused' = FALSE
       \/ "down" \in Faults /\ refused' = TRUE /\ UNCHANGED <<state, power>>

(* The end of either load: its result is 0 whatever the shutdown's is.     *)
load_ends ==
    /\ main = "shutdown" /\ remoteproc_shutdown
    /\ IF mode = "block" THEN mode' = "noblock" /\ main' = "config"
                         ELSE main' = "remove" /\ UNCHANGED mode
    /\ Fixed /\ UNCHANGED <<priv, k, filled, ret>>

(* Mutation: main returns at once.                                         *)
FailsAtOnce ==
    /\ main = "failed" /\ main' = "returned" /\ ret' = 1
    /\ Fixed /\ UNCHANGED <<mode, state, priv, mems, nodes, power, k, filled, refused>>

(* "Make sure the remote is shut down"; nothing is removed.                *)
load_fails ==
    /\ main = "failed"
    /\ IF state = "OFFLINE" THEN UNCHANGED <<state, mems, nodes, power, refused>>
                            ELSE remoteproc_shutdown
    /\ main' = "returned" /\ ret' = 1
    /\ Fixed /\ UNCHANGED <<mode, priv, k, filled>>

(* remoteproc_remove is refused unless the core is offline.                *)
remoteproc_remove ==
    /\ main = "remove" /\ main' = "returned"
    /\ priv' = IF state = "OFFLINE" THEN "freed" ELSE priv
    /\ Fixed /\ UNCHANGED <<mode, state, mems, nodes, power, k, filled, ret, refused>>

Returned == main = "returned" /\ UNCHANGED loadVars

LoadNext ==
    \/ app_init \/ remoteproc_config
    \/ remoteproc_mmap \/ mem_image_load \/ Loaded
    \/ remoteproc_start \/ remoteproc_stop \/ load_ends \/ load_fails \/ remoteproc_remove
    \/ Returned

LoadSpec == LoadInit /\ [][LoadNext]_loadVars
-----------------------------------------------------------------------------
Nodes == {"TCM_0_A", "TCM_1_A", "TCM_0_B", "TCM_1_B", "DDR", "OCM_0", "OCM_1", "OCM_2", "OCM_3"}

(* Types.                                                                  *)
LoadTypeOK ==
    /\ target \in Targets /\ bootLinux \in BOOLEAN
    /\ image \in Seq(SegmentsOf(target)) /\ Len(image) \in 1 .. MaxSegments
    /\ main \in {"app_init", "config", "map", "store", "start", "wfi", "shutdown", "failed",
               "remove", "returned"}
    /\ mode \in {"block", "noblock"}
    /\ state \in {"OFFLINE", "READY", "RUNNING", "STOPPED"}
    /\ priv \in {"none", "live", "freed"} /\ power \in {"down", "up"}
    /\ mems \subseteq SegmentsOf(target) /\ nodes \subseteq Nodes
    /\ k \in 1 .. MaxSegments + 1 /\ filled \subseteq 1 .. MaxSegments
    /\ ret \in {0, 1} /\ refused \in BOOLEAN

(* Where the banks are, in the address map of each R5.                     *)
BankMap(t) ==
    IF t = "RPU_0" THEN [TCM_0_A |-> <<0, 2>>, TCM_1_A |-> <<2, 4>>,
                         TCM_0_B |-> <<4, 6>>, TCM_1_B |-> <<6, 8>>]
                   ELSE [TCM_1_A |-> <<0, 2>>, TCM_1_B |-> <<4, 6>>]

(* The banks that a segment lies in.                                       *)
Touched(s) == {n \in DOMAIN BankMap(target) :
                   /\ s.da < BankMap(target)[n][2]
                   /\ s.da + s.size > BankMap(target)[n][1]}

(* A segment is only written to an R5's memory, through a region that has  *)
(* an address, and to no bank that is not requested at that moment: in the *)
(* second load neither, for which the shutdown of the first has released   *)
(* banks and deleted regions, nor through a region that was mapped for a   *)
(* larger segment.                                                         *)
WrittenRequested ==
    [][mem_image_load /\ filled' # filled =>
           /\ target \in {"RPU_0", "RPU_1"}
           /\ \E m \in mems : Inside(Next_segment, m) /\ PaOf(m) # Bad
           /\ Touched(Next_segment) \subseteq nodes]_loadVars

(* A core is only woken up with the whole executable in its memory, that   *)
(* of this load, .bss segments included, and only while it is down: a core *)
(* that has refused to power down is not loaded again.                     *)
StartComplete ==
    [][remoteproc_start /\ power' = "up" =>
           /\ filled = 1 .. Len(image)
           /\ power = "down"]_loadVars

(* Once main has returned, after whichever call has failed, the core is    *)
(* down and its regions are gone, unless it refused to power down or is to *)
(* go on running Linux.                                                    *)
LeftDown ==
    main = "returned" /\ ~refused /\ ~(bootLinux /\ ret = 0) => power = "down" /\ mems = {}
=============================================================================
