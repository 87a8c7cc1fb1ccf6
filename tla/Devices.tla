------------------------------ MODULE Devices ------------------------------
(***************************************************************************)
(* What a process holds on to: descriptors, mappings and structs.          *)
(* user_mmap_driver.c maps memory and UIO devices; X*_Initialize and        *)
(* X*_Release of the ten generated drivers, all alike, open a core and      *)
(* keep its descriptor in one static per driver; fpga_aes_new and           *)
(* fpga_aes_free hold two cores.  In each call one step may fail.           *)
(* A program is the set of drivers it uses.                                *)
(*                                                                         *)
(* Structs are counted where the repository allocates them; the list that  *)
(* scandir allocates for X*_Initialize, which nobody frees, is not.        *)
(***************************************************************************)
EXTENDS Integers, Functions, FiniteSetsExt

CONSTANTS Programs,             \* the sets of drivers that programs use
          MaxMems               \* bound: areas held at once

VARIABLES program,   \* the drivers of the program that runs
          proc,      \* the kernel's and the allocator's view, and the statics
          mems,      \* the shared_memory structs in the program's hands
          devices,   \* the instances initialised by X*_Initialize
          cipher,    \* the FPGA_AES, if the program has one
          starved    \* whether a malloc has failed

vars == <<program, proc, mems, devices, cipher, starved>>

None == "none"
Null == 0
Failed == -1        \* MAP_FAILED, which is not NULL
Hw == UNION Programs

Lowest(used, from) == Min((from .. from + Cardinality(used)) \ used)

\* open, close, mmap, munmap, malloc and free; giving back what is not there
\* changes nothing
FdOf(p) == Lowest(DOMAIN p.open, 3)
Opened(p, file) ==
  [p EXCEPT !.open = [fd \in DOMAIN p.open \cup {FdOf(p)} |->
                        IF fd = FdOf(p) THEN file ELSE p.open[fd]]]
Closed(p, fd) == [p EXCEPT !.open = Restrict(p.open, DOMAIN p.open \ {fd})]
MapOf(p) == Lowest(p.mapped, 1)
Mapped(p) == [p EXCEPT !.mapped = @ \cup {MapOf(p)}]
Unmapped(p, m) == [p EXCEPT !.mapped = @ \ {m}]
BlockOf(p) == Lowest(p.heap, 1)
Malloced(p) == [p EXCEPT !.heap = @ \cup {BlockOf(p)}]
Freed(p, blocks) == [p EXCEPT !.heap = @ \ blocks]

-----------------------------------------------------------------------------
(* user_mmap_driver.c: the process after the call, and what it returned: a set *)
(* that is empty or holds the struct.                                        *)

Area(p, fd, map) == [p |-> Malloced(p), mem |-> {[fd |-> fd, map |-> map, block |-> BlockOf(p)]}]
NoArea(p) == [p |-> p, mem |-> {}]

getSharedMemoryArea(p, fault) ==
  LET fd == FdOf(p)
      o == Opened(p, "/dev/mem")
  IN  CASE fault = "open"   -> NoArea(p)
        [] fault = "mmap"   -> NoArea(Closed(o, fd))
        [] fault = "malloc" -> NoArea(Closed(Mapped(o), fd))
        [] OTHER            -> Area(Mapped(o), fd, MapOf(o))

\* a mapping that failed is not NULL
getUioMemoryArea(p, fault) ==
  LET fd == FdOf(p)
      o == Opened(p, "/dev/uio1")
  IN  CASE fault = "open"   -> NoArea(p)
        [] fault = "mmap"   -> Area(o, fd, Failed)
        [] fault = "malloc" -> NoArea(Closed(Mapped(o), fd))
        [] OTHER            -> Area(Mapped(o), fd, MapOf(o))

\* mutant of cleanupSharedMemoryPointer: the descriptor stays open
cleanup_KeepOpen(p, mem) == Freed(Unmapped(p, mem.map), {mem.block})

cleanupSharedMemoryPointer(p, mem) ==
  Freed(Closed(Unmapped(p, mem.map), mem.fd), {mem.block})

-----------------------------------------------------------------------------
(* The generated drivers.  info is the static uio_info: its uio_fd.          *)

Uninitialised(p) == [p |-> p, map |-> Null]

Initialize(p, core, fault) ==
  LET fd == FdOf(p)
      o == [Opened(p, core) EXCEPT !.info[core] = fd]
  IN  CASE fault = "find" -> Uninitialised(p)
        [] fault = "open" -> Uninitialised([p EXCEPT !.info[core] = -1])
        [] fault = "mmap" -> [p |-> o, map |-> Failed]
        [] OTHER          -> [p |-> Mapped(o), map |-> MapOf(o)]

Release(p, core, map) == Closed(Unmapped(p, map), p.info[core])

XReset_axi_Initialize(p, fault) == Initialize(p, "XReset_axi", fault)
XReset_axi_Release(p, map) == Release(p, "XReset_axi", map)
XAes_Initialize(p, fault) == Initialize(p, "XAes", fault)
XAes_Release(p, map) == Release(p, "XAes", map)

-----------------------------------------------------------------------------
(* aes_fpga.c.  The blocks are those of cipher, iv, reset_axi, aes_device.   *)

\* mutant of GiveUp: both cores are released, whichever was initialised
GiveUp_Both(p, blocks, reset) ==
  Freed(XAes_Release(IF reset = Null THEN p ELSE XReset_axi_Release(p, reset), Null), blocks)

\* the blocks so far are freed, and reset_axi released once it is initialised
GiveUp(p, blocks, reset) ==
  Freed(IF reset = Null THEN p ELSE XReset_axi_Release(p, reset), blocks)

\* a fault names the call that fails, and for which core
fpga_aes_new(p, fault) ==
  LET c == Malloced(p)
      v == Malloced(c)
      x == Malloced(v)
      first == {BlockOf(p), BlockOf(c)}
      reset == XReset_axi_Initialize(x, IF fault[2] = "XReset_axi" THEN fault[1] ELSE None)
      a == Malloced(reset.p)
      three == first \cup {BlockOf(v)}
      four == three \cup {BlockOf(reset.p)}
      aes == XAes_Initialize(a, IF fault[2] = "XAes" THEN fault[1] ELSE None)
      Nothing(q) == [p |-> q, cipher |-> {}]
  IN  CASE fault = <<"malloc", "cipher">>    -> Nothing(p)
        [] fault = <<"malloc", "iv">>        -> Nothing(c)
        [] fault = <<"malloc", "XReset_axi">> -> Nothing(GiveUp(v, first, Null))
        [] reset.map = Null                  -> Nothing(GiveUp(reset.p, three, Null))
        [] fault = <<"malloc", "XAes">>       -> Nothing(GiveUp(reset.p, three, reset.map))
        [] aes.map = Null                    -> Nothing(GiveUp(aes.p, four, reset.map))
        [] OTHER -> [p |-> aes.p,
                     cipher |-> {[reset |-> reset.map, aes |-> aes.map, blocks |-> four]}]

fpga_aes_free(p, c) ==
  Freed(XAes_Release(XReset_axi_Release(p, c.reset), c.aes), c.blocks)

Faults == {<<None, None>>, <<"malloc", "cipher">>, <<"malloc", "iv">>}
          \cup ({"malloc", "find", "open", "mmap"} \X {"XReset_axi", "XAes"})
-----------------------------------------------------------------------------
Fresh == [open |-> <<>>, mapped |-> {}, heap |-> {}, info |-> [core \in Hw |-> 0]]

Init == /\ program \in Programs
        /\ proc = Fresh
        /\ mems = {} /\ devices = {} /\ cipher = {} /\ starved = FALSE

\* the process ends, and with it everything it held
Dies == /\ proc' = Fresh
        /\ mems' = {} /\ devices' = {} /\ cipher' = {} /\ starved' = FALSE

\* bound: one malloc fails in the life of a process, since each loses memory
Starves(fault) == /\ fault = "malloc" => ~starved
                  /\ starved' = (starved \/ fault = "malloc")

MapArea ==
  \E fault \in {None, "open", "mmap", "malloc"} :
  \E area \in {getSharedMemoryArea(proc, fault), getUioMemoryArea(proc, fault)} :
    /\ Cardinality(mems) < MaxMems
    /\ proc' = area.p
    /\ mems' = mems \cup area.mem
    /\ Starves(fault) /\ UNCHANGED <<devices, cipher>>

UnmapArea ==
  \E mem \in mems :
    /\ proc' = cleanupSharedMemoryPointer(proc, mem)
    /\ mems' = mems \ {mem}
    /\ UNCHANGED <<devices, cipher, starved>>

\* getValueAtAddress, writeValueToAddress and their Uio forms map, access and
\* clean up; a write does not look whether it got an area, and an access to a
\* mapping that failed ends the process
AccessValue ==
  \E fault \in {None, "open", "mmap", "malloc"}, write \in BOOLEAN :
  \E area \in {getSharedMemoryArea(proc, fault), getUioMemoryArea(proc, fault)} :
    IF area.mem = {}
    THEN \/ ~write /\ proc' = area.p /\ Starves(fault) /\ UNCHANGED <<mems, devices, cipher>>
         \/ write /\ Dies
    ELSE \E mem \in area.mem :
           IF mem.map = Failed THEN Dies
           ELSE /\ proc' = cleanupSharedMemoryPointer(area.p, mem)
                /\ UNCHANGED <<mems, devices, cipher, starved>>

\* a program initialises a core once (qam_runner does so twice, and loses the first
\* descriptor) and gives up if it cannot, or goes on to fail the assertion IsReady
InitializeCore(core) ==
  \E fault \in {None, "find", "open", "mmap"} :
    /\ core \in program /\ core \notin {v.core : v \in devices}
    /\ LET got == Initialize(proc, core, fault)
       IN  IF got.map = Null THEN Dies
           ELSE /\ proc' = got.p
                /\ devices' = devices \cup {[core |-> core, map |-> got.map]}
                /\ UNCHANGED <<mems, cipher, starved>>

ReleaseCore(core) ==
  \E v \in devices :
    /\ v.core = core
    /\ proc' = Release(proc, core, v.map)
    /\ devices' = devices \ {v}
    /\ UNCHANGED <<mems, cipher, starved>>

\* the other drivers, alike but for their names and statics
XTriple_aes_Initialize == InitializeCore("XTriple_aes")
XTriple_aes_Release == ReleaseCore("XTriple_aes")
XTest_direct_dma_Initialize == InitializeCore("XTest_direct_dma")
XTest_direct_dma_Release == ReleaseCore("XTest_direct_dma")
XMemory_scanner_Initialize == InitializeCore("XMemory_scanner")
XMemory_scanner_Release == ReleaseCore("XMemory_scanner")
XMemory_scanner_ddr_Initialize == InitializeCore("XMemory_scanner_ddr")
XMemory_scanner_ddr_Release == ReleaseCore("XMemory_scanner_ddr")
XQam_runner_Initialize == InitializeCore("XQam_runner")
XQam_runner_Release == ReleaseCore("XQam_runner")
XCrec_Initialize == InitializeCore("XCrec")
XCrec_Release == ReleaseCore("XCrec")
XCrypto_sign_Initialize == InitializeCore("XCrypto_sign")
XCrypto_sign_Release == ReleaseCore("XCrypto_sign")
XCurve25519_donna_Initialize == InitializeCore("XCurve25519_donna")
XCurve25519_donna_Release == ReleaseCore("XCurve25519_donna")

NewCipher ==
  \E fault \in Faults :
    /\ cipher = {} /\ {"XReset_axi", "XAes"} \subseteq program
    /\ LET got == fpga_aes_new(proc, fault)
       IN  proc' = got.p /\ cipher' = got.cipher
    /\ Starves(fault[1]) /\ UNCHANGED <<mems, devices>>

FreeCipher ==
  \E c \in cipher :
    /\ proc' = fpga_aes_free(proc, c)
    /\ cipher' = {}
    /\ UNCHANGED <<mems, devices, starved>>

\* the registers of a core are read: fatal where the mapping failed
Touch ==
  /\ Failed \in {v.map : v \in devices} \cup UNION {{c.reset, c.aes} : c \in cipher}
  /\ Dies

Next == /\ \/ MapArea \/ UnmapArea \/ AccessValue \/ NewCipher \/ FreeCipher \/ Touch
           \/ XTriple_aes_Initialize \/ XTriple_aes_Release
           \/ XTest_direct_dma_Initialize \/ XTest_direct_dma_Release
           \/ XMemory_scanner_Initialize \/ XMemory_scanner_Release
           \/ XMemory_scanner_ddr_Initialize \/ XMemory_scanner_ddr_Release
           \/ XQam_runner_Initialize \/ XQam_runner_Release
           \/ XCrec_Initialize \/ XCrec_Release
           \/ XCrypto_sign_Initialize \/ XCrypto_sign_Release
           \/ XCurve25519_donna_Initialize \/ XCurve25519_donna_Release
        /\ UNCHANGED program

Spec == Init /\ [][Next]_vars
-----------------------------------------------------------------------------
\* With nothing in the program's hands no descriptor is open, whichever call
\* failed on the way, and no mapping or struct is left either unless a malloc
\* failed: then getSharedMemoryArea leaves a mapping, and fpga_aes_new its struct.
AllReturned ==
  mems = {} /\ devices = {} /\ cipher = {} =>
    /\ DOMAIN proc.open = {}
    /\ ~starved => proc.mapped = {} /\ proc.heap = {}

\* What the program holds is its own and still there: no release and no call
\* that gave up took the descriptor, mapping or struct of another holder, though
\* the descriptors of released cores stay in the statics and are used again; and
\* the static of a core in use holds a descriptor of that core's file.
HeldIsKept ==
  LET cores == {v.core : v \in devices} \cup IF cipher = {} THEN {} ELSE {"XReset_axi", "XAes"}
      files == {mem.fd : mem \in mems} \cup {proc.info[core] : core \in cores}
      pairs == UNION {{c.reset, c.aes} : c \in cipher}
  IN  /\ files = DOMAIN proc.open
      /\ Cardinality(files) = Cardinality(mems) + Cardinality(devices)
                              + 2 * Cardinality(cipher)
      /\ \A core \in cores : proc.open[proc.info[core]] = core
      /\ ({mem.map : mem \in mems} \cup {v.map : v \in devices} \cup pairs) \ {Failed}
           \subseteq proc.mapped
      /\ {mem.block : mem \in mems} \subseteq proc.heap
      /\ \A c \in cipher : c.blocks \subseteq proc.heap \ {mem.block : mem \in mems}
=============================================================================
