--------------------------- MODULE DevicesProofs ---------------------------
(***************************************************************************)
(* Proofs about Devices.  The inductive invariant keeps books of the three *)
(* things a process holds, descriptors, mappings and structs, each an      *)
(* operator of the kernel's view p and of the holders: the structs M, the  *)
(* cores in use V, those of the cipher among them, and the blocks B of the *)
(* cipher.  Every entry has one holder, and, unless a malloc has failed,   *)
(* no entry is without.                                                    *)
(***************************************************************************)
EXTENDS Devices, NumberTheorems

\* Descriptors: the kernel's are those the holders name, each named once, and the
\* static of a core in use names that core's file.
Files(open, info, M, V) ==
  /\ IsFiniteSet(DOMAIN open)
  /\ DOMAIN open = {m.fd : m \in M} \cup {info[v.core] : v \in V}
  /\ \A m, n \in M : m.fd = n.fd => m = n
  /\ \A v, w \in V : info[v.core] = info[w.core] => v = w
  /\ \A m \in M, v \in V : m.fd # info[v.core]
  /\ \A v \in V : open[info[v.core]] = v.core

\* Mappings: those that did not fail are there and have one holder.
Maps(mapped, M, V, s) ==
  /\ IsFiniteSet(mapped) /\ Failed \notin mapped
  /\ \A m \in M : m.map \in mapped \cup {Failed}
  /\ \A v \in V : v.map \in mapped \cup {Failed}
  /\ ~s => \A x \in mapped : (\E m \in M : m.map = x) \/ (\E v \in V : v.map = x)
  /\ \A m, n \in M : m.map = n.map /\ m.map # Failed => m = n
  /\ \A v, w \in V : v.map = w.map /\ v.map # Failed => v = w
  /\ \A m \in M, v \in V : m.map = v.map => v.map = Failed

\* Structs: each area has its own, and the blocks of the cipher are others.
Blocks(heap, M, B, s) ==
  /\ IsFiniteSet(heap) /\ B \subseteq heap
  /\ \A m \in M : m.block \in heap \ B
  /\ \A m, n \in M : m.block = n.block => m = n
  /\ ~s => \A x \in heap : x \in B \/ \E m \in M : m.block = x

IsProcess(p) ==
  /\ p = [open |-> p.open, mapped |-> p.mapped, heap |-> p.heap, info |-> p.info]
  /\ p.info = [core \in Hw |-> p.info[core]]

Books(p, M, V, B, s) == /\ IsProcess(p) /\ \A v \in V : v.core \in Hw
                        /\ Files(p.open, p.info, M, V)
                        /\ Maps(p.mapped, M, V, s)
                        /\ Blocks(p.heap, M, B, s)

\* The cores in use, each with its mapping, and the blocks of the cipher.
CoresOf(c) == {[core |-> "XReset_axi", map |-> c.reset], [core |-> "XAes", map |-> c.aes]}
Held(d, ci) == d \cup UNION {CoresOf(c) : c \in ci}
BlocksOf(ci) == UNION {c.blocks : c \in ci}

IInv ==
  /\ program \in Programs /\ starved \in BOOLEAN
  /\ IsFiniteSet(mems) /\ IsFiniteSet(devices)
  /\ \A v \in devices : v.core \notin {"XReset_axi", "XAes"}
  /\ \A c, d \in cipher : c = d
  /\ Books(proc, mems, Held(devices, cipher), BlocksOf(cipher), starved)

-----------------------------------------------------------------------------
(* What the system hands out is new.                                         *)

LEMMA LowestIsNew ==
  ASSUME NEW used, IsFiniteSet(used), NEW from \in Nat
  PROVE  Lowest(used, from) \in Nat \ used /\ Lowest(used, from) >= from
<1> DEFINE n == Cardinality(used)
<1> DEFINE S == (from .. from + n) \ used
<1>1. n \in Nat
  BY FS_CardinalityType
<1>2. S # {}
  <2>1. SUFFICES ASSUME S = {} PROVE FALSE
    OBVIOUS
  <2>2. from .. from + n \in SUBSET used
    BY <2>1
  <2>3. Cardinality(from .. from + n) <= n
    BY <2>2, FS_Subset
  <2>4. Cardinality(from .. from + n) = (from + n) - from + 1
    BY <1>1, FS_Interval
  <2>5. QED
    BY <1>1, <2>3, <2>4
<1>3. S \in SUBSET Nat
  BY <1>1
<1>4. PICK x \in S : \A y \in S : x <= y
  <2> HIDE DEF S
  <2> QED BY <1>2, <1>3, LeastNatural
<1>5. Lowest(used, from) = CHOOSE y \in S : \A z \in S : y =< z
  BY DEF Lowest, Min
<1>6. Lowest(used, from) \in S
  BY <1>4, <1>5
<1>7. QED
  BY <1>1, <1>6

\* Each call of the system changes its own part of a process.
LEMMA OpenedIs ==
  ASSUME NEW p, IsProcess(p), NEW file, NEW q, q = Opened(p, file)
  PROVE  /\ IsProcess(q) /\ DOMAIN q.open = DOMAIN p.open \cup {FdOf(p)}
         /\ q.open[FdOf(p)] = file
         /\ \A f \in DOMAIN p.open \ {FdOf(p)} : q.open[f] = p.open[f]
         /\ q.mapped = p.mapped /\ q.heap = p.heap /\ q.info = p.info
<1> DEFINE o == [fd \in DOMAIN p.open \cup {FdOf(p)} |->
                   IF fd = FdOf(p) THEN file ELSE p.open[fd]]
<1>1. q = [open |-> o, mapped |-> p.mapped, heap |-> p.heap, info |-> p.info]
  BY DEF IsProcess, Opened
<1>2. /\ DOMAIN o = DOMAIN p.open \cup {FdOf(p)} /\ o[FdOf(p)] = file
      /\ \A f \in DOMAIN p.open \ {FdOf(p)} : o[f] = p.open[f]
  OBVIOUS
<1> HIDE DEF o
<1>3. QED
  BY <1>1, <1>2 DEF IsProcess

LEMMA ClosedIs ==
  ASSUME NEW p, IsProcess(p), NEW fd, NEW q, q = Closed(p, fd)
  PROVE  /\ IsProcess(q) /\ DOMAIN q.open = DOMAIN p.open \ {fd}
         /\ \A f \in DOMAIN q.open : q.open[f] = p.open[f]
         /\ q.mapped = p.mapped /\ q.heap = p.heap /\ q.info = p.info
<1> DEFINE o == [f \in DOMAIN p.open \ {fd} |-> p.open[f]]
<1>1. q = [open |-> o, mapped |-> p.mapped, heap |-> p.heap, info |-> p.info]
  BY DEF IsProcess, Closed, Restrict
<1>2. DOMAIN o = DOMAIN p.open \ {fd} /\ \A f \in DOMAIN o : o[f] = p.open[f]
  OBVIOUS
<1> HIDE DEF o
<1>3. QED
  BY <1>1, <1>2 DEF IsProcess

LEMMA MappedIs ==
  ASSUME NEW p, IsProcess(p), NEW q, q = Mapped(p)
  PROVE  /\ IsProcess(q) /\ q.mapped = p.mapped \cup {MapOf(p)}
         /\ q.open = p.open /\ q.heap = p.heap /\ q.info = p.info
<1>1. q = [open |-> p.open, mapped |-> p.mapped \cup {MapOf(p)}, heap |-> p.heap, info |-> p.info]
  BY DEF IsProcess, Mapped
<1>2. QED
  BY <1>1 DEF IsProcess

LEMMA UnmappedIs ==
  ASSUME NEW p, IsProcess(p), NEW map, NEW q, q = Unmapped(p, map)
  PROVE  /\ IsProcess(q) /\ q.mapped = p.mapped \ {map}
         /\ q.open = p.open /\ q.heap = p.heap /\ q.info = p.info
<1>1. q = [open |-> p.open, mapped |-> p.mapped \ {map}, heap |-> p.heap, info |-> p.info]
  BY DEF IsProcess, Unmapped
<1>2. QED
  BY <1>1 DEF IsProcess

LEMMA MallocedIs ==
  ASSUME NEW p, IsProcess(p), NEW q, q = Malloced(p)
  PROVE  /\ IsProcess(q) /\ q.heap = p.heap \cup {BlockOf(p)}
         /\ q.open = p.open /\ q.mapped = p.mapped /\ q.info = p.info
<1>1. q = [open |-> p.open, mapped |-> p.mapped, heap |-> p.heap \cup {BlockOf(p)}, info |-> p.info]
  BY DEF IsProcess, Malloced
<1>2. QED
  BY <1>1 DEF IsProcess

LEMMA FreedIs ==
  ASSUME NEW p, IsProcess(p), NEW blocks, NEW q, q = Freed(p, blocks)
  PROVE  /\ IsProcess(q) /\ q.heap = p.heap \ blocks
         /\ q.open = p.open /\ q.mapped = p.mapped /\ q.info = p.info
<1>1. q = [open |-> p.open, mapped |-> p.mapped, heap |-> p.heap \ blocks, info |-> p.info]
  BY DEF IsProcess, Freed
<1>2. QED
  BY <1>1 DEF IsProcess

-----------------------------------------------------------------------------
(* Descriptors.                                                              *)

LEMMA FilesAddMem ==
  ASSUME NEW open, NEW info, NEW M, NEW V, Files(open, info, M, V),
         NEW mem, mem.fd \notin DOMAIN open,
         NEW o, DOMAIN o = DOMAIN open \cup {mem.fd},
         \A f \in DOMAIN open : o[f] = open[f]
  PROVE  Files(o, info, M \cup {mem}, V)
<1>1. IsFiniteSet(DOMAIN o)
  <2>1. IsFiniteSet(DOMAIN open)
    BY DEF Files
  <2>2. QED
    BY <2>1, FS_AddElement
<1>2. DOMAIN o = {m.fd : m \in M \cup {mem}} \cup {info[v.core] : v \in V}
  BY DEF Files
<1>3. \A m \in M : m.fd # mem.fd
  BY DEF Files
<1>4. \A v \in V : info[v.core] # mem.fd /\ info[v.core] \in DOMAIN open
  BY DEF Files
<1>5. QED
  BY <1>1, <1>2, <1>3, <1>4 DEF Files

LEMMA FilesDropMem ==
  ASSUME NEW open, NEW info, NEW M, NEW V, Files(open, info, M, V),
         NEW mem \in M,
         NEW o, DOMAIN o = DOMAIN open \ {mem.fd},
         \A f \in DOMAIN o : o[f] = open[f]
  PROVE  Files(o, info, M \ {mem}, V)
<1>1. IsFiniteSet(DOMAIN o)
  BY FS_RemoveElement DEF Files
<1>2. \A v \in V : info[v.core] # mem.fd /\ info[v.core] \in DOMAIN o
  BY DEF Files
<1>3. \A m \in M \ {mem} : m.fd # mem.fd
  BY DEF Files
<1>4. DOMAIN o = {m.fd : m \in M \ {mem}} \cup {info[v.core] : v \in V}
  BY <1>2, <1>3 DEF Files
<1>5. QED
  BY <1>1, <1>2, <1>3, <1>4 DEF Files

LEMMA FilesDropCore ==
  ASSUME NEW open, NEW info, NEW M, NEW V, Files(open, info, M, V),
         NEW old \in V,
         NEW o, DOMAIN o = DOMAIN open \ {info[old.core]},
         \A f \in DOMAIN o : o[f] = open[f]
  PROVE  Files(o, info, M, V \ {old})
<1>1. IsFiniteSet(DOMAIN o)
  BY FS_RemoveElement DEF Files
<1>2. \A v \in V \ {old} : info[v.core] # info[old.core] /\ info[v.core] \in DOMAIN o
  BY DEF Files
<1>3. \A m \in M : m.fd # info[old.core]
  BY DEF Files
<1>4. DOMAIN o = {m.fd : m \in M} \cup {info[v.core] : v \in V \ {old}}
  BY <1>2, <1>3 DEF Files
<1>5. QED
  BY <1>1, <1>2, <1>3, <1>4 DEF Files

\* Nothing is opened or closed, and the static of no core in use changes.
LEMMA FilesKept ==
  ASSUME NEW open, NEW info, NEW M, NEW V, Files(open, info, M, V),
         NEW i, \A v \in V : i[v.core] = info[v.core],
         NEW o, DOMAIN o = DOMAIN open, \A f \in DOMAIN o : o[f] = open[f]
  PROVE  Files(o, i, M, V)
<1>1. \A v \in V : info[v.core] \in DOMAIN open
  BY DEF Files
<1>2. {i[v.core] : v \in V} = {info[v.core] : v \in V}
  OBVIOUS
<1>3. QED
  BY <1>1, <1>2 DEF Files

-----------------------------------------------------------------------------
(* Mappings.  One that failed is nobody's.                                   *)

LEMMA MapsAddMem ==
  ASSUME NEW mapped, NEW M, NEW V, NEW s, Maps(mapped, M, V, s),
         NEW mem, mem.map = Failed \/ mem.map \notin mapped,
         NEW m, m = (mapped \cup {mem.map}) \ {Failed}
  PROVE  Maps(m, M \cup {mem}, V, s)
<1>1. IsFiniteSet(m)
  <2>1. IsFiniteSet(mapped \cup {mem.map})
    BY FS_AddElement DEF Maps
  <2>2. QED
    BY <2>1, FS_RemoveElement DEF Maps
<1>2. \A n \in M : n.map = mem.map => n.map = Failed
  BY DEF Maps
<1>3. \A v \in V : v.map = mem.map => v.map = Failed
  BY DEF Maps
<1>4. ~s => \A x \in m : (\E n \in M \cup {mem} : n.map = x) \/ (\E v \in V : v.map = x)
  BY DEF Maps
<1>5. QED
  BY <1>1, <1>2, <1>3, <1>4 DEF Maps

LEMMA MapsDropMem ==
  ASSUME NEW mapped, NEW M, NEW V, NEW s, Maps(mapped, M, V, s),
         NEW mem \in M
  PROVE  Maps(mapped \ {mem.map}, M \ {mem}, V, s)
<1>1. IsFiniteSet(mapped \ {mem.map})
  BY FS_RemoveElement DEF Maps
<1>2. \A n \in M \ {mem} : n.map = mem.map => n.map = Failed
  BY DEF Maps
<1>3. \A v \in V : v.map = mem.map => v.map = Failed
  BY DEF Maps
<1>4. ~s => \A x \in mapped \ {mem.map} :
              (\E n \in M \ {mem} : n.map = x) \/ (\E v \in V : v.map = x)
  BY DEF Maps
<1>5. QED
  BY <1>1, <1>2, <1>3, <1>4 DEF Maps

LEMMA MapsAddCore ==
  ASSUME NEW mapped, NEW M, NEW V, NEW s, Maps(mapped, M, V, s),
         NEW new, new.map = Failed \/ new.map \notin mapped,
         NEW m, m = (mapped \cup {new.map}) \ {Failed}
  PROVE  Maps(m, M, V \cup {new}, s)
<1>1. IsFiniteSet(m)
  <2>1. IsFiniteSet(mapped \cup {new.map})
    BY FS_AddElement DEF Maps
  <2>2. QED
    BY <2>1, FS_RemoveElement DEF Maps
<1>2. \A n \in M : n.map = new.map => n.map = Failed
  BY DEF Maps
<1>3. \A v \in V : v.map = new.map => v.map = Failed
  BY DEF Maps
<1>4. ~s => \A x \in m : (\E n \in M : n.map = x) \/ (\E v \in V \cup {new} : v.map = x)
  BY DEF Maps
<1>5. QED
  BY <1>1, <1>2, <1>3, <1>4 DEF Maps

LEMMA MapsDropCore ==
  ASSUME NEW mapped, NEW M, NEW V, NEW s, Maps(mapped, M, V, s),
         NEW old \in V
  PROVE  Maps(mapped \ {old.map}, M, V \ {old}, s)
<1>1. IsFiniteSet(mapped \ {old.map})
  BY FS_RemoveElement DEF Maps
<1>2. \A n \in M : n.map = old.map => n.map = Failed
  BY DEF Maps
<1>3. \A v \in V \ {old} : v.map = old.map => v.map = Failed
  BY DEF Maps
<1>4. ~s => \A x \in mapped \ {old.map} :
              (\E n \in M : n.map = x) \/ (\E v \in V \ {old} : v.map = x)
  BY DEF Maps
<1>5. QED
  BY <1>1, <1>2, <1>3, <1>4 DEF Maps

\* The mapping that getSharedMemoryArea leaves behind when its malloc fails.
LEMMA MapsLeak ==
  ASSUME NEW mapped, NEW M, NEW V, NEW s, Maps(mapped, M, V, s),
         NEW map, map # Failed
  PROVE  Maps(mapped \cup {map}, M, V, TRUE)
<1>1. IsFiniteSet(mapped \cup {map})
  BY FS_AddElement DEF Maps
<1>2. QED
  BY <1>1 DEF Maps

-----------------------------------------------------------------------------
(* Structs.                                                                  *)

LEMMA BlocksAddMem ==
  ASSUME NEW heap, NEW M, NEW B, NEW s, Blocks(heap, M, B, s),
         NEW mem, mem.block \notin heap
  PROVE  Blocks(heap \cup {mem.block}, M \cup {mem}, B, s)
<1>1. IsFiniteSet(heap \cup {mem.block})
  BY FS_AddElement DEF Blocks
<1>2. QED
  BY <1>1 DEF Blocks

LEMMA BlocksDropMem ==
  ASSUME NEW heap, NEW M, NEW B, NEW s, Blocks(heap, M, B, s),
         NEW mem \in M
  PROVE  Blocks(heap \ {mem.block}, M \ {mem}, B, s)
<1>1. IsFiniteSet(heap \ {mem.block})
  BY FS_RemoveElement DEF Blocks
<1>2. QED
  BY <1>1 DEF Blocks

LEMMA BlocksAdd ==
  ASSUME NEW heap, NEW M, NEW B, NEW s, Blocks(heap, M, B, s),
         NEW block, block \notin heap
  PROVE  Blocks(heap \cup {block}, M, B \cup {block}, s)
<1>1. IsFiniteSet(heap \cup {block})
  BY FS_AddElement DEF Blocks
<1>2. QED
  BY <1>1 DEF Blocks

LEMMA BlocksDrop ==
  ASSUME NEW heap, NEW M, NEW B, NEW s, Blocks(heap, M, B, s),
         NEW blocks \in SUBSET B
  PROVE  Blocks(heap \ blocks, M, B \ blocks, s)
<1>1. IsFiniteSet(heap \ blocks)
  BY FS_Difference DEF Blocks
<1>2. QED
  BY <1>1 DEF Blocks

\* The struct that fpga_aes_new leaves behind when a malloc fails.
LEMMA Forgotten ==
  ASSUME NEW p, NEW M, NEW V, NEW B, NEW s, Books(p, M, V, B, s),
         NEW C \in SUBSET B
  PROVE  Books(p, M, V, C, TRUE)
<1>1. Maps(p.mapped, M, V, TRUE)
  BY DEF Books, Maps
<1>2. Blocks(p.heap, M, C, TRUE)
  BY DEF Books, Blocks
<1>3. QED
  BY <1>1, <1>2 DEF Books

LEMMA OnceStarved ==
  ASSUME NEW p, NEW M, NEW V, NEW B, NEW s \in BOOLEAN, NEW t \in BOOLEAN,
         Books(p, M, V, B, s), s => t
  PROVE  Books(p, M, V, B, t)
<1>1. CASE t
  <2>1. t = TRUE
    BY <1>1
  <2>2. QED
    BY <2>1, Forgotten
<1>2. CASE ~t
  <2>1. s = t
    BY <1>2
  <2>2. QED
    BY <2>1
<1>3. QED
  BY <1>1, <1>2

-----------------------------------------------------------------------------
(* user_mmap_driver.c.                                                       *)

\* What a call would be given next is not in the books.
LEMMA NextIsNew ==
  ASSUME NEW p, NEW M, NEW V, NEW B, NEW s, Books(p, M, V, B, s)
  PROVE  /\ FdOf(p) \notin DOMAIN p.open
         /\ MapOf(p) \notin p.mapped /\ MapOf(p) # Failed /\ MapOf(p) # Null
         /\ BlockOf(p) \notin p.heap
<1>1. IsFiniteSet(DOMAIN p.open) /\ IsFiniteSet(p.mapped) /\ IsFiniteSet(p.heap)
  BY DEF Books, Files, Maps, Blocks
<1>2. FdOf(p) \notin DOMAIN p.open
  BY <1>1, LowestIsNew DEF FdOf
<1>3. MapOf(p) \in Nat \ p.mapped /\ MapOf(p) >= 1
  BY <1>1, LowestIsNew DEF MapOf
<1>4. BlockOf(p) \notin p.heap
  BY <1>1, LowestIsNew DEF BlockOf
<1>5. QED
  BY <1>2, <1>3, <1>4 DEF Failed, Null

\* A call that opens a file and closes it changes nothing.
LEMMA OpenedAndClosed ==
  ASSUME NEW p, NEW M, NEW V, NEW B, NEW s, Books(p, M, V, B, s), NEW file
  PROVE  Books(Closed(Opened(p, file), FdOf(p)), M, V, B, s)
<1>1. IsProcess(p) /\ FdOf(p) \notin DOMAIN p.open
  BY NextIsNew DEF Books
<1>2. PICK o : o = Opened(p, file)
  OBVIOUS
<1>3. PICK q : q = Closed(o, FdOf(p))
  OBVIOUS
<1>4. /\ IsProcess(o) /\ DOMAIN o.open = DOMAIN p.open \cup {FdOf(p)}
      /\ \A f \in DOMAIN p.open \ {FdOf(p)} : o.open[f] = p.open[f]
      /\ o.mapped = p.mapped /\ o.heap = p.heap /\ o.info = p.info
  BY <1>1, <1>2, OpenedIs
<1>5. /\ IsProcess(q) /\ DOMAIN q.open = DOMAIN o.open \ {FdOf(p)}
      /\ \A f \in DOMAIN q.open : q.open[f] = o.open[f]
      /\ q.mapped = o.mapped /\ q.heap = o.heap /\ q.info = o.info
  BY <1>3, <1>4, ClosedIs
<1>6. DOMAIN q.open = DOMAIN p.open /\ \A f \in DOMAIN q.open : q.open[f] = p.open[f]
  BY <1>1, <1>4, <1>5
<1>7. Files(q.open, q.info, M, V)
  BY <1>4, <1>5, <1>6, FilesKept DEF Books
<1>8. Books(q, M, V, B, s)
  BY <1>4, <1>5, <1>7 DEF Books
<1>9. QED
  BY <1>2, <1>3, <1>8

\* The failing malloc of getSharedMemoryArea leaves the mapping.
LEMMA MappingLeft ==
  ASSUME NEW p, NEW M, NEW V, NEW B, NEW s, Books(p, M, V, B, s)
  PROVE  Books(Mapped(p), M, V, B, TRUE)
<1>1. IsProcess(p) /\ MapOf(p) # Failed
  BY NextIsNew DEF Books
<1>2. PICK q : q = Mapped(p)
  OBVIOUS
<1>3. /\ IsProcess(q) /\ q.mapped = p.mapped \cup {MapOf(p)}
      /\ q.open = p.open /\ q.heap = p.heap /\ q.info = p.info
  BY <1>1, <1>2, MappedIs
<1>4. Maps(q.mapped, M, V, TRUE)
  <2>1. Maps(p.mapped, M, V, s)
    BY DEF Books
  <2>2. Maps(p.mapped \cup {MapOf(p)}, M, V, TRUE)
    BY <1>1, <2>1, MapsLeak
  <2>3. QED
    BY <1>3, <2>2
<1>5. Blocks(q.heap, M, B, TRUE)
  BY <1>3 DEF Books, Blocks
<1>6. Books(q, M, V, B, TRUE)
  BY <1>3, <1>4, <1>5 DEF Books
<1>7. QED
  BY <1>2, <1>6

\* It is mapped while the file is open, which makes no difference.
LEMMA MappedThenClosed ==
  ASSUME NEW p, IsProcess(p), NEW fd
  PROVE  Closed(Mapped(p), fd) = Mapped(Closed(p, fd))
<1> DEFINE o == [f \in DOMAIN p.open \ {fd} |-> p.open[f]]
<1>1. p = [open |-> p.open, mapped |-> p.mapped, heap |-> p.heap, info |-> p.info]
  BY DEF IsProcess
<1>2. PICK c : c = Closed(p, fd)
  OBVIOUS
<1>3. PICK m : m = Mapped(p)
  OBVIOUS
<1>4. c = [open |-> o, mapped |-> p.mapped, heap |-> p.heap, info |-> p.info]
  BY <1>1, <1>2 DEF Closed, Restrict
<1>5. m = [open |-> p.open, mapped |-> p.mapped \cup {MapOf(p)}, heap |-> p.heap, info |-> p.info]
  BY <1>1, <1>3 DEF Mapped
<1>6. Closed(m, fd) = [open |-> o, mapped |-> p.mapped \cup {MapOf(p)}, heap |-> p.heap, info |-> p.info]
  BY <1>5 DEF Closed, Restrict
<1> HIDE DEF o
<1>7. MapOf(c) = MapOf(p)
  BY <1>4 DEF MapOf
<1>8. Mapped(c) = [open |-> o, mapped |-> p.mapped \cup {MapOf(p)}, heap |-> p.heap, info |-> p.info]
  BY <1>4, <1>7 DEF Mapped
<1>9. QED
  BY <1>2, <1>3, <1>6, <1>8

\* An area that is handed out, with its mapping or with one that failed.
LEMMA AreaGiven ==
  ASSUME NEW p, NEW M, NEW V, NEW B, NEW s, Books(p, M, V, B, s), NEW file,
         NEW q, NEW map,
         \/ q = Mapped(Opened(p, file)) /\ map = MapOf(Opened(p, file))
         \/ q = Opened(p, file) /\ map = Failed
  PROVE  \E mem : /\ mem \notin M /\ Area(q, FdOf(p), map).mem = {mem}
                  /\ Books(Area(q, FdOf(p), map).p, M \cup {mem}, V, B, s)
<1>1. /\ IsProcess(p) /\ FdOf(p) \notin DOMAIN p.open
      /\ MapOf(p) \notin p.mapped /\ MapOf(p) # Failed /\ BlockOf(p) \notin p.heap
      /\ Failed \notin p.mapped
  <2>1. IsProcess(p) /\ Failed \notin p.mapped
    BY DEF Books, Maps
  <2>2. QED
    BY <2>1, NextIsNew
<1>2. PICK o : o = Opened(p, file)
  OBVIOUS
<1>3. /\ IsProcess(o) /\ DOMAIN o.open = DOMAIN p.open \cup {FdOf(p)}
      /\ \A f \in DOMAIN p.open \ {FdOf(p)} : o.open[f] = p.open[f]
      /\ o.mapped = p.mapped /\ o.heap = p.heap /\ o.info = p.info
  BY <1>1, <1>2, OpenedIs
<1>4. MapOf(o) = MapOf(p)
  BY <1>3 DEF MapOf
<1>5. /\ IsProcess(q) /\ q.open = o.open /\ q.heap = p.heap /\ q.info = p.info
      /\ q.mapped = (p.mapped \cup {map}) \ {Failed}
      /\ map = Failed \/ map \notin p.mapped
  <2>1. CASE q = Mapped(o) /\ map = MapOf(o)
    <3>1. /\ IsProcess(q) /\ q.mapped = o.mapped \cup {MapOf(o)}
          /\ q.open = o.open /\ q.heap = o.heap /\ q.info = o.info
      BY <1>3, <2>1, MappedIs
    <3>2. QED
      BY <1>1, <1>3, <1>4, <2>1, <3>1
  <2>2. CASE q = o /\ map = Failed
    BY <1>1, <1>3, <2>2
  <2>3. QED
    BY <1>2, <2>1, <2>2
<1>6. PICK r : r = Malloced(q)
  OBVIOUS
<1>7. BlockOf(q) = BlockOf(p)
  BY <1>5 DEF BlockOf
<1>8. /\ IsProcess(r) /\ r.heap = p.heap \cup {BlockOf(p)}
      /\ r.open = o.open /\ r.mapped = (p.mapped \cup {map}) \ {Failed} /\ r.info = p.info
  BY <1>5, <1>6, <1>7, MallocedIs
<1>9. PICK mem : mem = [fd |-> FdOf(p), map |-> map, block |-> BlockOf(p)]
  OBVIOUS
<1>10. mem.fd = FdOf(p) /\ mem.map = map /\ mem.block = BlockOf(p)
  BY <1>9
<1>11. Files(r.open, r.info, M \cup {mem}, V)
  <2>1. DOMAIN r.open = DOMAIN p.open \cup {mem.fd} /\ mem.fd \notin DOMAIN p.open
    BY <1>1, <1>3, <1>8, <1>10
  <2>2. \A f \in DOMAIN p.open : r.open[f] = p.open[f]
    BY <1>1, <1>3, <1>8
  <2>3. Files(p.open, p.info, M, V)
    BY DEF Books
  <2>4. Files(r.open, p.info, M \cup {mem}, V)
    BY <2>1, <2>2, <2>3, FilesAddMem
  <2>5. QED
    BY <1>8, <2>4
<1>12. Maps(r.mapped, M \cup {mem}, V, s)
  BY <1>5, <1>8, <1>10, MapsAddMem DEF Books
<1>13. Blocks(r.heap, M \cup {mem}, B, s)
  BY <1>1, <1>8, <1>10, BlocksAddMem DEF Books
<1>14. Books(r, M \cup {mem}, V, B, s)
  BY <1>8, <1>11, <1>12, <1>13 DEF Books
<1>15. mem \notin M
  BY <1>1, <1>10 DEF Books, Files
<1>16. Area(q, FdOf(p), map).p = r /\ Area(q, FdOf(p), map).mem = {mem}
  BY <1>6, <1>7, <1>9 DEF Area
<1>17. QED
  BY <1>14, <1>15, <1>16

AreaRefused(area, M, V, B, s) == area.mem = {} /\ Books(area.p, M, V, B, s)
AreaHeld(area, M, V, B, s) ==
  \E mem : mem \notin M /\ area.mem = {mem} /\ Books(area.p, M \cup {mem}, V, B, s)

\* The two calls, whichever of their calls fails.
LEMMA AreaMade ==
  ASSUME NEW p, NEW M, NEW V, NEW B, NEW s, Books(p, M, V, B, s),
         NEW fault \in {None, "open", "mmap", "malloc"},
         NEW area, area = getSharedMemoryArea(p, fault) \/ area = getUioMemoryArea(p, fault)
  PROVE  \/ AreaRefused(area, M, V, B, s)
         \/ fault = "malloc" /\ AreaRefused(area, M, V, B, TRUE)
         \/ fault # "malloc" /\ AreaHeld(area, M, V, B, s)
<1>1. \A q : NoArea(q).p = q /\ NoArea(q).mem = {}
  BY DEF NoArea
<1>2. \A file : Books(Closed(Opened(p, file), FdOf(p)), M, V, B, s)
  BY OpenedAndClosed
<1>3. \A file : Books(Closed(Mapped(Opened(p, file)), FdOf(p)), M, V, B, TRUE)
  <2>1. TAKE file
  <2>2. IsProcess(Opened(p, file))
    BY OpenedIs DEF Books
  <2>3. QED
    BY <1>2, <2>2, MappingLeft, MappedThenClosed
<1>4. \A file : AreaHeld(Area(Mapped(Opened(p, file)), FdOf(p), MapOf(Opened(p, file))), M, V, B, s)
  BY AreaGiven DEF AreaHeld
<1>5. \A file : AreaHeld(Area(Opened(p, file), FdOf(p), Failed), M, V, B, s)
  BY AreaGiven DEF AreaHeld
<1>6. CASE fault = "open"
  <2>1. area = NoArea(p)
    BY <1>6 DEF getSharedMemoryArea, getUioMemoryArea
  <2>2. QED
    BY <1>1, <1>6, <2>1 DEF AreaRefused
<1>7. CASE fault = "mmap"
  <2>1. \/ area = NoArea(Closed(Opened(p, "/dev/mem"), FdOf(p)))
        \/ area = Area(Opened(p, "/dev/uio1"), FdOf(p), Failed)
    BY <1>7 DEF getSharedMemoryArea, getUioMemoryArea
  <2>2. fault # "malloc"
    BY <1>7
  <2>3. CASE area = NoArea(Closed(Opened(p, "/dev/mem"), FdOf(p)))
    BY <1>1, <1>2, <2>3 DEF AreaRefused
  <2>4. CASE area = Area(Opened(p, "/dev/uio1"), FdOf(p), Failed)
    BY <1>5, <2>2, <2>4
  <2>5. QED
    BY <2>1, <2>3, <2>4
<1>8. CASE fault = "malloc"
  <2>1. \E file : area = NoArea(Closed(Mapped(Opened(p, file)), FdOf(p)))
    BY <1>8 DEF getSharedMemoryArea, getUioMemoryArea
  <2>2. QED
    BY <1>1, <1>3, <1>8, <2>1 DEF AreaRefused
<1>9. CASE fault = None
  <2>1. \E file : area = Area(Mapped(Opened(p, file)), FdOf(p), MapOf(Opened(p, file)))
    BY <1>9 DEF getSharedMemoryArea, getUioMemoryArea, None
  <2>2. QED
    BY <1>4, <1>9, <2>1 DEF None
<1>10. QED
  BY <1>6, <1>7, <1>8, <1>9

\* cleanupSharedMemoryPointer gives back what the struct names and nothing else.
LEMMA CleanedUp ==
  ASSUME NEW p, NEW M, NEW V, NEW B, NEW s, Books(p, M, V, B, s), NEW mem \in M
  PROVE  Books(cleanupSharedMemoryPointer(p, mem), M \ {mem}, V, B, s)
<1>1. IsProcess(p)
  BY DEF Books
<1>2. PICK a : a = Unmapped(p, mem.map)
  OBVIOUS
<1>3. PICK c : c = Closed(a, mem.fd)
  OBVIOUS
<1>4. PICK q : q = Freed(c, {mem.block})
  OBVIOUS
<1>5. /\ IsProcess(a) /\ a.mapped = p.mapped \ {mem.map}
      /\ a.open = p.open /\ a.heap = p.heap /\ a.info = p.info
  BY <1>1, <1>2, UnmappedIs
<1>6. /\ IsProcess(c) /\ DOMAIN c.open = DOMAIN p.open \ {mem.fd}
      /\ \A f \in DOMAIN c.open : c.open[f] = p.open[f]
      /\ c.mapped = a.mapped /\ c.heap = p.heap /\ c.info = p.info
  BY <1>3, <1>5, ClosedIs
<1>7. /\ IsProcess(q) /\ q.heap = p.heap \ {mem.block}
      /\ q.open = c.open /\ q.mapped = p.mapped \ {mem.map} /\ q.info = p.info
  BY <1>4, <1>5, <1>6, FreedIs
<1>8. Files(q.open, q.info, M \ {mem}, V)
  <2>1. /\ DOMAIN q.open = DOMAIN p.open \ {mem.fd}
        /\ \A f \in DOMAIN q.open : q.open[f] = p.open[f]
    BY <1>6, <1>7
  <2>2. Files(p.open, p.info, M, V)
    BY DEF Books
  <2>3. Files(q.open, p.info, M \ {mem}, V)
    BY <2>1, <2>2, FilesDropMem
  <2>4. QED
    BY <1>7, <2>3
<1>9. Maps(q.mapped, M \ {mem}, V, s)
  BY <1>7, MapsDropMem DEF Books
<1>10. Blocks(q.heap, M \ {mem}, B, s)
  BY <1>7, BlocksDropMem DEF Books
<1>11. Books(q, M \ {mem}, V, B, s)
  BY <1>7, <1>8, <1>9, <1>10 DEF Books
<1>12. QED
  BY <1>2, <1>3, <1>4, <1>11 DEF cleanupSharedMemoryPointer

-----------------------------------------------------------------------------
(* The generated drivers.                                                    *)

\* uio_info of one driver.
Noted(p, core, fd) == [p EXCEPT !.info[core] = fd]

LEMMA InfoIs ==
  ASSUME NEW p, IsProcess(p), NEW core \in Hw, NEW fd, NEW q, q = Noted(p, core, fd)
  PROVE  /\ IsProcess(q) /\ q.info[core] = fd
         /\ \A c \in Hw \ {core} : q.info[c] = p.info[c]
         /\ q.open = p.open /\ q.mapped = p.mapped /\ q.heap = p.heap
<1> DEFINE i == [p.info EXCEPT ![core] = fd]
<1>1. q = [open |-> p.open, mapped |-> p.mapped, heap |-> p.heap, info |-> i]
  BY DEF IsProcess, Noted
<1>2. i = [c \in Hw |-> i[c]] /\ i[core] = fd /\ \A c \in Hw \ {core} : i[c] = p.info[c]
  BY DEF IsProcess
<1> HIDE DEF i
<1>3. QED
  BY <1>1, <1>2 DEF IsProcess

\* X*_Initialize on a core that is not in use: a core in use with a descriptor of its
\* file, whether or not it could be mapped, or nothing.
LEMMA Initialised ==
  ASSUME NEW p, NEW M, NEW V, NEW B, NEW s, Books(p, M, V, B, s),
         NEW core \in Hw, \A v \in V : v.core # core, NEW fault,
         NEW got, got = Initialize(p, core, fault)
  PROVE  /\ got.map = Null => Books(got.p, M, V, B, s)
         /\ got.map # Null => Books(got.p, M, V \cup {[core |-> core, map |-> got.map]}, B, s)
<1> PICK new : new = [core |-> core, map |-> got.map]
  OBVIOUS
<1>1. IsProcess(p) /\ Files(p.open, p.info, M, V) /\ Maps(p.mapped, M, V, s)
      /\ Blocks(p.heap, M, B, s) /\ Failed \notin p.mapped
  BY DEF Books, Maps
<1>2. /\ FdOf(p) \notin DOMAIN p.open
      /\ MapOf(p) \notin p.mapped /\ MapOf(p) # Failed /\ MapOf(p) # Null
  BY NextIsNew
<1>3. PICK u : u = Opened(p, core)
  OBVIOUS
<1>4. /\ IsProcess(u) /\ DOMAIN u.open = DOMAIN p.open \cup {FdOf(p)}
      /\ u.open[FdOf(p)] = core
      /\ \A f \in DOMAIN p.open \ {FdOf(p)} : u.open[f] = p.open[f]
      /\ u.mapped = p.mapped /\ u.heap = p.heap /\ u.info = p.info
  BY <1>1, <1>3, OpenedIs
<1>5. PICK o : o = Noted(u, core, FdOf(p))
  OBVIOUS
<1>6. /\ IsProcess(o) /\ o.info[core] = FdOf(p)
      /\ \A c \in Hw \ {core} : o.info[c] = p.info[c]
      /\ o.open = u.open /\ o.mapped = p.mapped /\ o.heap = p.heap
  <2>1. /\ IsProcess(o) /\ o.info[core] = FdOf(p)
        /\ \A c \in Hw \ {core} : o.info[c] = u.info[c]
        /\ o.open = u.open /\ o.mapped = u.mapped /\ o.heap = u.heap
    BY <1>4, <1>5, InfoIs
  <2>2. QED
    BY <1>4, <2>1
<1>7. MapOf(o) = MapOf(p)
  BY <1>6 DEF MapOf
<1>8. \A v \in V : o.info[v.core] = p.info[v.core]
  BY <1>6 DEF Books
<1>9. Files(o.open, o.info, M, V \cup {new})
  <2>1. new.core = core
    OBVIOUS
  <2>2. PICK i : i = o.info
    OBVIOUS
  <2>3. PICK h : h = o.open
    OBVIOUS
  <2>4. Files(p.open, p.info, M, V)
    BY <1>1
  <2>5. i[new.core] = FdOf(p)
    BY <1>6, <2>1, <2>2
  <2>6. \A v \in V : i[v.core] = p.info[v.core]
    BY <1>8, <2>2
  <2>7. DOMAIN h = DOMAIN p.open \cup {FdOf(p)}
    BY <1>4, <1>6, <2>3
  <2>8. \A f \in DOMAIN p.open : h[f] = p.open[f]
    BY <1>2, <1>4, <1>6, <2>3
  <2>9. h[FdOf(p)] = new.core
    BY <1>4, <1>6, <2>1, <2>3
  <2>10. /\ i[new.core] \notin DOMAIN p.open
         /\ DOMAIN h = DOMAIN p.open \cup {i[new.core]} /\ h[i[new.core]] = new.core
    BY <1>2, <2>5, <2>7, <2>9
  <2>11. Files(h, i, M, V \cup {new})
    <3>1. IsFiniteSet(DOMAIN h)
      <4>1. IsFiniteSet(DOMAIN p.open)
        BY <2>4 DEF Files
      <4>2. IsFiniteSet(DOMAIN p.open \cup {i[new.core]})
        BY <4>1, FS_AddElement
      <4>3. QED
        BY <2>10, <4>2
    <3>2. DOMAIN h = {m.fd : m \in M} \cup {i[v.core] : v \in V \cup {new}}
      <4>1. DOMAIN p.open = {m.fd : m \in M} \cup {i[v.core] : v \in V}
        BY <2>4, <2>6 DEF Files
      <4>2. QED
        BY <2>10, <4>1
    <3>3. \A m \in M : m.fd \in DOMAIN p.open /\ m.fd # i[new.core]
      BY <2>4, <2>10 DEF Files
    <3>4. \A v \in V : i[v.core] # i[new.core] /\ i[v.core] \in DOMAIN p.open
      BY <2>4, <2>6, <2>10 DEF Files
    <3>5. \A v, w \in V \cup {new} : i[v.core] = i[w.core] => v = w
      BY <2>4, <2>6, <3>4 DEF Files
    <3>6. \A m \in M, v \in V \cup {new} : m.fd # i[v.core]
      BY <2>4, <2>6, <3>3 DEF Files
    <3>7. \A v \in V \cup {new} : h[i[v.core]] = v.core
      BY <2>4, <2>6, <2>8, <2>10, <3>4 DEF Files
    <3>8. \A m, n \in M : m.fd = n.fd => m = n
      BY <2>4 DEF Files
    <3>9. QED
      BY <3>1, <3>2, <3>5, <3>6, <3>7, <3>8 DEF Files
  <2>12. QED
    BY <2>2, <2>3, <2>11
<1>10. CASE fault = "find"
  BY <1>10 DEF Initialize, Noted, Uninitialised
<1>11. CASE fault = "open"
  <2>1. PICK q : q = Noted(p, core, -1)
    OBVIOUS
  <2>2. /\ IsProcess(q) /\ \A c \in Hw \ {core} : q.info[c] = p.info[c]
        /\ q.open = p.open /\ q.mapped = p.mapped /\ q.heap = p.heap
    BY <1>1, <2>1, InfoIs
  <2>3. \A v \in V : q.info[v.core] = p.info[v.core]
    BY <2>2 DEF Books
  <2>4. Files(q.open, q.info, M, V)
    BY <1>1, <2>2, <2>3, FilesKept
  <2>5. Books(q, M, V, B, s)
    BY <1>1, <2>2, <2>4 DEF Books
  <2>6. got.p = q /\ got.map = Null
    BY <1>11, <2>1 DEF Initialize, Noted, Uninitialised
  <2>7. QED
    BY <2>5, <2>6
<1>12. CASE fault = "mmap"
  <2>1. got.p = o /\ got.map = Failed /\ Failed # Null
    BY <1>3, <1>5, <1>12 DEF Initialize, Noted, Failed, Null
  <2>2. new.map = Failed /\ new.core = core
    BY <2>1
  <2>3. Maps(o.mapped, M, V \cup {new}, s)
    BY <1>1, <1>6, <2>2, MapsAddCore
  <2>4. Books(o, M, V \cup {new}, B, s)
    BY <1>1, <1>6, <1>9, <2>2, <2>3 DEF Books
  <2>5. QED
    BY <2>1, <2>4
<1>13. CASE fault \notin {"find", "open", "mmap"}
  <2>1. PICK q : q = Mapped(o)
    OBVIOUS
  <2>2. got.p = q /\ got.map = MapOf(p)
    BY <1>3, <1>5, <1>7, <1>13, <2>1 DEF Initialize, Noted
  <2>3. /\ IsProcess(q) /\ q.mapped = p.mapped \cup {MapOf(p)}
        /\ q.open = o.open /\ q.heap = p.heap /\ q.info = o.info
    BY <1>6, <1>7, <2>1, MappedIs
  <2>4. new.map = MapOf(p) /\ new.core = core
    BY <2>2
  <2>5. q.mapped = (p.mapped \cup {new.map}) \ {Failed}
    BY <1>1, <1>2, <2>3, <2>4
  <2>6. Maps(q.mapped, M, V \cup {new}, s)
    BY <1>1, <1>2, <2>4, <2>5, MapsAddCore
  <2>7. Books(q, M, V \cup {new}, B, s)
    BY <1>1, <1>9, <2>3, <2>4, <2>6 DEF Books
  <2>8. QED
    BY <1>2, <2>2, <2>7
<1>14. QED
  BY <1>10, <1>11, <1>12, <1>13

\* It fails where the core is not found or cannot be opened, not where it cannot be
\* mapped.
LEMMA InitialiseFails ==
  ASSUME NEW p, NEW M, NEW V, NEW B, NEW s, Books(p, M, V, B, s),
         NEW core \in Hw, NEW fault, NEW got, got = Initialize(p, core, fault)
  PROVE  got.map = Null <=> fault \in {"find", "open"}
<1>1. PICK o : o = Noted(Opened(p, core), core, FdOf(p))
  OBVIOUS
<1>2. IsProcess(p) /\ IsProcess(Opened(p, core))
  BY OpenedIs DEF Books
<1>3. o.mapped = p.mapped
  <2>1. Opened(p, core).mapped = p.mapped
    BY <1>2, OpenedIs
  <2>2. QED
    BY <1>1, <1>2, <2>1, InfoIs
<1>4. MapOf(o) = MapOf(p) /\ MapOf(p) # Null
  BY <1>3, NextIsNew DEF MapOf
<1>5. CASE fault \in {"find", "open"}
  BY <1>5 DEF Initialize, Uninitialised
<1>6. CASE fault = "mmap"
  BY <1>6 DEF Initialize, Failed, Null
<1>7. CASE fault \notin {"find", "open", "mmap"}
  BY <1>1, <1>4, <1>7 DEF Initialize, Noted
<1>8. QED
  BY <1>5, <1>6, <1>7

\* X*_Release gives back the descriptor and the mapping of its core.
LEMMA Released ==
  ASSUME NEW p, NEW M, NEW V, NEW B, NEW s, Books(p, M, V, B, s), NEW v \in V
  PROVE  Books(Release(p, v.core, v.map), M, V \ {v}, B, s)
<1>1. IsProcess(p) /\ Files(p.open, p.info, M, V) /\ Maps(p.mapped, M, V, s)
      /\ Blocks(p.heap, M, B, s)
  BY DEF Books
<1>2. PICK a : a = Unmapped(p, v.map)
  OBVIOUS
<1>3. PICK q : q = Closed(a, p.info[v.core])
  OBVIOUS
<1>4. /\ IsProcess(a) /\ a.mapped = p.mapped \ {v.map}
      /\ a.open = p.open /\ a.heap = p.heap /\ a.info = p.info
  BY <1>1, <1>2, UnmappedIs
<1>5. /\ IsProcess(q) /\ DOMAIN q.open = DOMAIN p.open \ {p.info[v.core]}
      /\ \A f \in DOMAIN q.open : q.open[f] = p.open[f]
      /\ q.mapped = p.mapped \ {v.map} /\ q.heap = p.heap /\ q.info = p.info
  BY <1>3, <1>4, ClosedIs
<1>6. Files(q.open, p.info, M, V \ {v})
  <2>1. PICK o : o = q.open
    OBVIOUS
  <2>2. DOMAIN o = DOMAIN p.open \ {p.info[v.core]} /\ \A f \in DOMAIN o : o[f] = p.open[f]
    BY <1>5, <2>1
  <2>3. Files(p.open, p.info, M, V)
    BY <1>1
  <2>4. Files(o, p.info, M, V \ {v})
    BY <2>2, <2>3, FilesDropCore
  <2>5. QED
    BY <2>1, <2>4
<1>7. Maps(q.mapped, M, V \ {v}, s)
  BY <1>1, <1>5, MapsDropCore
<1>8. Books(q, M, V \ {v}, B, s)
  BY <1>1, <1>5, <1>6, <1>7 DEF Books
<1>9. QED
  BY <1>2, <1>3, <1>8 DEF Release

-----------------------------------------------------------------------------
(* aes_fpga.c.                                                               *)

LEMMA MallocedBooks ==
  ASSUME NEW p, NEW M, NEW V, NEW B, NEW s, Books(p, M, V, B, s)
  PROVE  Books(Malloced(p), M, V, B \cup {BlockOf(p)}, s)
<1>1. IsProcess(p) /\ Blocks(p.heap, M, B, s) /\ BlockOf(p) \notin p.heap
  BY NextIsNew DEF Books
<1>2. PICK q : q = Malloced(p)
  OBVIOUS
<1>3. /\ IsProcess(q) /\ q.heap = p.heap \cup {BlockOf(p)}
      /\ q.open = p.open /\ q.mapped = p.mapped /\ q.info = p.info
  BY <1>1, <1>2, MallocedIs
<1>4. Blocks(q.heap, M, B \cup {BlockOf(p)}, s)
  BY <1>1, <1>3, BlocksAdd
<1>5. Books(q, M, V, B \cup {BlockOf(p)}, s)
  BY <1>3, <1>4 DEF Books
<1>6. QED
  BY <1>2, <1>5

LEMMA FreedBooks ==
  ASSUME NEW p, NEW M, NEW V, NEW B, NEW s, Books(p, M, V, B, s)
  PROVE  Books(Freed(p, B), M, V, {}, s)
<1>1. IsProcess(p) /\ Blocks(p.heap, M, B, s)
  BY DEF Books
<1>2. PICK q : q = Freed(p, B)
  OBVIOUS
<1>3. /\ IsProcess(q) /\ q.heap = p.heap \ B
      /\ q.open = p.open /\ q.mapped = p.mapped /\ q.info = p.info
  BY <1>1, <1>2, FreedIs
<1>4. Blocks(q.heap, M, B \ B, s)
  BY <1>1, <1>3, BlocksDrop
<1>5. B \ B = {}
  OBVIOUS
<1>6. Books(q, M, V, {}, s)
  BY <1>3, <1>4, <1>5 DEF Books
<1>7. QED
  BY <1>2, <1>6

\* Giving up gives back the blocks so far, and reset_axi once it is initialised.
LEMMA GaveUp ==
  ASSUME NEW p, NEW M, NEW V, NEW W, NEW B, NEW s, Books(p, M, W, B, s), NEW reset,
         \/ reset = Null /\ W = V
         \/ /\ reset # Null /\ W = V \cup {[core |-> "XReset_axi", map |-> reset]}
            /\ \A v \in V : v.core # "XReset_axi"
  PROVE  Books(GiveUp(p, B, reset), M, V, {}, s)
<1>1. CASE reset = Null /\ W = V
  BY <1>1, FreedBooks DEF GiveUp
<1>2. CASE /\ reset # Null /\ W = V \cup {[core |-> "XReset_axi", map |-> reset]}
           /\ \A v \in V : v.core # "XReset_axi"
  <2>1. PICK r : r = [core |-> "XReset_axi", map |-> reset]
    OBVIOUS
  <2>2. r \in W /\ W \ {r} = V /\ r.core = "XReset_axi" /\ r.map = reset
    BY <1>2, <2>1
  <2>3. PICK q : q = XReset_axi_Release(p, reset)
    OBVIOUS
  <2>4. Books(Release(p, r.core, r.map), M, W \ {r}, B, s)
    BY <2>2, Released
  <2>5. Books(q, M, V, B, s)
    BY <2>2, <2>3, <2>4 DEF XReset_axi_Release
  <2>6. Books(Freed(q, B), M, V, {}, s)
    BY <2>5, FreedBooks
  <2>7. QED
    BY <1>2, <2>3, <2>6 DEF GiveUp
<1>3. QED
  BY <1>1, <1>2

NoCipher(got, M, V, s) == got.cipher = {} /\ Books(got.p, M, V, {}, s)
ACipher(got, M, V, s) ==
  \E c : got.cipher = {c} /\ Books(got.p, M, V \cup CoresOf(c), c.blocks, s)

LEMMA NothingMade ==
  ASSUME NEW q, NEW M, NEW V, NEW s, Books(q, M, V, {}, s),
         NEW got, got = [p |-> q, cipher |-> {}]
  PROVE  NoCipher(got, M, V, s)
<1>1. got.p = q /\ got.cipher = {}
  OBVIOUS
<1>2. QED
  BY <1>1 DEF NoCipher

\* fpga_aes_new, whichever of its calls fails: a cipher with two cores and four
\* blocks, or nothing but, where the malloc of iv fails, the struct.
LEMMA CipherMade ==
  ASSUME NEW p, NEW M, NEW V, NEW s, Books(p, M, V, {}, s),
         {"XReset_axi", "XAes"} \subseteq Hw,
         \A v \in V : v.core \notin {"XReset_axi", "XAes"},
         NEW fault \in Faults,
         NEW got, got = fpga_aes_new(p, fault)
  PROVE  \/ NoCipher(got, M, V, s)
         \/ fault = <<"malloc", "iv">> /\ NoCipher(got, M, V, TRUE)
         \/ ACipher(got, M, V, s)
<1>1. PICK c : c = Malloced(p)
  OBVIOUS
<1>2. PICK v : v = Malloced(c)
  OBVIOUS
<1>3. PICK x : x = Malloced(v)
  OBVIOUS
<1>4. PICK first : first = {BlockOf(p), BlockOf(c)}
  OBVIOUS
<1>5. PICK three : three = first \cup {BlockOf(v)}
  OBVIOUS
<1>6. PICK rfault : rfault = IF fault[2] = "XReset_axi" THEN fault[1] ELSE None
  OBVIOUS
<1>7. PICK reset : reset = Initialize(x, "XReset_axi", rfault)
  OBVIOUS
<1>8. PICK a : a = Malloced(reset.p)
  OBVIOUS
<1>9. PICK four : four = three \cup {BlockOf(reset.p)}
  OBVIOUS
<1>10. PICK afault : afault = IF fault[2] = "XAes" THEN fault[1] ELSE None
  OBVIOUS
<1>11. PICK aes : aes = Initialize(a, "XAes", afault)
  OBVIOUS
<1>12. PICK made : made = [reset |-> reset.map, aes |-> aes.map, blocks |-> four]
  OBVIOUS
<1>13. got = CASE fault = <<"malloc", "cipher">>    -> [p |-> p, cipher |-> {}]
               [] fault = <<"malloc", "iv">>        -> [p |-> c, cipher |-> {}]
               [] fault = <<"malloc", "XReset_axi">> -> [p |-> GiveUp(v, first, Null), cipher |-> {}]
               [] reset.map = Null                  -> [p |-> GiveUp(reset.p, three, Null), cipher |-> {}]
               [] fault = <<"malloc", "XAes">>       -> [p |-> GiveUp(reset.p, three, reset.map), cipher |-> {}]
               [] aes.map = Null                    -> [p |-> GiveUp(aes.p, four, reset.map), cipher |-> {}]
               [] OTHER -> [p |-> aes.p, cipher |-> {made}]
  BY <1>1, <1>2, <1>3, <1>4, <1>5, <1>6, <1>7, <1>8, <1>9, <1>10, <1>11, <1>12
     DEF fpga_aes_new, XReset_axi_Initialize, XAes_Initialize
<1>14. Books(c, M, V, {BlockOf(p)}, s)
  <2>1. {} \cup {BlockOf(p)} = {BlockOf(p)}
    OBVIOUS
  <2>2. Books(c, M, V, {} \cup {BlockOf(p)}, s)
    BY <1>1, MallocedBooks
  <2>3. QED
    BY <2>1, <2>2
<1>15. Books(v, M, V, first, s)
  <2>1. first = {BlockOf(p)} \cup {BlockOf(c)}
    BY <1>4
  <2>2. QED
    BY <1>2, <1>14, <2>1, MallocedBooks
<1>16. Books(x, M, V, three, s)
  BY <1>3, <1>5, <1>15, MallocedBooks
<1>17. PICK r : r = [core |-> "XReset_axi", map |-> reset.map]
  OBVIOUS
<1>18. PICK W : W = V \cup {r}
  OBVIOUS
<1>19. /\ reset.map = Null => Books(reset.p, M, V, three, s)
       /\ reset.map # Null => Books(reset.p, M, W, three, s)
  BY <1>7, <1>16, <1>17, <1>18, Initialised
<1>20. /\ reset.map = Null => Books(a, M, V, four, s)
       /\ reset.map # Null => Books(a, M, W, four, s)
  BY <1>8, <1>9, <1>19, MallocedBooks
<1>21. /\ \A w \in V : w.core # "XAes"
       /\ \A w \in W : w.core # "XAes"
  BY <1>17, <1>18
<1>22. PICK e : e = [core |-> "XAes", map |-> aes.map]
  OBVIOUS
<1>23. reset.map # Null =>
         /\ aes.map = Null => Books(aes.p, M, W, four, s)
         /\ aes.map # Null => Books(aes.p, M, W \cup {e}, four, s)
  BY <1>11, <1>20, <1>21, <1>22, Initialised
<1>24. W \cup {e} = V \cup CoresOf(made) /\ made.blocks = four
  BY <1>12, <1>17, <1>18, <1>22 DEF CoresOf
<1>25. reset.map = Null <=> fault \in {"find", "open"} \X {"XReset_axi"}
  <2>1. reset.map = Null <=> rfault \in {"find", "open"}
    BY <1>7, <1>16, InitialiseFails
  <2>2. QED
    BY <1>6, <2>1 DEF Faults, None
<1>26. aes.map = Null <=> fault \in {"find", "open"} \X {"XAes"}
  <2>1. CASE reset.map = Null
    <3>1. aes.map = Null <=> afault \in {"find", "open"}
      BY <1>11, <1>20, <2>1, InitialiseFails
    <3>2. QED
      BY <1>10, <3>1 DEF Faults, None
  <2>2. CASE reset.map # Null
    <3>1. aes.map = Null <=> afault \in {"find", "open"}
      BY <1>11, <1>20, <2>2, InitialiseFails
    <3>2. QED
      BY <1>10, <3>1 DEF Faults, None
  <2>3. QED
    BY <2>1, <2>2
<1>27. CASE fault = <<"malloc", "cipher">>
  <2>1. reset.map # Null /\ aes.map # Null
    BY <1>25, <1>26, <1>27
  <2>2. got = [p |-> p, cipher |-> {}]
    BY <1>13, <1>27, <2>1
  <2>3. QED
    BY <2>2, NothingMade
<1>28. CASE fault = <<"malloc", "iv">>
  <2>1. reset.map # Null /\ aes.map # Null
    BY <1>25, <1>26, <1>28
  <2>2. got = [p |-> c, cipher |-> {}]
    BY <1>13, <1>28, <2>1
  <2>3. Books(c, M, V, {}, TRUE)
    BY <1>14, Forgotten
  <2>4. QED
    BY <1>28, <2>2, <2>3, NothingMade
<1>29. CASE fault = <<"malloc", "XReset_axi">>
  <2>1. reset.map # Null /\ aes.map # Null
    BY <1>25, <1>26, <1>29
  <2>2. got = [p |-> GiveUp(v, first, Null), cipher |-> {}]
    BY <1>13, <1>29, <2>1
  <2>3. Books(GiveUp(v, first, Null), M, V, {}, s)
    BY <1>15, GaveUp
  <2>4. QED
    BY <2>2, <2>3, NothingMade
<1>30. CASE reset.map = Null
  <2>1. fault \in {"find", "open"} \X {"XReset_axi"}
    BY <1>25, <1>30
  <2>2. aes.map # Null
    BY <1>26, <2>1
  <2>3. got = [p |-> GiveUp(reset.p, three, Null), cipher |-> {}]
    BY <1>13, <1>30, <2>1, <2>2
  <2>4. Books(GiveUp(reset.p, three, Null), M, V, {}, s)
    BY <1>19, <1>30, GaveUp
  <2>5. QED
    BY <2>3, <2>4, NothingMade
<1>31. reset.map # Null => \A v_1 \in V : v_1.core # "XReset_axi"
  OBVIOUS
<1>32. CASE fault = <<"malloc", "XAes">>
  <2>1. reset.map # Null /\ aes.map # Null
    BY <1>25, <1>26, <1>32
  <2>2. got = [p |-> GiveUp(reset.p, three, reset.map), cipher |-> {}]
    BY <1>13, <1>32, <2>1
  <2>3. Books(GiveUp(reset.p, three, reset.map), M, V, {}, s)
    BY <1>17, <1>18, <1>19, <1>31, <2>1, GaveUp
  <2>4. QED
    BY <2>2, <2>3, NothingMade
<1>33. CASE aes.map = Null
  <2>1. fault \in {"find", "open"} \X {"XAes"}
    BY <1>26, <1>33
  <2>2. reset.map # Null
    BY <1>25, <2>1
  <2>3. got = [p |-> GiveUp(aes.p, four, reset.map), cipher |-> {}]
    BY <1>13, <1>33, <2>1, <2>2
  <2>4. Books(GiveUp(aes.p, four, reset.map), M, V, {}, s)
    BY <1>17, <1>18, <1>23, <1>31, <1>33, <2>2, GaveUp
  <2>5. QED
    BY <2>3, <2>4, NothingMade
<1>34. CASE /\ fault # <<"malloc", "cipher">> /\ fault # <<"malloc", "iv">>
            /\ fault # <<"malloc", "XReset_axi">> /\ fault # <<"malloc", "XAes">>
            /\ reset.map # Null /\ aes.map # Null
  <2>1. got = [p |-> aes.p, cipher |-> {made}]
    BY <1>13, <1>34
  <2>2. Books(aes.p, M, V \cup CoresOf(made), made.blocks, s)
    BY <1>23, <1>24, <1>34
  <2>3. got.p = aes.p /\ got.cipher = {made}
    BY <2>1
  <2>4. got.cipher = {made} /\ Books(got.p, M, V \cup CoresOf(made), made.blocks, s)
    BY <2>2, <2>3
  <2>5. QED
    BY <2>4 DEF ACipher
<1>35. QED
  BY <1>27, <1>28, <1>29, <1>30, <1>32, <1>33, <1>34

\* fpga_aes_free gives back both cores and the four blocks.
LEMMA CipherFreed ==
  ASSUME NEW p, NEW M, NEW V, NEW c, NEW s, Books(p, M, V \cup CoresOf(c), c.blocks, s),
         \A v \in V : v.core \notin {"XReset_axi", "XAes"}
  PROVE  Books(fpga_aes_free(p, c), M, V, {}, s)
<1>1. PICK r : r = [core |-> "XReset_axi", map |-> c.reset]
  OBVIOUS
<1>2. PICK e : e = [core |-> "XAes", map |-> c.aes]
  OBVIOUS
<1>3. PICK W : W = V \cup {r, e}
  OBVIOUS
<1>4. Books(p, M, W, c.blocks, s)
  BY <1>1, <1>2, <1>3 DEF CoresOf
<1>5. /\ r.core = "XReset_axi" /\ r.map = c.reset
      /\ e.core = "XAes" /\ e.map = c.aes /\ r # e
  BY <1>1, <1>2
<1>6. r \in W /\ e \in W \ {r} /\ (W \ {r}) \ {e} = V
  BY <1>3, <1>5
<1>7. PICK q : q = XReset_axi_Release(p, c.reset)
  OBVIOUS
<1>8. Books(q, M, W \ {r}, c.blocks, s)
  <2>1. Books(Release(p, r.core, r.map), M, W \ {r}, c.blocks, s)
    BY <1>4, <1>6, Released
  <2>2. QED
    BY <1>5, <1>7, <2>1 DEF XReset_axi_Release
<1>9. PICK z : z = XAes_Release(q, c.aes)
  OBVIOUS
<1>10. Books(z, M, V, c.blocks, s)
  <2>1. Books(Release(q, e.core, e.map), M, (W \ {r}) \ {e}, c.blocks, s)
    BY <1>6, <1>8, Released
  <2>2. QED
    BY <1>5, <1>6, <1>9, <2>1 DEF XAes_Release
<1>11. Books(Freed(z, c.blocks), M, V, {}, s)
  BY <1>10, FreedBooks
<1>12. QED
  BY <1>7, <1>9, <1>11 DEF fpga_aes_free

-----------------------------------------------------------------------------
(* The invariant.                                                            *)

LEMMA NothingHeld == Books(Fresh, {}, {}, {}, FALSE)
<1>1. Fresh = [open |-> <<>>, mapped |-> {}, heap |-> {}, info |-> [core \in Hw |-> 0]]
  BY DEF Fresh
<1>2. DOMAIN Fresh.open = {} /\ Fresh.mapped = {} /\ Fresh.heap = {}
  BY <1>1
<1>3. IsProcess(Fresh)
  BY <1>1 DEF IsProcess
<1>4. IsFiniteSet({})
  BY FS_EmptySet
<1>5. Files(Fresh.open, Fresh.info, {}, {}) /\ Maps(Fresh.mapped, {}, {}, FALSE)
      /\ Blocks(Fresh.heap, {}, {}, FALSE)
  BY <1>2, <1>4 DEF Files, Maps, Blocks
<1>6. QED
  BY <1>3, <1>5 DEF Books

LEMMA HeldFacts ==
  /\ \A d : Held(d, {}) = d /\ BlocksOf({}) = {}
  /\ \A d, c : Held(d, {c}) = d \cup CoresOf(c) /\ BlocksOf({c}) = c.blocks
BY DEF Held, BlocksOf

\* A cipher, if there is one, is the only one.
LEMMA OneCipher ==
  ASSUME NEW ci, \A c, d \in ci : c = d
  PROVE  ci = {} \/ \E c \in ci : ci = {c}
OBVIOUS

LEMMA InitInv == Init => IInv
<1> SUFFICES ASSUME Init PROVE IInv
  OBVIOUS
<1>1. Books(proc, mems, Held(devices, cipher), BlocksOf(cipher), starved)
  BY NothingHeld, HeldFacts DEF Init
<1>2. IsFiniteSet(mems) /\ IsFiniteSet(devices)
  BY FS_EmptySet DEF Init
<1>3. QED
  BY <1>1, <1>2 DEF Init, IInv

\* A process that has ended holds nothing.
LEMMA DeadInv == IInv /\ Dies /\ program' = program => IInv'
<1> SUFFICES ASSUME IInv, Dies, program' = program PROVE IInv'
  OBVIOUS
<1>1. Books(proc', mems', Held(devices', cipher'), BlocksOf(cipher'), starved')
  BY NothingHeld, HeldFacts DEF Dies
<1>2. IsFiniteSet(mems') /\ IsFiniteSet(devices')
  BY FS_EmptySet DEF Dies
<1>3. QED
  BY <1>1, <1>2 DEF Dies, IInv

LEMMA MapAreaInv == IInv /\ MapArea /\ program' = program => IInv'
<1> SUFFICES ASSUME IInv, MapArea, program' = program PROVE IInv'
  OBVIOUS
<1> DEFINE V == Held(devices, cipher)
<1> DEFINE B == BlocksOf(cipher)
<1>1. PICK fault \in {None, "open", "mmap", "malloc"} :
      \E area \in {getSharedMemoryArea(proc, fault), getUioMemoryArea(proc, fault)} :
        /\ proc' = area.p /\ mems' = mems \cup area.mem
        /\ Starves(fault) /\ UNCHANGED <<devices, cipher>>
  BY DEF MapArea
<1>2. PICK area \in {getSharedMemoryArea(proc, fault), getUioMemoryArea(proc, fault)} :
        /\ proc' = area.p /\ mems' = mems \cup area.mem
        /\ Starves(fault) /\ UNCHANGED <<devices, cipher>>
  BY <1>1
<1>3. Books(proc, mems, V, B, starved) /\ starved \in BOOLEAN /\ IsFiniteSet(mems)
  BY DEF IInv
<1>4. starved' = (starved \/ fault = "malloc")
  BY <1>2 DEF Starves
<1> HIDE DEF V, B
<1>5. \/ AreaRefused(area, mems, V, B, starved)
      \/ fault = "malloc" /\ AreaRefused(area, mems, V, B, TRUE)
      \/ fault # "malloc" /\ AreaHeld(area, mems, V, B, starved)
  <2>1. area = getSharedMemoryArea(proc, fault) \/ area = getUioMemoryArea(proc, fault)
    OBVIOUS
  <2>2. Books(proc, mems, V, B, starved)
    BY <1>3
  <2>3. QED
    BY <2>1, <2>2, AreaMade
<1>6. Books(proc', mems', V, B, starved') /\ IsFiniteSet(mems')
  <2>1. CASE AreaRefused(area, mems, V, B, starved)
    <3>1. mems' = mems /\ proc' = area.p
      BY <1>2, <2>1 DEF AreaRefused
    <3>2. starved' \in BOOLEAN /\ (starved => starved')
      BY <1>3, <1>4
    <3>3. Books(proc', mems', V, B, starved')
      BY <1>3, <2>1, <3>1, <3>2, OnceStarved DEF AreaRefused
    <3>4. QED
      BY <1>3, <3>1, <3>3
  <2>2. CASE fault = "malloc" /\ AreaRefused(area, mems, V, B, TRUE)
    <3>1. mems' = mems /\ proc' = area.p /\ starved' = TRUE
      BY <1>2, <1>4, <2>2 DEF AreaRefused
    <3>2. QED
      BY <1>3, <2>2, <3>1 DEF AreaRefused
  <2>3. CASE fault # "malloc" /\ AreaHeld(area, mems, V, B, starved)
    <3>1. PICK mem : mem \notin mems /\ area.mem = {mem}
                     /\ Books(area.p, mems \cup {mem}, V, B, starved)
      BY <2>3 DEF AreaHeld
    <3>2. mems' = mems \cup {mem} /\ proc' = area.p
      BY <1>2, <3>1
    <3>3. starved' = starved
      BY <1>3, <1>4, <2>3
    <3>4. IsFiniteSet(mems')
      BY <1>3, <3>2, FS_AddElement
    <3>5. QED
      BY <3>1, <3>2, <3>3, <3>4
  <2>4. QED
    BY <1>5, <2>1, <2>2, <2>3
<1>7. Books(proc', mems', Held(devices', cipher'), BlocksOf(cipher'), starved')
  BY <1>2, <1>6 DEF V, B
<1>8. starved' \in BOOLEAN
  BY <1>3, <1>4
<1>9. QED
  BY <1>2, <1>6, <1>7, <1>8 DEF IInv

LEMMA UnmapAreaInv == IInv /\ UnmapArea /\ program' = program => IInv'
<1> SUFFICES ASSUME IInv, UnmapArea, program' = program PROVE IInv'
  OBVIOUS
<1>1. PICK mem \in mems : /\ proc' = cleanupSharedMemoryPointer(proc, mem)
                          /\ mems' = mems \ {mem}
                          /\ UNCHANGED <<devices, cipher, starved>>
  BY DEF UnmapArea
<1>2. Books(proc', mems', Held(devices, cipher), BlocksOf(cipher), starved)
  BY <1>1, CleanedUp DEF IInv
<1>3. IsFiniteSet(mems')
  BY <1>1, FS_RemoveElement DEF IInv
<1>4. QED
  BY <1>1, <1>2, <1>3 DEF IInv

LEMMA AccessValueInv == IInv /\ AccessValue /\ program' = program => IInv'
<1> SUFFICES ASSUME IInv, AccessValue, program' = program PROVE IInv'
  OBVIOUS
<1> DEFINE V == Held(devices, cipher)
<1> DEFINE B == BlocksOf(cipher)
<1>1. PICK fault \in {None, "open", "mmap", "malloc"}, write \in BOOLEAN :
      \E area \in {getSharedMemoryArea(proc, fault), getUioMemoryArea(proc, fault)} :
        IF area.mem = {}
        THEN \/ ~write /\ proc' = area.p /\ Starves(fault) /\ UNCHANGED <<mems, devices, cipher>>
             \/ write /\ Dies
        ELSE \E mem \in area.mem :
               IF mem.map = Failed THEN Dies
               ELSE /\ proc' = cleanupSharedMemoryPointer(area.p, mem)
                    /\ UNCHANGED <<mems, devices, cipher, starved>>
  BY DEF AccessValue
<1>2. PICK area \in {getSharedMemoryArea(proc, fault), getUioMemoryArea(proc, fault)} :
        IF area.mem = {}
        THEN \/ ~write /\ proc' = area.p /\ Starves(fault) /\ UNCHANGED <<mems, devices, cipher>>
             \/ write /\ Dies
        ELSE \E mem \in area.mem :
               IF mem.map = Failed THEN Dies
               ELSE /\ proc' = cleanupSharedMemoryPointer(area.p, mem)
                    /\ UNCHANGED <<mems, devices, cipher, starved>>
  BY <1>1
<1>3. Books(proc, mems, V, B, starved) /\ starved \in BOOLEAN
  BY DEF IInv
<1> HIDE DEF V, B
<1>4. \/ AreaRefused(area, mems, V, B, starved)
      \/ fault = "malloc" /\ AreaRefused(area, mems, V, B, TRUE)
      \/ fault # "malloc" /\ AreaHeld(area, mems, V, B, starved)
  <2>1. area = getSharedMemoryArea(proc, fault) \/ area = getUioMemoryArea(proc, fault)
    OBVIOUS
  <2>2. Books(proc, mems, V, B, starved)
    BY <1>3
  <2>3. QED
    BY <2>1, <2>2, AreaMade
<1>5. CASE Dies
  BY <1>5, DeadInv
<1>6. CASE area.mem = {} /\ ~Dies
  <2>1. proc' = area.p /\ Starves(fault) /\ UNCHANGED <<mems, devices, cipher>>
    BY <1>2, <1>6
  <2>2. starved' = (starved \/ fault = "malloc")
    BY <2>1 DEF Starves
  <2>3. starved' \in BOOLEAN /\ (starved => starved')
    BY <1>3, <2>2
  <2>4. ~AreaHeld(area, mems, V, B, starved)
    BY <1>6 DEF AreaHeld
  <2>5. Books(proc', mems, V, B, starved')
    <3>1. CASE AreaRefused(area, mems, V, B, starved)
      BY <1>3, <2>1, <2>3, <3>1, OnceStarved DEF AreaRefused
    <3>2. CASE fault = "malloc" /\ AreaRefused(area, mems, V, B, TRUE)
      <4>1. starved' = TRUE
        BY <2>2, <3>2
      <4>2. QED
        BY <2>1, <3>2, <4>1 DEF AreaRefused
    <3>3. QED
      BY <1>4, <2>4, <3>1, <3>2
  <2>6. Books(proc', mems', Held(devices', cipher'), BlocksOf(cipher'), starved')
    BY <2>1, <2>5 DEF V, B
  <2>7. QED
    BY <2>1, <2>3, <2>6 DEF IInv
<1>7. CASE area.mem # {} /\ ~Dies
  <2>1. PICK mem \in area.mem : /\ proc' = cleanupSharedMemoryPointer(area.p, mem)
                                /\ UNCHANGED <<mems, devices, cipher, starved>>
    BY <1>2, <1>7
  <2>2. AreaHeld(area, mems, V, B, starved)
    BY <1>4, <1>7 DEF AreaRefused
  <2>3. mem \notin mems /\ Books(area.p, mems \cup {mem}, V, B, starved)
    BY <2>1, <2>2 DEF AreaHeld
  <2>4. (mems \cup {mem}) \ {mem} = mems
    BY <2>3
  <2>5. Books(proc', (mems \cup {mem}) \ {mem}, V, B, starved)
    BY <2>1, <2>3, CleanedUp
  <2>6. Books(proc', mems, V, B, starved)
    BY <2>4, <2>5
  <2>7. Books(proc', mems', Held(devices', cipher'), BlocksOf(cipher'), starved')
    BY <2>1, <2>6 DEF V, B
  <2>8. QED
    BY <2>1, <2>7 DEF IInv
<1>8. QED
  BY <1>5, <1>6, <1>7

LEMMA InitializeCoreInv ==
  ASSUME NEW core, core \notin {"XReset_axi", "XAes"}
  PROVE  IInv /\ InitializeCore(core) /\ program' = program => IInv'
<1> SUFFICES ASSUME IInv, InitializeCore(core), program' = program PROVE IInv'
  OBVIOUS
<1> DEFINE V == Held(devices, cipher)
<1> DEFINE B == BlocksOf(cipher)
<1>1. PICK fault \in {None, "find", "open", "mmap"} :
        /\ core \in program /\ core \notin {v.core : v \in devices}
        /\ IF Initialize(proc, core, fault).map = Null THEN Dies
           ELSE /\ proc' = Initialize(proc, core, fault).p
                /\ devices' = devices \cup {[core |-> core,
                                              map |-> Initialize(proc, core, fault).map]}
                /\ UNCHANGED <<mems, cipher, starved>>
  BY DEF InitializeCore
<1>2. PICK got : got = Initialize(proc, core, fault)
  OBVIOUS
<1>3. CASE got.map = Null
  <2>1. Dies
    BY <1>1, <1>2, <1>3
  <2>2. QED
    BY <2>1, DeadInv
<1>4. CASE got.map # Null
  <2>1. PICK new : new = [core |-> core, map |-> got.map]
    OBVIOUS
  <2>2. /\ proc' = got.p /\ devices' = devices \cup {new}
        /\ UNCHANGED <<mems, cipher, starved>>
    BY <1>1, <1>2, <1>4, <2>1
  <2>3. core \in Hw
    BY <1>1 DEF IInv, Hw
  <2>4. \A v \in V : v.core # core
    BY <1>1 DEF Held, CoresOf
  <2>5. Books(proc, mems, V, B, starved)
    BY DEF IInv
  <2> HIDE DEF V, B
  <2>6. Books(got.p, mems, V \cup {new}, B, starved)
    BY <1>2, <1>4, <2>1, <2>3, <2>4, <2>5, Initialised
  <2>7. Held(devices', cipher') = V \cup {new} /\ BlocksOf(cipher') = B
    BY <2>2 DEF Held, V, B
  <2>8. Books(proc', mems', Held(devices', cipher'), BlocksOf(cipher'), starved')
    BY <2>2, <2>6, <2>7
  <2>9. IsFiniteSet(devices')
    BY <2>2, FS_AddElement DEF IInv
  <2>10. \A v \in devices' : v.core \notin {"XReset_axi", "XAes"}
    BY <2>1, <2>2 DEF IInv
  <2>11. QED
    BY <2>2, <2>8, <2>9, <2>10 DEF IInv
<1>5. QED
  BY <1>3, <1>4

LEMMA ReleaseCoreInv ==
  ASSUME NEW core
  PROVE  IInv /\ ReleaseCore(core) /\ program' = program => IInv'
<1> SUFFICES ASSUME IInv, ReleaseCore(core), program' = program PROVE IInv'
  OBVIOUS
<1>1. PICK v \in devices : /\ v.core = core
                           /\ proc' = Release(proc, core, v.map)
                           /\ devices' = devices \ {v}
                           /\ UNCHANGED <<mems, cipher, starved>>
  BY DEF ReleaseCore
<1>2. v \in Held(devices, cipher)
  BY DEF Held
<1>3. Books(proc', mems, Held(devices, cipher) \ {v}, BlocksOf(cipher), starved)
  BY <1>1, <1>2, Released DEF IInv
<1>4. Held(devices', cipher') = Held(devices, cipher) \ {v}
  <2>1. \A c \in cipher : v \notin CoresOf(c)
    BY DEF CoresOf, IInv
  <2>2. QED
    BY <1>1, <2>1 DEF Held
<1>5. IsFiniteSet(devices')
  BY <1>1, FS_RemoveElement DEF IInv
<1>6. Books(proc', mems', Held(devices', cipher'), BlocksOf(cipher'), starved')
  BY <1>1, <1>3, <1>4
<1>7. QED
  BY <1>1, <1>5, <1>6 DEF IInv

LEMMA NewCipherInv == IInv /\ NewCipher /\ program' = program => IInv'
<1> SUFFICES ASSUME IInv, NewCipher, program' = program PROVE IInv'
  OBVIOUS
<1>1. PICK fault \in Faults :
        /\ cipher = {} /\ {"XReset_axi", "XAes"} \subseteq program
        /\ proc' = fpga_aes_new(proc, fault).p /\ cipher' = fpga_aes_new(proc, fault).cipher
        /\ Starves(fault[1]) /\ UNCHANGED <<mems, devices>>
  BY DEF NewCipher
<1>2. PICK got : got = fpga_aes_new(proc, fault)
  OBVIOUS
<1>3. proc' = got.p /\ cipher' = got.cipher /\ UNCHANGED <<mems, devices>>
  BY <1>1, <1>2
<1>4. Books(proc, mems, devices, {}, starved) /\ starved \in BOOLEAN
  BY <1>1, HeldFacts DEF IInv
<1>5. {"XReset_axi", "XAes"} \subseteq Hw
  BY <1>1 DEF IInv, Hw
<1>6. \A v \in devices : v.core \notin {"XReset_axi", "XAes"}
  BY DEF IInv
<1>7. starved' = (starved \/ fault[1] = "malloc")
  BY <1>1 DEF Starves
<1>8. starved' \in BOOLEAN /\ (starved => starved')
  BY <1>4, <1>7
<1>9. \/ NoCipher(got, mems, devices, starved)
      \/ fault = <<"malloc", "iv">> /\ NoCipher(got, mems, devices, TRUE)
      \/ ACipher(got, mems, devices, starved)
  BY <1>2, <1>4, <1>5, <1>6, CipherMade
<1>10. /\ Books(proc', mems', Held(devices', cipher'), BlocksOf(cipher'), starved')
       /\ \A c, d \in cipher' : c = d
  <2>1. CASE NoCipher(got, mems, devices, starved)
    <3>1. cipher' = {} /\ Books(proc', mems', devices', {}, starved)
      BY <1>3, <2>1 DEF NoCipher
    <3>2. Books(proc', mems', devices', {}, starved')
      BY <1>4, <1>8, <3>1, OnceStarved
    <3>3. QED
      BY <3>1, <3>2, HeldFacts
  <2>2. CASE fault = <<"malloc", "iv">> /\ NoCipher(got, mems, devices, TRUE)
    <3>1. starved' = TRUE
      BY <1>7, <2>2
    <3>2. cipher' = {} /\ Books(proc', mems', devices', {}, starved')
      BY <1>3, <2>2, <3>1 DEF NoCipher
    <3>3. QED
      BY <3>2, HeldFacts
  <2>3. CASE ACipher(got, mems, devices, starved)
    <3>1. PICK c : got.cipher = {c} /\ Books(got.p, mems, devices \cup CoresOf(c), c.blocks, starved)
      BY <2>3 DEF ACipher
    <3>2. cipher' = {c} /\ Books(proc', mems', devices' \cup CoresOf(c), c.blocks, starved)
      BY <1>3, <3>1
    <3>3. Books(proc', mems', devices' \cup CoresOf(c), c.blocks, starved')
      BY <1>4, <1>8, <3>2, OnceStarved
    <3>4. QED
      BY <3>2, <3>3, HeldFacts
  <2>4. QED
    BY <1>9, <2>1, <2>2, <2>3
<1>11. QED
  BY <1>3, <1>8, <1>10 DEF IInv

LEMMA FreeCipherInv == IInv /\ FreeCipher /\ program' = program => IInv'
<1> SUFFICES ASSUME IInv, FreeCipher, program' = program PROVE IInv'
  OBVIOUS
<1>1. PICK c \in cipher : /\ proc' = fpga_aes_free(proc, c)
                          /\ cipher' = {}
                          /\ UNCHANGED <<mems, devices, starved>>
  BY DEF FreeCipher
<1>2. cipher = {c}
  BY DEF IInv
<1>3. Books(proc, mems, devices \cup CoresOf(c), c.blocks, starved)
  BY <1>2, HeldFacts DEF IInv
<1>4. \A v \in devices : v.core \notin {"XReset_axi", "XAes"}
  BY DEF IInv
<1>5. Books(proc', mems, devices, {}, starved)
  BY <1>1, <1>3, <1>4, CipherFreed
<1>6. Books(proc', mems', Held(devices', cipher'), BlocksOf(cipher'), starved')
  BY <1>1, <1>5, HeldFacts
<1>7. QED
  BY <1>1, <1>6 DEF IInv

LEMMA NextInv == IInv /\ [Next]_vars => IInv'
<1> SUFFICES ASSUME IInv, [Next]_vars PROVE IInv'
  OBVIOUS
<1>1. CASE UNCHANGED vars
  BY <1>1 DEF IInv, vars
<1>2. CASE Next
  <2>1. program' = program
    BY <1>2 DEF Next
  <2>2. CASE MapArea
    BY <2>1, <2>2, MapAreaInv
  <2>3. CASE UnmapArea
    BY <2>1, <2>3, UnmapAreaInv
  <2>4. CASE AccessValue
    BY <2>1, <2>4, AccessValueInv
  <2>5. CASE NewCipher
    BY <2>1, <2>5, NewCipherInv
  <2>6. CASE FreeCipher
    BY <2>1, <2>6, FreeCipherInv
  <2>7. CASE Touch
    BY <2>1, <2>7, DeadInv DEF Touch
  <2>8. CASE \E core : core \notin {"XReset_axi", "XAes"} /\ InitializeCore(core)
    BY <2>1, <2>8, InitializeCoreInv
  <2>9. CASE \E core : ReleaseCore(core)
    BY <2>1, <2>9, ReleaseCoreInv
  <2>10. \/ MapArea \/ UnmapArea \/ AccessValue \/ NewCipher \/ FreeCipher \/ Touch
         \/ \E core : core \notin {"XReset_axi", "XAes"} /\ InitializeCore(core)
         \/ \E core : ReleaseCore(core)
    BY <1>2 DEF Next, XTriple_aes_Initialize, XTriple_aes_Release, XTest_direct_dma_Initialize,
       XTest_direct_dma_Release, XMemory_scanner_Initialize, XMemory_scanner_Release,
       XMemory_scanner_ddr_Initialize, XMemory_scanner_ddr_Release, XQam_runner_Initialize,
       XQam_runner_Release, XCrec_Initialize, XCrec_Release, XCrypto_sign_Initialize,
       XCrypto_sign_Release, XCurve25519_donna_Initialize, XCurve25519_donna_Release
  <2>11. QED
    BY <2>2, <2>3, <2>4, <2>5, <2>6, <2>7, <2>8, <2>9, <2>10
<1>3. QED
  BY <1>1, <1>2

\* The books are right in every state: each open descriptor, each mapping that did
\* not fail and each struct of a process has exactly one holder.
THEOREM Invariance == Spec => []IInv
BY InitInv, NextInv, PTL DEF Spec

-----------------------------------------------------------------------------
(* What the books say of the properties.                                     *)

LEMMA NothingLeft == IInv => AllReturned
<1> SUFFICES ASSUME IInv, mems = {}, devices = {}, cipher = {}
             PROVE  /\ DOMAIN proc.open = {}
                    /\ ~starved => proc.mapped = {} /\ proc.heap = {}
  BY DEF AllReturned
<1>1. Books(proc, {}, {}, {}, starved)
  BY HeldFacts DEF IInv
<1>2. DOMAIN proc.open = {}
  BY <1>1 DEF Books, Files
<1>3. ASSUME ~starved PROVE proc.mapped = {}
  BY <1>1, <1>3 DEF Books, Maps
<1>4. ASSUME ~starved PROVE proc.heap = {}
  BY <1>1, <1>4 DEF Books, Blocks
<1>5. QED
  BY <1>2, <1>3, <1>4

\* When the program holds nothing no descriptor is open and, unless a malloc has
\* failed, no mapping and no struct is left, whichever call of the system failed
\* in X*_Initialize, fpga_aes_new or the functions of user_mmap_driver.c.
THEOREM EverythingReturned == Spec => []AllReturned
BY Invariance, NothingLeft, PTL

\* Holders that name different things are as many as what they name.
LEMMA AsManyNames ==
  ASSUME NEW S, NEW f, DOMAIN f = S, IsFiniteSet(S),
         \A x, y \in S : f[x] = f[y] => x = y, NEW T, T = {f[x] : x \in S}
  PROVE  IsFiniteSet(T) /\ Cardinality(T) = Cardinality(S)
<1>1. PICK g : g = [x \in S |-> f[x]]
  OBVIOUS
<1>2. g \in [S -> T]
  BY <1>1
<1>3. g \in Surjection(S, T)
  BY <1>1, <1>2 DEF Surjection
<1>4. g \in Injection(S, T)
  BY <1>1, <1>2 DEF Injection, IsInjective
<1>5. ExistsBijection(S, T)
  BY <1>3, <1>4 DEF ExistsBijection, Bijection
<1>6. QED
  BY <1>5, FS_Bijection

LEMMA FilesCounted ==
  ASSUME NEW open, NEW info, NEW M, NEW V, Files(open, info, M, V),
         IsFiniteSet(M), IsFiniteSet(V)
  PROVE  Cardinality({m.fd : m \in M} \cup {info[v.core] : v \in V})
           = Cardinality(M) + Cardinality(V)
<1>1. PICK f : f = [m \in M |-> m.fd]
  OBVIOUS
<1>2. PICK g : g = [v \in V |-> info[v.core]]
  OBVIOUS
<1>3. PICK A : A = {f[m] : m \in M}
  OBVIOUS
<1>4. PICK B : B = {g[v] : v \in V}
  OBVIOUS
<1>5. IsFiniteSet(A) /\ Cardinality(A) = Cardinality(M)
  <2>1. \A m, n \in M : f[m] = f[n] => m = n
    BY <1>1 DEF Files
  <2>2. DOMAIN f = M
    BY <1>1
  <2>3. QED
    BY <1>3, <2>1, <2>2, AsManyNames
<1>6. IsFiniteSet(B) /\ Cardinality(B) = Cardinality(V)
  <2>1. \A v, w \in V : g[v] = g[w] => v = w
    BY <1>2 DEF Files
  <2>2. DOMAIN g = V
    BY <1>2
  <2>3. QED
    BY <1>4, <2>1, <2>2, AsManyNames
<1>7. A \cap B = {}
  BY <1>1, <1>2, <1>3, <1>4 DEF Files
<1>8. Cardinality(A \cup B) = Cardinality(M) + Cardinality(V)
  <2>1. Cardinality(A \cap B) = 0
    BY <1>7, FS_EmptySet
  <2>2. Cardinality(A) \in Nat /\ Cardinality(B) \in Nat
    BY <1>5, <1>6, FS_CardinalityType
  <2>3. Cardinality(A \cup B) = Cardinality(A) + Cardinality(B) - Cardinality(A \cap B)
    BY <1>5, <1>6, FS_Union
  <2>4. QED
    BY <1>5, <1>6, <2>1, <2>2, <2>3
<1>9. A = {m.fd : m \in M} /\ B = {info[v.core] : v \in V}
  BY <1>1, <1>2, <1>3, <1>4
<1>10. QED
  BY <1>8, <1>9

\* The cipher adds its two cores to the devices.
LEMMA HeldCounted ==
  ASSUME NEW d, IsFiniteSet(d), \A v \in d : v.core \notin {"XReset_axi", "XAes"},
         NEW ci, \A c, e \in ci : c = e
  PROVE  /\ IsFiniteSet(Held(d, ci))
         /\ Cardinality(Held(d, ci)) = Cardinality(d) + 2 * Cardinality(ci)
<1>1. Cardinality(d) \in Nat
  BY FS_CardinalityType
<1>2. CASE ci = {}
  <2>1. Held(d, ci) = d /\ Cardinality(ci) = 0
    BY <1>2, HeldFacts, FS_EmptySet
  <2>2. QED
    BY <1>1, <2>1
<1>3. CASE \E c \in ci : ci = {c}
  <2>1. PICK c \in ci : ci = {c}
    BY <1>3
  <2>2. PICK r : r = [core |-> "XReset_axi", map |-> c.reset]
    OBVIOUS
  <2>3. PICK a : a = [core |-> "XAes", map |-> c.aes]
    OBVIOUS
  <2>4. r.core = "XReset_axi" /\ a.core = "XAes"
    BY <2>2, <2>3
  <2>5. r \notin d /\ a \notin d \cup {r}
    BY <2>4
  <2>6. Held(d, ci) = (d \cup {r}) \cup {a}
    BY <2>1, <2>2, <2>3, HeldFacts DEF CoresOf
  <2>7. IsFiniteSet(d \cup {r}) /\ Cardinality(d \cup {r}) = Cardinality(d) + 1
    BY <2>5, FS_AddElement
  <2>8. /\ IsFiniteSet((d \cup {r}) \cup {a})
        /\ Cardinality((d \cup {r}) \cup {a}) = Cardinality(d \cup {r}) + 1
    BY <2>5, <2>7, FS_AddElement
  <2>9. Cardinality(ci) = 1
    BY <2>1, FS_Singleton
  <2>10. QED
    BY <1>1, <2>6, <2>7, <2>8, <2>9
<1>4. QED
  BY <1>2, <1>3, OneCipher

\* The holders that HeldIsKept speaks of are those of the books.
LEMMA HoldersOf ==
  ASSUME NEW d, NEW ci, \A c, e \in ci : c = e
  PROVE  /\ {v.core : v \in Held(d, ci)}
              = {v.core : v \in d} \cup IF ci = {} THEN {} ELSE {"XReset_axi", "XAes"}
         /\ {v.map : v \in Held(d, ci)}
              = {v.map : v \in d} \cup UNION {{c.reset, c.aes} : c \in ci}
<1>1. CASE ci = {}
  BY <1>1, HeldFacts
<1>2. CASE \E c \in ci : ci = {c}
  <2>1. PICK c \in ci : ci = {c}
    BY <1>2
  <2>2. PICK r : r = [core |-> "XReset_axi", map |-> c.reset]
    OBVIOUS
  <2>3. PICK a : a = [core |-> "XAes", map |-> c.aes]
    OBVIOUS
  <2>4. r.core = "XReset_axi" /\ r.map = c.reset /\ a.core = "XAes" /\ a.map = c.aes
    BY <2>2, <2>3
  <2>5. Held(d, ci) = d \cup {r, a}
    BY <2>1, <2>2, <2>3, HeldFacts DEF CoresOf
  <2>6. {v.core : v \in Held(d, ci)} = {v.core : v \in d} \cup {"XReset_axi", "XAes"}
    BY <2>4, <2>5
  <2>7. {v.map : v \in Held(d, ci)} = {v.map : v \in d} \cup {c.reset, c.aes}
    BY <2>4, <2>5
  <2>8. UNION {{e.reset, e.aes} : e \in ci} = {c.reset, c.aes}
    BY <2>1
  <2>9. QED
    BY <2>1, <2>6, <2>7, <2>8
<1>3. QED
  BY <1>1, <1>2, OneCipher

LEMMA BooksKeepHeld == IInv => HeldIsKept
<1> SUFFICES ASSUME IInv PROVE HeldIsKept
  OBVIOUS
<1>1. PICK V : V = Held(devices, cipher)
  OBVIOUS
<1>2. PICK B : B = BlocksOf(cipher)
  OBVIOUS
<1>3. /\ Files(proc.open, proc.info, mems, V) /\ Maps(proc.mapped, mems, V, starved)
      /\ Blocks(proc.heap, mems, B, starved)
  BY <1>1, <1>2 DEF IInv, Books
<1>4. \A c, e \in cipher : c = e
  BY DEF IInv
<1>5. PICK cores : cores = {v.core : v \in V}
  OBVIOUS
<1>6. cores = {v.core : v \in devices} \cup IF cipher = {} THEN {} ELSE {"XReset_axi", "XAes"}
  BY <1>1, <1>4, <1>5, HoldersOf
<1>7. PICK files : files = {m.fd : m \in mems} \cup {proc.info[core] : core \in cores}
  OBVIOUS
<1>8. files = {m.fd : m \in mems} \cup {proc.info[v.core] : v \in V}
  BY <1>5, <1>7
<1>9. files = DOMAIN proc.open
  BY <1>3, <1>8 DEF Files
<1>10. Cardinality(files) = Cardinality(mems) + Cardinality(devices) + 2 * Cardinality(cipher)
  <2>1. IsFiniteSet(V) /\ Cardinality(V) = Cardinality(devices) + 2 * Cardinality(cipher)
    BY <1>1, <1>4, HeldCounted DEF IInv
  <2>2. IsFiniteSet(mems) /\ IsFiniteSet(devices) /\ IsFiniteSet(cipher)
    <3>1. cipher = {} \/ \E c \in cipher : cipher = {c}
      BY <1>4, OneCipher
    <3>2. IsFiniteSet(cipher)
      <4>1. IsFiniteSet({}) /\ \A c : IsFiniteSet({c})
        BY FS_EmptySet, FS_Singleton
      <4>2. QED
        BY <3>1, <4>1
    <3>3. QED
      BY <3>2 DEF IInv
  <2>3. Cardinality(files) = Cardinality(mems) + Cardinality(V)
    BY <1>3, <1>8, <2>1, <2>2, FilesCounted
  <2>4. Cardinality(mems) \in Nat /\ Cardinality(devices) \in Nat /\ Cardinality(cipher) \in Nat
    BY <2>2, FS_CardinalityType
  <2>5. QED
    BY <2>1, <2>3, <2>4
<1>11. \A core \in cores : proc.open[proc.info[core]] = core
  BY <1>3, <1>5 DEF Files
<1>12. PICK pairs : pairs = UNION {{c.reset, c.aes} : c \in cipher}
  OBVIOUS
<1>13. ({m.map : m \in mems} \cup {v.map : v \in devices} \cup pairs) \ {Failed}
         \subseteq proc.mapped
  <2>1. {v.map : v \in V} = {v.map : v \in devices} \cup pairs
    BY <1>1, <1>4, <1>12, HoldersOf
  <2>2. {m.map : m \in mems} \subseteq proc.mapped \cup {Failed}
    BY <1>3 DEF Maps
  <2>3. {v.map : v \in V} \subseteq proc.mapped \cup {Failed}
    BY <1>3 DEF Maps
  <2>4. QED
    BY <2>1, <2>2, <2>3
<1>14. {m.block : m \in mems} \subseteq proc.heap
  BY <1>3 DEF Blocks
<1>15. \A c \in cipher : c.blocks \subseteq proc.heap \ {m.block : m \in mems}
  <2>1. \A c \in cipher : c.blocks \subseteq B
    BY <1>2 DEF BlocksOf
  <2>2. B \subseteq proc.heap \ {m.block : m \in mems}
    BY <1>3 DEF Blocks
  <2>3. QED
    BY <2>1, <2>2
<1>16. QED
  BY <1>6, <1>7, <1>9, <1>10, <1>11, <1>12, <1>13, <1>14, <1>15 DEF HeldIsKept

\* What a program holds stays its own: the open descriptors are those of its areas
\* and of its cores, one for each, and the mappings and structs it uses are there,
\* however often drivers whose statics keep old descriptors were used before.
THEOREM HoldersKeep == Spec => []HeldIsKept
BY Invariance, BooksKeepHeld, PTL
=============================================================================
