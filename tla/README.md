# A verification development for xilinx_zedboard_c

The repository is a library of user-space drivers for cores in the fabric of a
Zynq (Zedboard), and the programs that exercise them: an allocator over the memory the
processor shares with the fabric, AES through an HLS core, the register
accessors Vivado generates for ten cores, and two vendored implementations of
Ed25519. This directory holds TLA+ modules of that code, TLC runs of small
instances and TLAPS proofs. Paths below are relative to `src/src/`.

## 1. The system

| Component | State | Operations | What is hard | What makes it correct |
|---|---|---|---|---|
| `memmgr/` allocator | session statics, circular free list threaded through the shared memory, position of the untouched rest of the pool | init (three ways), alloc, free, lookup, assert, destroy | any order of calls over many sessions, a list whose start moves with every call, merging with two neighbours, the static block `base` on the list, a lock that is created lazily | blocks tile the pool, the list stays sorted and circular, adjacent free blocks merge, the three signs of a session agree |
| `aes_fpga/` | cipher struct: the counter twice (`iv` bytes, `iv_in` words), stored keystream of a partial block, update flags | new, free, one-shot (ECB), CBC, streaming CTR | calls of arbitrary length that start in the middle of a block; two renderings of one counter; carries; threads that share one device | the keystream is used once, in order, whatever the lengths; both counters stay equal |
| HLS register files (`x*.c`) | start/done bits, argument registers and their valid bits | Start, IsDone, Set, Set_vld, Get | done is cleared when read, the core takes each argument when its valid bit arrives, start reads the control register | every job runs once, on its own arguments, and its client sees it done |
| UIO initialisation (`x*_linux.c`) | one static `uio_info` per core, descriptors, mappings | Initialize, Release | every error path; the static keeps the descriptor of a released device | what is opened is closed, and nobody closes what another holds |
| `user_mmap_driver/` | descriptors, mappings, malloced structs | map /dev/mem or a UIO device, read or write one word, clean up | every error path | the same |
| programs (`*.c`, `*.cpp` at the top) | device registers, shared buffers | drive the libraries | polling a done bit, FIFOs, a soft core that shares a control word | the loop that waits ends |
| `ed25519/`, `ed25519_ref_c/` | keys; the context of the hash; limbs and digits of numbers | make a pair, sign, verify, shift keys, key exchange | carries and folds that few operands need, hand-written shifts and coefficients, recoding of scalars, padding, halves of a pair that are shifted apart | one number in every representation, points that are the sums they should be, signatures that verify, nonces used once |
| bitstreams, device trees, kernels, data, scripts | none | | | not modelled |

The programs call `aes_fpga` and the accessors; `aes_fpga` allocates the
partial block of CTR from `memmgr` and asks it for physical addresses; `memmgr`
maps its pool with `user_mmap_driver`; the accessors read and write through a
mapping their Initialize made. The device writes the same memory by DMA. There
are no callbacks; the concurrency is threads in `memmgr` (it has a lock) and in
`aes_fpga` (its lock is commented out), and the processor against the fabric.

## 2. Modules and how they follow the code

### MemMgr: `memmgr/memmgr.c`

One action per public function: `memmgr_init` (with `memmgr_init_check`),
`memmgr_init_check_shared_mem` (with `memmgr_init_shared_short`),
`memmgr_alloc` in the three ways it can end (`AllocFit`: a block on the list
fits; `AllocGrow`: one is taken from the pool by `get_mem_from_pool`;
`AllocFail`), `memmgr_free`, `memmgr_destroy`. A function is one action because it holds the
recursive lock from its first line to its last. `ClientWrite` is the client filling its buffer.

Memory is counted in quantas of `sizeof(mem_header_t)`, as in the code, and a
block is named by the address of its header relative to the pool. `heap` is
the free list: `next` is the pointer in each header on the list, `size` the
size in each header that is in use, `freep` the moving start of both search
loops. The loops are not unrolled into steps: `FirstFit(h, n, prev)` and
`InsertPoint(h, b, p)` say that the loop started at `freep` stops at `prev` or
`p`, that is, that its exit condition holds there and nowhere earlier on the
walk. `base`, the static block of size 0, is a node of the list at the address
`Base`, which is outside the pool on either side. `nonces` is the set of places
whose header carries the two nonces.

Left out: `memmgr_print_stats` (only prints), the physical address that
`lookupBufferPhysicalAddress` adds, `memmgr_assert` (section 5), and the lock itself.

### Allocator

What a client of `memmgr` may rely on, with no free list: grants are disjoint intervals
of the pool, kept until returned, and closing a session revokes all.
`MemMgr!ImplementsPromise` maps `held` to the sizes in the headers of live blocks.

### MemSize

The arithmetic of one `memmgr_alloc` on a fresh pool, modulo the width of
`unsigned long`: `nquantas`, the minimum taken from the pool, the size in bytes
charged for it. MemMgr counts in quantas without a width; this module says for which
requests that is sound.

### IvArith, AesCtr, Stream: the streaming mode of `aes_fpga/aes_fpga.c`

The cipher holds its counter twice: `iv`, bytes that the processor adds to
(`addIvOpenssl`) and encrypts for a partial block, and `iv_in`, words that
`addIvCipher` adds to and the device counts on from. IvArith is that arithmetic
for any radix and any number of digits, place 0 being the last byte or word:
`Add` is the loop with its carry test (the new digit is less than the old one),
`Increment` is `incrementIv`, `Pack` the shifts of `fpga_aes_new`.

AesCtr has one action per path through one `Aes_encrypt_ctr_hw`:
`ctr_hw_Scroll` is the call that stays in the open block, `ctr_hw_Blocks` the
one that finishes it, has full blocks done by the device and begins another.
AES is a permutation, so a block of keystream is named by the counter it
encrypts, and `out` is the keystream a call used, byte by byte. Stream is what a
caller may rely on: one keystream, every byte once and in order, however the data
is cut into calls.

Left out: the buffers of the partial block, taken to be had (their
`memmgr_alloc` is not checked and the program dies if they are not), and the
one-shot entry points, which set nothing that a later call reads.

### BlockModes: the loops over single blocks

CBC over `Aes_encrypt_memcpy`, which may fail to map and return -1, and over
`Aes_encrypt_memmgr`, whose `memmgr_assert` (`aes_fpga.c:767`) aborts the program:
the loop's block, `current_data`, is an array on the stack and no part of the pool
(`pc = "aborted"`; nothing written, nothing returned). And the counter mode
that the processor makes out of the plain mode (`Aes_encrypt_ctr_run`), which
writes each counter over the caller's input, has it encrypted into the output and
puts the input back: four steps. One call is modelled. A block is the set of
the unknowns it is the XOR of, so XOR is the symmetric difference. In place, the
counter mode undoes itself, since the input it puts back is the output; the
properties say which of the two layouts they speak of. `LengthAssumption` bounds the
input by the counters `incrementIv` has (section 4): 2^113 blocks in the code.

### HlsPrograms, HlsCore: cores and the programs that poll them

HlsPrograms holds the register file of eight cores (addresses of data and valid
bits, from `x*_hw.h` and `x*.c`) and the accessor calls each program makes, in
its order. HlsCore turns those calls into register accesses, one action each,
and runs one program over and over against the core. `Set` of a
four-word argument is four writes; `Start` is a read of the control register and a
write.

The core is in no file of this repository. Its actions `Begin`, `Sample` and
`Finish` follow the comments of `x*_hw.h`: `ap_start` is cleared by the handshake that ends a
run, `ap_done` and the valid bit of an output are cleared by reading, the valid
bit of an argument clears itself. A core that has not been started does not see
that pulse, and a run ends only when every argument was taken. An argument without a valid bit is
looked at some time in the run. A word of data is the number of the job it was
written for; jobs alternate between two numbers per client.

`Kill` ends a program as it polls, and `Rerun` runs it again once the core is done.
They apply to the programs that use `X*_Start` with `X*_IsDone`: the read inside
`X*_Start` is what clears the done bit of the killed run. Programs that write 1 to the
control register themselves, and those that wait for the valid bit of an output, have
nothing that clears it. Bit 7 (auto-restart) is never set in this repository.

### Devices: `user_mmap_driver/`, `x*_linux.c`, and the making of a cipher

A process holds descriptors (`open`), mappings (`mapped`), structs (`heap`) and one
static per core, of which `info` keeps the field `uio_fd`. The kernel and the allocator
give out the lowest number that is free, so that what was given back is soon somebody
else's. `getSharedMemoryArea`, `getUioMemoryArea`, `X*_Initialize` and `fpga_aes_new` are
operators on a process and on the call that fails in them, path by path; the actions
apply them. `AccessValue` is the four functions that map, read or write one word, and clean
up. The ten drivers are the same generated text; each has actions of its own, and a
program uses the ones of its set in `Programs`. An access to what a failed mapping left
ends the process, and a new one starts.

`HeldIsKept` compares what the program holds with what the process has: every open
descriptor is held once, the static of a core in use holds a descriptor of that core's file,
and the mappings and structs of the holders are there.

A mapping that failed is not told from one that worked by `getUioMemoryArea` (it compares
with NULL) and by `X*_Initialize` (it asserts that it is not 0): both are in the model.

### The arithmetic of Ed25519

The two implementations are modelled layer by layer, each layer over the values of the one
below, and at the size at which TLC can hold it against a definition.

| Module | Code | Size | What is as in the code |
|---|---|---|---|
| Fe | `ed25519/fe.c` | any number of limbs of alternating width | coefficients, order of the carries, quotient |
| Field | the functions of `fe.c` as calls | any registers | what a call overwrites, operands that were not carried |
| Sc | `ed25519/sc.c` | 24 digits of any radix, any order | order of folds, rounding and flooring carries |
| Fe25519 | `ed25519_ref_c/fe25519.c` | any number of limbs of one width | passes of folding, twice the modulus, freezing |
| Sc25519 | `ed25519_ref_c/sc25519.c` | any radix and length | Barrett's quotient and the subtractions after it |
| Layout | loads, stores and windows of all four | full size | each shift and mask, as a row of which bits go where |
| Chains | inversions and square roots of `fe.c`, `fe25519.c`, `curve_25519_test.c` | full size | each squaring and product in order; a power is the set of the exponent's bits |
| Recode | digits of scalars in `ge.c` and `sc25519.c` | any number of bits from 8 | carries, and the greedy digits of `slide` |
| Digits | the recodings as calls, one scalar or two at a time | any scalars | how large a scalar each of them may be given |
| Sha512 | both `sha512.c` | blocks of 128 bytes | buffering, padding and length; the registers of a round |
| Edwards | | any curve | the curve itself: points as pairs, sums by the group law |
| Ge, Ge25519 | both `ge` files, the ladder of `key_exchange.c` | a small prime | every formula, the tables, the loops over digits |
| Ed25519 | `keypair.c`, `sign.c`, `verify.c`, `add_scalar.c`, the reference's `sign.c`, `keypair.c` | the same curve | what is hashed, in which order; which half of a pair is shifted |

Field has one action per function of `fe.c`. Its state is the `fe` variables of a caller (`reg`, limbs) and,
next to each, the number that it is to stand for (`num`); a call may overwrite one of its operands, as the
callers' do, and the two moves by a mask (`CMov`, `CSwap`) choose between registers. Limbs in it are integers
without a width: that no partial sum leaves 64 bits is the matter of the bounds in Ge.

Digits has one action per recoding. Its state, `written`, is the array of digits on the stack of the function that
multiplies, with the scalars it was written from; `Drop` is the return. The guards are what the
callers see to: `a[31] <= 127` for the base point in `ge.c`; for the reference scalars reduced modulo the order, so two
bits short of the 255 of 85 windows and of the 256 of the pairs of bits. `slide` gets scalars below 2^253 too (reduced, or
a signature that `verify.c` has looked at), and its guard asks for one free bit only. `sc25519_window5` has no caller in the repository.

In Ge a field element is its value with a bound on its limbs, in hundredths of the width
that a limb has after a carry: 101 after a product, the sum of the bounds after an addition.
`fe_mul` and `fe_sq` accept 330 at most (the 1.65 * 2^26 of their comments), and give a bound
that nothing accepts if they are handed more. In Ed25519 the hash is an external operator, and the keys
of a party are shifted by `AddToPrivate`, `AddToPublic` or `AddToBoth`, in either
order, for the scalars that both holders agreed on.

Abstract: the logical functions and constants of the hash (any two functions that depend on all
their arguments), the source of the seed, the contents of the tables (computed for the
curve of the model).

### MC modules and proof modules

MCMemMgr, MCAesCtr, MCBlockModes, MCHlsCore and MCEd25519 hold the constants of the runs and
the claims of comments that the code does not keep. MCArith runs MemSize, Field and Digits, and asks
the pure operators of the rest of Ed25519's arithmetic for one result after the other, each state an input;
MCCurve holds its part that speaks of points. MemMgrProofs,
AesCtrProofs, BlockModesProofs, HlsCoreProofs, DevicesProofs and Ed25519Proofs hold the
proofs about the module in their name, ArithProofs those about MemSize, Field and Digits; NumberTheorems holds what
they need of numbers (induction, remainders, powers of two, folds and sums over finite sets) and the
proofs about IvArith.

## 3. Runs

| Run | Instance | Shows |
|---|---|---|
| `memmgr` | pool of 10 quantas, 3 taken at least, requests of 2, 3 and 4 quantas, `base` below the pool | every invariant of section 4 and the refinement of Allocator |
| `memmgr_mapping` | pool of 9, 4 mapped | violation: clients get memory beyond the two pages that are mapped |
| `aes_ctr` | bytes of radix 3, two words of two bytes, blocks of 4 bytes, calls of 0, 1, 3, 4 and 22 bytes, every initial counter | the counters agree, the stored keystream is current, and the calls implement Stream |
| `aes_ctr_carry` | the same, with a call of 7 blocks | violation: `addIvOpenssl` loses a carry that the words do not |
| `block_modes` | five blocks, counter of three digits of radix 4, every counter, in place or not | CBC chains its blocks; counter mode uses no counter twice and gives the input back |
| `block_modes_memmgr` | the same | violation: CBC in its default mode aborts at its first block, with nothing encrypted |
| `hls` | one client; seven programs, at full size | every program keeps the order of accesses that the proofs start from; every call gets the result of its own job, leaves the core at rest, and returns |
| `hls_threads` | `aes_encrypt`, two clients | violation: one gets a mixture of both jobs |
| `hls_start_twice` | `direct_dma_test`, one client | violation: the second start can leave the program waiting for ever |
| `arith` | see below | every pure computation gives what its definition says |
| `ed25519` | curve over 101 with a base point of order 13, two parties, two seeds, two scalars, two messages, two shifts | signatures verify however keys were shifted, nonces are not used twice, two parties get one secret, both implementations sign alike; and the curve and the hash of the run are as the theorems about Ed25519 suppose (`GroundsHold`) |
| `devices` | ten drivers in nine programs, two areas at once, one failing malloc per process, any other call failing at any time | descriptors, mappings and structs are returned and nobody's are taken |

Ten quantas hold three or four blocks with gaps between them. That is enough for
every case of the code: a free with no neighbour, a lower, a higher, both; an exact fit
and a split; growth that merges with the last free block and growth that does
not; a refused request; a list of `base` alone; several sessions. The minimum
taken from the pool (16 in the code, 3 here) lies between the smallest and
the largest request so that both outcomes of `PoolRequest` occur.

Four digits of radix 3 make 81 counters, and all of them are initial, so every carry
chain and the wrap of the whole counter occur within one or two calls. The lengths
are: nothing, less than a block, a block, and five blocks with a rest. A block of 4
bytes lets a call begin and end at every place of it. Five blocks are below, and seven
above, the 3 * 2 from which `addIvOpenssl` can lose a carry. The three digits and five
blocks of `block_modes` make the lowest digit roll over in a call, once early (at r - 1) and
once at 0.

The programs of `hls` are not scaled down: every register they write is in the
model. What is small is the number of clients: one, as in all of the programs. Two are
enough to show what goes wrong without the lock.

The inputs of `arith`: requests to 216 with an `unsigned long` of 8 bits and a header of 20
bytes; two registers of four limbs of 4 and 3 bits modulo 2^14 - 2, loaded with limbs at and around
their bounds and with multiples of the prime, positive and negative, and any two calls after that (four limbs
have every coefficient and both kinds of carry, and the products of larger ones leave the integers of
TLC); scalars of 24 digits of two bits in six runs of any
digits, which reach the third fold; limbs of the reference at 0, 1, the modulus and the
largest; scalars of 16 bits (four nibbles, five windows of three bits, three of five): every one of 12 bits, and of
13, 14 (interleaved) and 15 the largest that each recoding takes, where ones run into the end of the array; messages of up to 300 bytes cut in three where an update may end with a
block or just beside it; every pair of points, every
encoding, equal to the prime and above it included; every bit of every conversion and
every step of every chain at full size. The curve over 101 has the twist of the
real one (-1 is a square and D is not), a cofactor of 8 and room for scalars of 16 bits in signed
nibbles.

The constraint `OwnerShifts` of `ed25519` says that one of the two parties never shifts its pair: what
the two do meets only in the key exchange and in the set of nonces. In `devices` each failing malloc
loses memory for good, so one per process is the bound; the states after a second
differ in nothing the code looks at.

Deadlock is checked in `memmgr`, `aes_ctr`, `arith`, `hls` and `devices`. It is not in
`block_modes`, whose one call returns, in `ed25519`, where every shift has been
made, nor in the runs that look for a violation.

Liveness is stated of HlsCore only: `CallReturns`. It assumes `WF_vars(Device)`,
the core runs when it is started and has its arguments, and `WF_vars(Client(c))`, the
scheduler runs every thread. Weak fairness is enough, since a client that
polls is enabled until it has seen the bit and nobody else clears it. A program is
never obliged to be killed or run again. The allocator's loops are inside one action; that they stop is
the safety property `SearchesStop`: for every block that may be freed and every request that
may be made, the search has a place to stop, before and after a block came from the pool.

## 4. What is proved

`MemMgrProofs` proves for every pool size, quantum, minimum, set of requests
and position of `base` outside the pool: `TypeOK`, `SessionConsistent`,
`Sorted`, `Disjoint`, `Covered`, `Coalesced`, `Housed`, `SearchesStop`,
`AllFreeIsOneBlock` and the refinement `ImplementsPromise`. The assumptions are the named ASSUMEs of
MemMgr.

None of the invariants is inductive alone. `Sorted` needs `Disjoint` (a freed
block is not on the list); `Disjoint` after a merge needs `Sorted` (what a block
swallows is its successor); `Coalesced` after a merge needs both (a block that touches
another is its neighbour on the list), `SessionConsistent` makes the NULL test of
`memmgr_free` mean what it should. `IInv` is their conjunction. The proof has two layers.
The list lemmas speak of one successor function: `UnlinkCyclic` and `LinkCyclic`
keep a circle a sorted circle, `OneInsertPoint` says that the search of
`memmgr_free` has one place to stop. The tiling lemmas speak of sizes:
`MergeTiling`, `SplitTiling`, `GrowTiling`. `HeapOK` puts the two together and
`InsertOK`, `PoolBlockOK` and `TakeOK` carry it through the three things the
code does to the heap; `NextOK` has one step per action.

`SearchesStop` follows from `IInv`. `WalkAll`: since the circle is one cycle, a walk of as many
steps as it has nodes meets all of them, whatever `freep` is. So `SearchEnds` finds the place for a
freed block, `OneInsertPoint` says that there is no other, and `FitFound` finds the first block that fits,
in the list as it is or, in `AllocAnswers`, in the list into which a block of the pool was freed,
possibly merged with its neighbour: memmgr_alloc never takes from the pool twice.

`ArithProofs` proves the size arithmetic for every width, header size, minimum
and pool (`BlockRight`), for requests that stay two headers below the width (`NoWrap`). The largest
requests do wrap around.

Another part is the field of `fe.c`, for every even number of limbs, every width, fold and factor, and any
registers and calls. `NumbersKept` says that the registers stand for their numbers modulo the prime.
`OneLimb` says what a changed limb adds to the number, so `CarryKeeps`: what carry i takes from its place is what
it gives to the next, or, folded, to the first. `CarriesKeep` follows for carries in any order: the orders of
the code matter for the size of limbs only. For products, `PlacesMeet` says that the weights of two limbs, with the
2 of two odd places and the fold of what wraps around, are the weight of the place that they are added to,
modulo the prime; `ProductKeeps` exchanges the two sums; `SquareIsProduct` finds the same terms in the half
that a squaring adds up. The invariant `Kept` is `NumbersKept` with the types of limbs and numbers.

`BytesRight`, that `fe_tobytes` gives the one number below the prime, and with it the parity and the test for
zero, is proved under `Roomy`: four folds fit a narrow limb (76 and 2^25 in the code). The comment of
`fe_tobytes` sketches the argument. `FoldedQuotient` says that the fold over the limbs ends with the quotient, by
2^255, of the number and what the fold began with, an estimate from the last limb alone;
`BelowTheTop` bounds the limbs below the last by what a sum of such limbs can climb to (`TotalBetween`), so that the
estimate is good enough for `QuotientBounds`, and `QuotientRight` gets the quotient by the prime itself.
`FloorsRight` and `FittingNumbers` say that carries which round down leave limbs of their width, and that such
limbs show one number only.

The last part is the digits of scalars, `SignedDigits`, for every number of bits from 8 on and every scalar that
the callers may pass. A recoding is a fold, so each has a lemma that turns it into the sequence of its turns
(`SlideFold`, `NibbleFold`, `WindowFold`, `GatherFold`). Nibbles and windows pass a carry of 0 or 1 on, the same for both:
`CarryTurn` is what a turn does, `CarryLoop` that all of them keep the number and leave the last digit what it was
or one more. That this fits the table is the spare bit (`LastDigit`). Of `slide`, the invariant `Outer` says,
for every place, what the digits from there on add up to (`Sum`: sums u[j] with u[0] the
scalar), that the digits still unread are bits, and that from a set bit on they add up to the scalar
and the weight of that bit at most (`Unread`); `Gathering` is the same while a digit gathers bits. Subtracting adds a one further up, which runs
through ones to the first zero: `RoomAbove` shows from those bounds that there is one before the end of the array,
so `GatherSubtracts` loses nothing, and the bounds hold again above it. Without the bound on the scalar it is false: a
scalar with its last bit set can lose that one.

`AesCtrProofs` proves for every radix, width of word, counter and block, and set
of lengths: `TypeOK`, `CountersAgree`, `StorageIsCurrent` and `ImplementsStream`,
all under `ShortCalls`, no call with `Byte * (Byte - 1)`
full blocks (just under 1 MB); the run `aes_ctr_carry` shows that the bound is needed.
The arithmetic is in `NumberTheorems`: `AddCorrect` says that the loop of `Add`
adds modulo r^n. Its invariant after k digits is

    Low(result)[k] + (carry + what is left of num) * r^k = Low(old)[k] + num

and `NoLostCarry` shows that the test for a carry is right as long as
num < r * (r - 1). `PackValue` says that words and bytes show one number. For the
refinement, `KeystreamSplit` cuts a stretch of the keystream in two, and
`StoragePiece`, `DevicePiece` and `BlockPiece` recognise the three parts of `out` as
such stretches; `ScrollStep` and `BlocksStep` put them together for the two actions.

`BlockModesProofs` proves `Chained`, `InputKept` and `KeystreamFresh`, for every input within
`LengthAssumption`, every radix, width and initial value of the counter, in place or not. The
invariant says of each phase of a loop what the memory before, at and after place `i` holds,
and that the counter is the one that `i - 1` increments make of the first. That no counter comes twice is
arithmetic: `incrementIv` carries out of a digit twice in one round of it, on becoming r - 1
and on becoming 0, so `Carries` counts what a digit hands on, `CountsNext` what `k` increments make
of every place, and `CountsApart` says that two numbers of increments less than
r * (r/2)^(n-1) apart leave different counters. With 16 bytes that is 2^113: fewer than the
2^128 of a correct increment, and still more than any file.

`HlsCoreProofs` proves `OwnResult`, `NoPulseLost` and `QuietBetweenCalls` for one client and any
program whose accesses are in order (`DrivesFrom`, which the run `hls` checks of the real
programs as `InOrder`): any number of arguments of any number of words, kills and reruns
included. `Phases` says for each place in the program whether the core is started, has run, and
whether the bit that is polled can be set; `Written` and `Taken` that the registers and what
the core took are this job's. Two clients break the first line of it, see `hls_threads`.

`DevicesProofs` proves `AllReturned` and `HeldIsKept` for every set of programs and any number of
areas and processes. Neither is inductive, and they need the same strengthening: books (`Books`) that
list, for descriptors (`Files`), mappings (`Maps`) and structs (`Blocks`), who holds what,
with one holder for each entry and, unless a malloc has failed, no entry without a holder. A lemma per
operation says how it changes the books (`AreaMade`, `CleanedUp`, `Initialised`, `Released`,
`CipherMade`, `GaveUp`, ...), with `LowestIsNew` for what the system hands out. The old descriptors
that stay in the statics are harmless because a static is read only while its core is in use, when the
descriptor in it is that core's.

Many of these proofs need induction over the digits, the list or a set. The library states induction with an
operator parameter, so NumberTheorems proves it from a least element of a set of
naturals (`SetInduction`, `UpTo`, and `Recursion` for recursive functions).

`Ed25519Proofs` proves `NoncesFresh`, `SignaturesVerify` and `SecretsAgree` for every base
point, hash, set of seeds, scalars and messages, and any number of parties, shifts and nonces, from
what a protocol of this kind has to suppose of its curve and its hash. The hypotheses are definitions of
Ed25519, and none of them is about the protocol:

- `NumbersHashed`: the halves of a hash are numbers.
- `PrimeOrder`: the order of the base point is a prime that scalars have room for, keys that seeds make are no
  multiples of it, and the encoded multiples by the numbers below it are all different.
- `SumsAreRight`: the public half of a key can be read again, adding to it a multiple of the base point gives the
  multiple by the sum, and the two multiples `verify.c` computes at once add up.
- `SameMultiples`: the reference has the same multiples.
- `LadderIsRight`: the Montgomery ladder gives the multiple by the product of two secrets, and no zero.
- `NoCollisions(Generation)`: there are sets, one for each number of shifts, that hold the prefixes made by so
  many; the hash gives no prefix twice, nor one of a fresh key after shifts.

The invariant `IInv` says of every pair (`IsPair`) that there is one history of private keys, from the one its
seed makes through the shifts that were agreed on (`Grows`), and that each half stands somewhere
on it, at its own number of shifts; of every nonce that it belongs to such a key; and of the last signature that
it was made with the two halves of a pair at the same place. It is inductive without a hypothesis
about the hash. `SignatureVerifies` is then arithmetic modulo the order: `OneMultiple` says that what
`verify.c` compares is the nonce again just when the hash it multiplies by is the one that was
signed with, or the key is zero. `SamePrefix` follows two histories back to their seeds: a prefix that occurs
twice belongs to one scalar. The run `ed25519` checks the hypotheses on its small curve
(`GroundsHold`), so there is something of which they hold; that they hold of the real curve and of SHA-512 is
what the protocol rests on, and not proved.

Model-checked only: of the arithmetic of Ed25519 the points and their multiples, the bounds of limbs, the
scalars and reference field, the chains and conversions and the hash (MCArith, MCCurve), and with
them `GroundsHold`; `InOrder`, a fact about
the programs as they are; `CallReturns` and the other uses of fairness.

## 5. Findings

Each is a run that TLC ends with a violation, with the line of documentation the
code does not keep; the quotations are in `findings` of PROJECT.json.

- `user_mmap_driver.c:74`: the length asked for is ignored and two pages are mapped.
- `aes_fpga.c:351`: adding 0xff and a carry to a byte is not noticed as a carry.
- `aes_fpga.c:767`: CBC in its default mode aborts at its first block, because `memmgr_assert`
  refuses a block that is on the stack. (Behind it, line 221 would take the byte count that
  `Aes_encrypt_memmgr` returns for an error; no call gets there.)
- `aes_fpga.c:82`: two threads in `aes_encrypt` mix their jobs; the lock is commented out.
- `direct_dma_test.c:112`: a core that is done already is started again, without arguments.

Read in the code, without a run of their own:

- `memmgr.c:497`: `memmgr_assert` stops at the first place without the nonces, so almost every
  pointer into the pool passes; and where a live block still holds old nonces, a pointer
  that was allocated can fail.
- `aes_fpga.c:247`: `incrementIv` carries when the byte becomes 0xff, one step before it rolls over
  (243-244). No counter comes twice all the same (`KeystreamFresh`).
- `aes_fpga.c:834`: the cipher struct is lost when the copy of the iv cannot be allocated, and
  `user_mmap_driver.c:106` loses the mapping when the struct cannot. `AllReturned` says so.
- `aes_fpga.c:971`: `fpga_aes_new_short_16` ignores its mode.
- `aes_runner.c:575`: the cipher is freed a second time in the ecb and ctr modes; in the mode that
  runs all tests new ciphers are made over ones that were not freed.
- `qam_runner.cpp:116`: the core of line 20 is initialised again and its first descriptor lost.
- `xaes_linux.c:90`: two instances of one core share a static, so that releasing the first
  closes the descriptor of the second; `xaes_linux.c:100`: the list of `scandir` is never freed.
- `fe25519.c:97` of the reference packs what it assumes is below 2^255, and `fe25519_freeze`
  (`fe25519.c:77`), which tests the last limb for equality with 127, does not reduce a number
  whose last limb is 128; the last carry of `reduce_mul` is not folded again and may leave one.
  No property says that a product is below 2^255. `ge_p2_dbl` hands `fe_sub` an operand beyond the bound
  that `fe.c` states for it, and the product after it can still take it (`LimbsBounded`).
- `key_exchange.c:20`: the private key is clamped again, so that a key that was shifted by
  `ed25519_add_scalar` does not agree with the shifted public one: `SecretsAgree`
  is about pairs that were not shifted.

## 6. What is left

1. Proofs: the folds of `sc.c` and of the reference field, for every length.
2. `memmgr` with threads and its lazily created lock; memory of a closed session.

Not modelled, and why:

- `icap_program.cpp`, `cpu_memscan_*.c`, `ecdsa_ed25519_microblaze_test.c`, `ed25519_sign_microblaze_test.c`: one
  side of a protocol whose other side (the FIFO of the configuration port, a DMA engine, the
  program of a soft core) is not in the repository. Unlike the HLS cores, whose handshake
  their generated headers describe, nothing here says what the other side does.
- `gpio-dev-mem-test.c`, `write_file_to_memory.c`, `zcu102_program_bbram.c`: straight-line writes.
- `x*_sinit.c` and the bare-metal half of `x*.c`: not compiled on Linux.
- The interrupt and auto-restart accessors of `x*.c`: no program calls them.
- The software field of `curve_25519_test.c` beyond its inversion, the arithmetic at 255 bits and
  the constants of the hash: numbers TLC cannot hold against a definition; the layers that
  can go wrong by themselves (bits, chains, recoding, padding) are at full size.
- `open.c` of the reference, which is commented out.
- Statistics, benchmarks, plots, bitstreams, kernels, device trees.
