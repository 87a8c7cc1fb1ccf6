------------------------------ MODULE HlsCore ------------------------------
(***************************************************************************)
(* One HLS core and the programs that drive it through its registers, as   *)
(* the accessors in xaes.c and the other x*.c files do: one action for     *)
(* each access of a register.  The core is not in this repository; its     *)
(* behaviour is what the comments of x*_hw.h say of the registers, with    *)
(* ap_start cleared by the handshake that ends a run, ap_done and the      *)
(* valid bit of an output cleared by reading them, and the valid bit of an *)
(* argument a pulse, which a core that is not started does not see.        *)
(*                                                                         *)
(* A word of data is the number of the job it was written for.             *)
(***************************************************************************)
EXTENDS HlsPrograms

CONSTANTS
  Clients,   \* threads on one device, 0 .. n - 1
  Programs,  \* the programs that may be run
  Killable   \* those that may be killed as they poll

Cores ==
  [aes_encrypt |-> XAes, triple_aes |-> XTriple_aes, qam_runner |-> XQam_runner,
   memory_scanner_runner |-> XMemory_scanner,
   memory_scanner_runner_ddr |-> XMemory_scanner_ddr,
   direct_dma_test |-> XTest_direct_dma, crypto_sign_test |-> XCrypto_sign,
   curve25519_donna |-> XCurve25519_donna]

CallsOf ==
  [aes_encrypt |-> aes_encrypt, triple_aes |-> triple_aes,
   qam_runner |-> qam_runner, memory_scanner_runner |-> memory_scanner_runner,
   memory_scanner_runner_ddr |-> memory_scanner_runner_ddr,
   direct_dma_test |-> direct_dma_test, crypto_sign_test |-> crypto_sign_test,
   curve25519_donna |-> curve25519_donna]

\* mutant of Start: the control register is not read first
Start_NoRead == <<[op |-> "start"]>>

\* X*_Start reads the control register, keeps bit 7, which nobody sets, and
\* writes it back with bit 0
Start == <<[op |-> "read"], [op |-> "start"]>>

Set(arg) ==
  [w \in 1 .. arg.words |-> [op |-> "set", addr |-> arg.data + 4 * (w - 1)]]

Accesses(registers, call) ==
  CASE call.op = "Start" -> Start
    [] call.op = "RawStart" -> <<[op |-> "start"]>>
    [] call.op = "Set" -> Set(registers[call.arg])
    [] call.op = "Vld" -> <<[op |-> "vld", addr |-> registers[call.arg].vld]>>
    [] OTHER -> <<[op |-> call.op]>>

Steps ==
  [p \in Programs |->
     FlattenSeq([i \in 1 .. Len(CallsOf[p]) |-> Accesses(Cores[p], CallsOf[p][i])])]

Addresses(p) ==
  UNION {{Cores[p][a].data + 4 * (w - 1) : w \in 1 .. Cores[p][a].words} :
         a \in DOMAIN Cores[p]}

\* All the words of argument a are written by the accesses before the j-th.
WrittenBefore(p, a, j) ==
  \A w \in 1 .. Cores[p][a].words : \E i \in 1 .. j - 1 :
    Steps[p][i].op = "set" /\ Steps[p][i].addr = Cores[p][a].data + 4 * (w - 1)

\* Access f of program p is its only start, and the rest is in an order that
\* suits the core: the control register is read before the start only, each valid
\* bit is written once, after the start and after the words it speaks for, and
\* the program waits at its end and nowhere else.
DrivesFrom(p, f) ==
  LET s == Steps[p]
      n == Len(s)
      SameVld(i, j) == s[j].op = "vld" /\ s[j].addr = s[i].addr
      Accepts(a, j) == s[j].op = "vld" /\ s[j].addr = Cores[p][a].vld
  IN  /\ n \in Nat /\ f \in 1 .. n - 1
      /\ \A i \in 1 .. n :
           /\ s[i].op \in {"read", "start", "set", "vld", "IsDone", "Out"}
           /\ s[i].op = "start" <=> i = f
           /\ s[i].op = "read" => i < f
           /\ s[i].op = "set" => s[i].addr \in Addresses(p)
           /\ s[i].op = "vld" => /\ i > f /\ s[i].addr # NoVld
                                 /\ \E a \in DOMAIN Cores[p] : Accepts(a, i)
                                 /\ \A j \in 1 .. n : SameVld(i, j) => i = j
           /\ s[i].op \in {"IsDone", "Out"} <=> i = n
      /\ \A a \in DOMAIN Cores[p] :
           /\ Cores[p][a].words \in Nat \ {0}
           /\ IF Cores[p][a].vld = NoVld THEN WrittenBefore(p, a, f)
              ELSE \E j \in 1 .. n : Accepts(a, j) /\ WrittenBefore(p, a, j)
      /\ p \in Killable => s[1].op = "read" /\ s[n].op = "IsDone"

VARIABLES
  prog,              \* the program, the same for all clients
  pc, job,           \* of each client: the next access; the job it is on
  reg,               \* the data registers, by address
  ap_start, ap_done, \* bits of the control register
  out_vld,           \* valid bit of the output
  running, taken,    \* the core: in a run; the arguments taken for it
  ran                \* the arguments of the last run that finished

client == <<pc, job>>
device == <<reg, ap_start, ap_done, out_vld, running, taken, ran>>
vars == <<prog, client, device>>

core == Cores[prog]
Dead == 0
AtEnd(c) == pc[c] = Len(Steps[prog]) + 1
At(c, op) == pc[c] \in 1 .. Len(Steps[prog]) /\ Steps[prog][pc[c]].op = op
Addr(c) == Steps[prog][pc[c]].addr
Proceed(c) == pc' = [pc EXCEPT ![c] = @ + 1] /\ UNCHANGED <<prog, job>>

NotTaken == <<>>
Untaken(p) == [a \in DOMAIN Cores[p] |-> NotTaken]
Data(a) == [w \in 1 .. core[a].words |-> reg[core[a].data + 4 * (w - 1)]]

\* the jobs of a client alternate between two numbers
Jobs == UNION {{2 * c, 2 * c + 1} : c \in Clients}
NextJob(c) == IF job[c] = 2 * c THEN 2 * c + 1 ELSE 2 * c
Unwritten == 2 * Cardinality(Clients)

Init ==
  /\ prog \in Programs
  /\ pc = [c \in Clients |-> 1] /\ job = [c \in Clients |-> 2 * c]
  /\ reg = [x \in Addresses(prog) |-> Unwritten]
  /\ ap_start = FALSE /\ ap_done = FALSE /\ out_vld = FALSE
  /\ running = FALSE /\ taken = Untaken(prog) /\ ran = Untaken(prog)

-----------------------------------------------------------------------------
(* The accessors. *)

ReadCtrl(c) ==
  /\ At(c, "read")
  /\ ap_done' = FALSE
  /\ Proceed(c)
  /\ UNCHANGED <<reg, ap_start, out_vld, running, taken, ran>>

WriteStart(c) ==
  /\ At(c, "start")
  /\ ap_start' = TRUE
  /\ Proceed(c)
  /\ UNCHANGED <<reg, ap_done, out_vld, running, taken, ran>>

WriteData(c) ==
  /\ At(c, "set")
  /\ reg' = [reg EXCEPT ![Addr(c)] = job[c]]
  /\ Proceed(c)
  /\ UNCHANGED <<ap_start, ap_done, out_vld, running, taken, ran>>

\* The valid bit clears itself; the core keeps the data if it is started.
WriteVld(c) ==
  /\ At(c, "vld")
  /\ taken' = [a \in DOMAIN core |->
                 IF ap_start /\ core[a].vld = Addr(c) THEN Data(a) ELSE taken[a]]
  /\ Proceed(c)
  /\ UNCHANGED <<reg, ap_start, ap_done, out_vld, running, ran>>

\* The loop goes on until the bit is read as 1; reading it as 0 changes nothing.
IsDone(c) ==
  /\ At(c, "IsDone") /\ ap_done
  /\ ap_done' = FALSE
  /\ Proceed(c)
  /\ UNCHANGED <<reg, ap_start, out_vld, running, taken, ran>>

Get_count_out_vld(c) ==
  /\ At(c, "Out") /\ out_vld
  /\ out_vld' = FALSE
  /\ Proceed(c)
  /\ UNCHANGED <<reg, ap_start, ap_done, running, taken, ran>>

Return(c) ==
  /\ AtEnd(c)
  /\ pc' = [pc EXCEPT ![c] = 1]
  /\ job' = [job EXCEPT ![c] = NextJob(c)]
  /\ UNCHANGED <<prog, device>>

\* The program is killed as it waits, and run again when the device is done.
Kill(c) ==
  /\ prog \in Killable
  /\ At(c, "IsDone")
  /\ pc' = [pc EXCEPT ![c] = Dead]
  /\ UNCHANGED <<prog, job, device>>

Rerun(c) ==
  /\ pc[c] = Dead
  /\ ~ap_start
  /\ pc' = [pc EXCEPT ![c] = 1]
  /\ job' = [job EXCEPT ![c] = NextJob(c)]
  /\ UNCHANGED <<prog, device>>

Client(c) ==
  \/ ReadCtrl(c) \/ WriteStart(c) \/ WriteData(c) \/ WriteVld(c)
  \/ IsDone(c) \/ Get_count_out_vld(c) \/ Return(c)

-----------------------------------------------------------------------------
(* The core. *)

Begin ==
  /\ ap_start /\ ~running
  /\ running' = TRUE
  /\ UNCHANGED <<prog, client, reg, ap_start, ap_done, out_vld, taken, ran>>

\* An argument without a valid bit is looked at some time in the run.
Sample(a) ==
  /\ running /\ core[a].vld = NoVld /\ taken[a] = NotTaken
  /\ taken' = [taken EXCEPT ![a] = Data(a)]
  /\ UNCHANGED <<prog, client, reg, ap_start, ap_done, out_vld, running, ran>>

Finish ==
  /\ running /\ \A a \in DOMAIN core : taken[a] # NotTaken
  /\ ran' = taken /\ taken' = Untaken(prog)
  /\ running' = FALSE /\ ap_start' = FALSE
  /\ ap_done' = TRUE /\ out_vld' = TRUE
  /\ UNCHANGED <<prog, client, reg>>

Device == Begin \/ (\E a \in DOMAIN core : Sample(a)) \/ Finish

Next == Device \/ \E c \in Clients : Client(c) \/ Kill(c) \/ Rerun(c)

\* The device runs, and the scheduler runs every thread; nobody has to kill a
\* program or to run it again.
Fairness == WF_vars(Device) /\ \A c \in Clients : WF_vars(Client(c))

Spec == Init /\ [][Next]_vars
FairSpec == Spec /\ Fairness

-----------------------------------------------------------------------------
(* Correctness. *)

\* When the loop that waits has ended, what the device ran last is the job of
\* this call, every word of every argument: not an earlier job, nor a mixture.
OwnResult ==
  \A c \in Clients : AtEnd(c) =>
    ran = [a \in DOMAIN core |-> [w \in 1 .. core[a].words |-> job[c]]]

\* No valid bit is written to a core that is not started, which would not see it.
NoPulseLost == \A c \in Clients : At(c, "vld") => ap_start

\* Between two calls the core is at rest: no run that waits for arguments, no
\* argument left over for the next run.
QuietBetweenCalls ==
  (\A c \in Clients : pc[c] = 1) =>
    ~running /\ ~ap_start /\ taken = Untaken(prog)

\* Every program keeps the order the core needs, in all its accesses: what the
\* proofs for any such program start from.
InOrder == \E f \in 1 .. Len(Steps[prog]) : DrivesFrom(prog, f)

\* Every call returns, unless it is killed.
CallReturns == \A c \in Clients : pc[c] \notin {Dead, 1} ~> pc[c] \in {Dead, 1}
=============================================================================
