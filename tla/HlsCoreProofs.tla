--------------------------- MODULE HlsCoreProofs ---------------------------
(***************************************************************************)
(* With one client, every program whose accesses are in order gets the     *)
(* result of its own job, loses no valid bit and leaves the core at rest.  *)
(* With two clients this is false, as the run hls_threads shows.           *)
(***************************************************************************)
EXTENDS HlsCore, TLAPS

\* One thread, and programs in the order that the run hls finds seven of the
\* repository's eight to be in; the eighth, direct_dma_test, starts its core twice.
OneClient ==
  /\ Clients = {0}
  /\ \A p \in Programs : \E f \in 1 .. Len(Steps[p]) : DrivesFrom(p, f)

\* A killed client is where it was killed: at its end, where it waits.
pos == IF pc[0] = Dead THEN Len(Steps[prog]) ELSE pc[0]

\* The bit the program waits for.
flag == IF Steps[prog][Len(Steps[prog])].op = "IsDone" THEN ap_done ELSE out_vld

\* All the words of argument a, as written for the client's job.
Words(a) == [w \in 1 .. core[a].words |-> job[0]]

\* Program p writes the valid bit of argument a before its k-th access.
VldBy(p, a, k) ==
  \E i \in 1 .. Len(Steps[p]) : /\ i < k
                                /\ Steps[p][i].op = "vld" /\ Steps[p][i].addr = Cores[p][a].vld

VldWritten(a) == VldBy(prog, a, pos)

Finished ==
  /\ ran = [a \in DOMAIN core |-> Words(a)]
  /\ \A a \in DOMAIN core : core[a].vld # NoVld => VldWritten(a)

Types ==
  /\ pc \in [Clients -> 0 .. Len(Steps[prog]) + 1]
  /\ job \in [Clients -> {0, 1}]
  /\ reg = [x \in Addresses(prog) |-> reg[x]]
  /\ taken = [a \in DOMAIN core |-> taken[a]]
  /\ ap_start \in BOOLEAN /\ ap_done \in BOOLEAN /\ out_vld \in BOOLEAN /\ running \in BOOLEAN
  /\ pc[0] = Dead => prog \in Killable

\* The registers hold the words of this job that were written so far.
Written ==
  \A i \in 1 .. pos - 1 :
    i <= Len(Steps[prog]) /\ Steps[prog][i].op = "set" => reg[Steps[prog][i].addr] = job[0]

\* What the core has taken is this job's, and nothing before its valid bit.
Taken ==
  \A a \in DOMAIN core :
    /\ taken[a] \in {NotTaken, Words(a)}
    /\ taken[a] # NotTaken /\ core[a].vld # NoVld => VldWritten(a)

\* A core that is not started neither runs nor keeps arguments.
AtRest == ~ap_start => ~running /\ taken = Untaken(prog)

\* Before the start, in the run, and after it.
Phases(f) ==
  /\ pos <= f => ~ap_start /\ (flag => pos = 1 /\ prog \in Killable)
  /\ pos \in f + 1 .. Len(Steps[prog]) => IF ap_start THEN ~flag ELSE Finished
  /\ pos = Len(Steps[prog]) + 1 => ~ap_start /\ ~flag /\ Finished

IInv ==
  /\ prog \in Programs
  /\ Types /\ Written /\ Taken /\ AtRest
  /\ \E f \in 1 .. Len(Steps[prog]) : DrivesFrom(prog, f) /\ Phases(f)

-----------------------------------------------------------------------------
\* What an access of the client does to its place in the program.
LEMMA Advance ==
  ASSUME OneClient, IInv, NEW c \in Clients, pc[c] \in 1 .. Len(Steps[prog]), Proceed(c)
  PROVE  /\ c = 0 /\ pos = pc[0] /\ pos' = pos + 1 /\ pos \in 1 .. Len(Steps[prog])
         /\ Len(Steps[prog]) \in Nat
         /\ prog' = prog /\ job' = job /\ pc'[0] = pc[0] + 1
         /\ pc' \in [Clients -> 0 .. Len(Steps[prog]) + 1] /\ pc'[0] # Dead
<1>1. c = 0 /\ Clients = {0}
  BY DEF OneClient
<1>2. Len(Steps[prog]) \in Nat
  BY DEF IInv, DrivesFrom
<1>3. pc \in [Clients -> 0 .. Len(Steps[prog]) + 1]
  BY DEF IInv, Types
<1>4. prog' = prog /\ job' = job /\ pc' = [pc EXCEPT ![0] = @ + 1]
  BY <1>1 DEF Proceed
<1>5. pc'[0] = pc[0] + 1 /\ pc[0] \in 1 .. Len(Steps[prog])
  BY <1>1, <1>3, <1>4
<1>6. pos = pc[0] /\ pos' = pc'[0]
  BY <1>2, <1>5 DEF pos, Dead
<1> QED BY <1>1, <1>2, <1>3, <1>4, <1>5, <1>6 DEF Dead

\* The valid bits written only grow.
LEMMA VldGrows ==
  ASSUME NEW p, NEW a, NEW k \in Nat, NEW m \in Nat, k <= m, Len(Steps[p]) \in Nat,
         VldBy(p, a, k)
  PROVE  VldBy(p, a, m)
BY DEF VldBy

LEMMA InitOK == OneClient /\ Init => IInv
<1> SUFFICES ASSUME OneClient, Init PROVE IInv
  OBVIOUS
<1>1. PICK f \in 1 .. Len(Steps[prog]) : DrivesFrom(prog, f)
  BY DEF Init, OneClient
<1>2. Len(Steps[prog]) \in Nat /\ f \in 1 .. Len(Steps[prog]) - 1
  BY <1>1 DEF DrivesFrom
<1>3. pc = [c \in {0} |-> 1] /\ job = [c \in {0} |-> 0] /\ pos = 1
  BY DEF Init, OneClient, pos, Dead
<1>4. Types
  <2>1. /\ pc \in [Clients -> 0 .. Len(Steps[prog]) + 1]
        /\ job \in [Clients -> {0, 1}] /\ pc[0] # Dead
    BY <1>2, <1>3 DEF OneClient, Dead
  <2>2. /\ reg = [x \in Addresses(prog) |-> reg[x]]
        /\ taken = [a \in DOMAIN core |-> taken[a]]
    BY DEF Init, Untaken, core
  <2> QED BY <2>1, <2>2 DEF Types, Init
<1>5. Written
  BY <1>3 DEF Written
<1>6. Taken
  BY DEF Taken, Init, Untaken, core
<1>7. AtRest
  BY DEF AtRest, Init
<1>8. Phases(f)
  BY <1>2, <1>3 DEF Phases, Init, flag
<1> QED BY <1>1, <1>4, <1>5, <1>6, <1>7, <1>8 DEF IInv, Init

\* An argument whose words are written is read as this job's.
LEMMA DataIsWords ==
  ASSUME IInv, NEW a \in DOMAIN core, NEW j \in Nat, j <= pos, pos \in Nat,
         pos <= Len(Steps[prog]), WrittenBefore(prog, a, j)
  PROVE  Data(a) = Words(a)
<1>1. ASSUME NEW w \in 1 .. core[a].words
      PROVE  reg[core[a].data + 4 * (w - 1)] = job[0]
  <2>1. PICK i \in 1 .. j - 1 : /\ Steps[prog][i].op = "set"
                                /\ Steps[prog][i].addr = core[a].data + 4 * (w - 1)
    BY DEF WrittenBefore, core
  <2>2. i \in 1 .. pos - 1 /\ i <= Len(Steps[prog])
    BY DEF IInv, DrivesFrom
  <2> QED BY <2>1, <2>2 DEF IInv, Written
<1> QED BY <1>1 DEF Data, Words

\* An argument that is taken does not look untaken.
LEMMA WordsAreTaken ==
  ASSUME IInv, NEW a \in DOMAIN core
  PROVE  Words(a) # NotTaken
<1>1. core[a].words \in Nat \ {0}
  BY DEF IInv, DrivesFrom, core
<1>2. 1 \in DOMAIN Words(a)
  BY <1>1 DEF Words
<1>3. DOMAIN NotTaken = {}
  BY DEF NotTaken
<1> QED BY <1>2, <1>3

\* At a valid bit the core is started: it can not have finished without it.
LEMMA StartedAtVld ==
  ASSUME OneClient, IInv, NEW c \in Clients, At(c, "vld")
  PROVE  ap_start
<1> DEFINE s == Steps[prog]
           n == Len(s)
<1>1. PICK f \in 1 .. n : DrivesFrom(prog, f) /\ Phases(f)
  BY DEF IInv
<1>2. n \in Nat /\ c = 0 /\ pc[0] \in 1 .. n /\ s[pc[0]].op = "vld" /\ pos = pc[0]
  BY <1>1 DEF DrivesFrom, OneClient, At, pos, Dead
<1>3. /\ pos > f /\ s[pos].addr # NoVld
      /\ \A j \in 1 .. n : s[j].op = "vld" /\ s[j].addr = s[pos].addr => pos = j
  BY <1>1, <1>2 DEF DrivesFrom
<1>4. PICK a \in DOMAIN core : core[a].vld = s[pos].addr
  BY <1>1, <1>2 DEF DrivesFrom, core
<1>5. ASSUME VldWritten(a) PROVE FALSE
  BY <1>2, <1>3, <1>4, <1>5 DEF VldWritten, VldBy, core
<1>6. ASSUME ~ap_start PROVE FALSE
  <2>1. Finished
    BY <1>1, <1>2, <1>3, <1>6 DEF Phases
  <2> QED BY <1>3, <1>4, <1>5, <2>1 DEF Finished
<1> QED BY <1>6 DEF IInv, Types

-----------------------------------------------------------------------------
(* Every step keeps the invariant. *)

\* An access that writes no register word and takes no argument.
LEMMA QuietAccess ==
  ASSUME OneClient, IInv, NEW c \in Clients, pc[c] \in 1 .. Len(Steps[prog]), Proceed(c),
         Steps[prog][pc[c]].op # "set", UNCHANGED <<reg, taken, ran, running>>,
         ap_start' \in BOOLEAN, ap_done' \in BOOLEAN, out_vld' \in BOOLEAN
  PROVE  Types' /\ Written' /\ Taken' /\ (Finished => Finished')
<1> DEFINE s == Steps[prog]
           n == Len(s)
<1>1. /\ c = 0 /\ pos = pc[0] /\ pos' = pos + 1 /\ pos \in 1 .. n /\ n \in Nat
      /\ prog' = prog /\ job' = job /\ pc'[0] # Dead
      /\ pc' \in [Clients -> 0 .. n + 1]
  BY Advance
<1>2. core' = core /\ \A a : Words(a)' = Words(a)
  BY <1>1 DEF core, Words
<1>3. \A a : VldWritten(a) => VldWritten(a)'
  BY <1>1, VldGrows DEF VldWritten
<1>4. Types'
  BY <1>1, <1>2 DEF IInv, Types
<1>5. Written'
  <2>1. ASSUME NEW i \in 1 .. pos, i <= n, s[i].op = "set" PROVE reg[s[i].addr] = job[0]
    <3>1. i # pos
      BY <1>1, <2>1, Advance
    <3>2. i \in 1 .. pos - 1
      BY <1>1, <3>1
    <3>3. QED
      BY <2>1, <3>2 DEF IInv, Written
  <2>2. pos' - 1 = pos /\ prog' = prog /\ job' = job /\ reg' = reg
    BY <1>1
  <2>3. QED
    BY <2>1, <2>2 DEF Written
<1>6. Taken'
  BY <1>2, <1>3 DEF IInv, Taken
<1>7. Finished => Finished'
  BY <1>2, <1>3 DEF Finished
<1> QED BY <1>4, <1>5, <1>6, <1>7

LEMMA ClientOK ==
  ASSUME OneClient, IInv, NEW c \in Clients, Client(c)
  PROVE  IInv'
<1> DEFINE s == Steps[prog]
           n == Len(s)
<1>1. PICK f \in 1 .. n : DrivesFrom(prog, f) /\ Phases(f)
  BY DEF IInv
<1>2. n \in Nat /\ f \in 1 .. n - 1
  BY <1>1 DEF DrivesFrom
<1>3. /\ c = 0 /\ Clients = {0} /\ prog \in Programs /\ Types /\ AtRest
  BY DEF OneClient, IInv
<1>a. SUFFICES prog' = prog /\ Types' /\ Written' /\ Taken' /\ AtRest' /\ Phases(f)'
  BY <1>1, <1>3 DEF IInv
<1>4. CASE ReadCtrl(c)
  <2>1. pc[c] \in 1 .. n /\ s[pc[c]].op = "read" /\ Proceed(c)
    BY <1>4 DEF ReadCtrl, At
  <2>2. /\ pos = pc[0] /\ pos' = pos + 1 /\ prog' = prog /\ pos \in 1 .. n
    BY <2>1, Advance
  <2>3. pos < f
    BY <1>1, <1>3, <2>1, <2>2 DEF DrivesFrom
  <2>4. Types' /\ Written' /\ Taken'
    BY <1>3, <1>4, <2>1, QuietAccess DEF ReadCtrl, Types
  <2>5. ~ap_start' /\ AtRest'
    BY <1>1, <1>3, <1>4, <2>2, <2>3 DEF ReadCtrl, Phases, AtRest
  <2>6. ~flag'
    <3>1. CASE s[n].op = "IsDone"
      BY <1>4, <2>2, <3>1 DEF ReadCtrl, flag
    <3>2. CASE s[n].op # "IsDone"
      <4>1. prog \notin Killable
        BY <1>1, <3>2 DEF DrivesFrom
      <4>2. ~flag
        BY <1>1, <1>2, <2>2, <2>3, <4>1 DEF Phases
      <4> QED BY <1>4, <2>2, <3>2, <4>2 DEF ReadCtrl, flag
    <3> QED BY <3>1, <3>2
  <2>7. Phases(f)'
    BY <1>2, <1>3, <2>1, <2>2, <2>3, <2>5, <2>6 DEF Phases
  <2> QED BY <2>2, <2>4, <2>5, <2>7
<1>5. CASE WriteStart(c)
  <2>1. pc[c] \in 1 .. n /\ s[pc[c]].op = "start" /\ Proceed(c)
    BY <1>5 DEF WriteStart, At
  <2>2. pos = pc[0] /\ pos' = pos + 1 /\ prog' = prog
    BY <2>1, Advance
  <2>3. pos = f
    BY <1>1, <1>3, <2>1, <2>2 DEF DrivesFrom
  <2>4. Types' /\ Written' /\ Taken'
    BY <1>3, <1>5, <2>1, QuietAccess DEF WriteStart, Types
  <2>5. ap_start' /\ AtRest'
    BY <1>5 DEF WriteStart, AtRest
  <2>6. ~flag
    BY <1>1, <1>3, <2>1, <2>2, <2>3 DEF Phases, DrivesFrom
  <2>7. ~flag'
    BY <1>5, <2>2, <2>6 DEF WriteStart, flag
  <2>8. Phases(f)'
    BY <1>2, <2>2, <2>3, <2>5, <2>7 DEF Phases
  <2> QED BY <2>2, <2>4, <2>5, <2>8
<1>6. CASE WriteData(c)
  <2>1. pc[c] \in 1 .. n /\ s[pc[c]].op = "set" /\ Proceed(c)
    BY <1>6 DEF WriteData, At
  <2>2. /\ pos = pc[0] /\ pos' = pos + 1 /\ prog' = prog /\ job' = job /\ pos \in 1 .. n
        /\ pc'[0] # Dead /\ pc' \in [Clients -> 0 .. n + 1]
    BY <2>1, Advance
  <2>3. reg' = [reg EXCEPT ![Addr(0)] = job[0]] /\ Addr(0) = s[pos].addr
        /\ UNCHANGED <<ap_start, ap_done, out_vld, running, taken, ran>>
    BY <1>3, <1>6, <2>2 DEF WriteData, Addr
  <2>4. Addr(0) \in Addresses(prog) /\ pos # n /\ pos # f
    BY <1>1, <1>2, <1>3, <2>1, <2>2, <2>3 DEF DrivesFrom
  <2>5. /\ reg' = [x \in Addresses(prog) |-> reg'[x]]
        /\ reg'[Addr(0)] = job[0] /\ \A x \in Addresses(prog) \ {Addr(0)} : reg'[x] = reg[x]
    BY <1>3, <2>3, <2>4 DEF Types
  <2>6. core' = core /\ \A a : Words(a)' = Words(a)
    BY <2>2 DEF core, Words
  <2>7. \A a : VldWritten(a) => VldWritten(a)'
    BY <1>2, <2>2, VldGrows DEF VldWritten
  <2>8. Types'
    BY <1>3, <2>2, <2>3, <2>5, <2>6 DEF Types
  <2>9. Written'
    <3>1. ASSUME NEW i \in 1 .. pos, i <= n, s[i].op = "set" PROVE reg'[s[i].addr] = job[0]
      <4>1. s[i].addr \in Addresses(prog)
        BY <1>1, <3>1, <2>2 DEF DrivesFrom
      <4>2. CASE s[i].addr = Addr(0)
        BY <2>5, <4>2
      <4>3. CASE s[i].addr # Addr(0)
        <5>1. i \in 1 .. pos - 1
          BY <2>2, <2>3, <4>3
        <5>2. reg[s[i].addr] = job[0]
          BY <3>1, <5>1 DEF IInv, Written
        <5> QED BY <2>5, <4>1, <4>3, <5>2
      <4> QED BY <4>2, <4>3
    <3> QED BY <2>2, <3>1 DEF Written
  <2>10. Taken' /\ AtRest' /\ (Finished => Finished')
    BY <2>2, <2>3, <2>6, <2>7 DEF IInv, Taken, AtRest, Finished
  <2>11. flag' = flag /\ (flag => pos > f)
    <3>1. s[1].op = "set" => prog \notin Killable
      BY <1>1 DEF DrivesFrom
    <3>2. flag => pos > f
      BY <1>1, <1>2, <1>3, <2>1, <2>2, <3>1 DEF Phases
    <3>3. flag' = flag
      BY <2>2, <2>3 DEF flag
    <3> QED BY <3>2, <3>3
  <2>12. Phases(f)'
    <3>1. pos + 1 <= f => ~ap_start' /\ ~flag'
      BY <1>1, <1>2, <2>2, <2>3, <2>11 DEF Phases
    <3>2. pos + 1 \in f + 1 .. n => IF ap_start' THEN ~flag' ELSE Finished'
      <4>1. pos + 1 \in f + 1 .. n => pos \in f + 1 .. n
        BY <1>2, <2>2, <2>4
      <4>2. QED
        BY <1>1, <2>3, <2>10, <2>11, <4>1 DEF Phases
    <3>3. pos + 1 # n + 1
      BY <1>2, <2>2, <2>4
    <3>4. QED
      BY <2>2, <3>1, <3>2, <3>3 DEF Phases
  <2> QED BY <2>2, <2>8, <2>9, <2>10, <2>12
<1>7. CASE WriteVld(c)
  <2>1. pc[c] \in 1 .. n /\ s[pc[c]].op = "vld" /\ Proceed(c)
    BY <1>7 DEF WriteVld, At
  <2>2. /\ pos = pc[0] /\ pos' = pos + 1 /\ prog' = prog /\ job' = job /\ pos \in 1 .. n
        /\ pc'[0] # Dead /\ pc' \in [Clients -> 0 .. n + 1]
    BY <2>1, Advance
  <2>3. ap_start
    BY <1>7, StartedAtVld DEF WriteVld
  <2>4. /\ taken' = [a \in DOMAIN core |-> IF core[a].vld = s[pos].addr THEN Data(a) ELSE taken[a]]
        /\ UNCHANGED <<reg, ap_start, ap_done, out_vld, running, ran>>
    BY <1>3, <1>7, <2>2, <2>3 DEF WriteVld, Addr
  <2>5. pos > f /\ pos # n /\ s[pos].addr # NoVld
        /\ \A j \in 1 .. n : s[j].op = "vld" /\ s[j].addr = s[pos].addr => pos = j
    BY <1>1, <1>2, <1>3, <2>1, <2>2 DEF DrivesFrom
  <2>6. core' = core /\ \A a : Words(a)' = Words(a)
    BY <2>2 DEF core, Words
  <2>7. \A a : VldWritten(a) => VldWritten(a)'
    BY <1>2, <2>2, VldGrows DEF VldWritten
  <2>8. Types' /\ AtRest'
    BY <1>3, <2>2, <2>3, <2>4, <2>6 DEF Types, AtRest
  <2>9. Written'
    <3>1. ASSUME NEW i \in 1 .. pos, i <= n, s[i].op = "set" PROVE reg[s[i].addr] = job[0]
      <4>1. i # pos
        BY <1>3, <2>1, <2>2, <3>1
      <4>2. i \in 1 .. pos - 1
        BY <2>2, <4>1
      <4>3. QED
        BY <3>1, <4>2 DEF IInv, Written
    <3>2. QED
      BY <2>2, <2>4, <3>1 DEF Written
  <2>10. ASSUME NEW a \in DOMAIN core, core[a].vld = s[pos].addr
         PROVE  Data(a) = Words(a) /\ VldWritten(a)'
    <3>1. PICK j \in 1 .. n : /\ s[j].op = "vld" /\ s[j].addr = core[a].vld
                              /\ WrittenBefore(prog, a, j)
      BY <1>1, <2>5, <2>10 DEF DrivesFrom, core
    <3>2. j = pos
      BY <2>5, <2>10, <3>1
    <3>3. VldBy(prog, a, pos + 1)
      BY <2>2, <3>1, <3>2 DEF VldBy, core
    <3>4. Data(a) = Words(a)
      BY <1>2, <2>2, <3>1, <3>2, DataIsWords
    <3> QED BY <2>2, <3>3, <3>4 DEF VldWritten
  <2>11. Taken'
    <3>1. ASSUME NEW a \in DOMAIN core
          PROVE  /\ taken'[a] \in {NotTaken, Words(a)}
                 /\ taken'[a] # NotTaken /\ core[a].vld # NoVld => VldWritten(a)'
      <4>1. CASE core[a].vld = s[pos].addr
        BY <2>4, <2>10, <4>1
      <4>2. CASE core[a].vld # s[pos].addr
        BY <2>4, <2>7, <4>2 DEF IInv, Taken
      <4> QED BY <4>1, <4>2
    <3> QED BY <2>6, <3>1 DEF Taken
  <2>12. Phases(f)'
    BY <1>1, <1>2, <2>2, <2>3, <2>4, <2>5 DEF Phases, flag
  <2> QED BY <2>2, <2>8, <2>9, <2>11, <2>12
<1>8. CASE IsDone(c) \/ Get_count_out_vld(c)
  <2>1. /\ pc[c] \in 1 .. n /\ s[pc[c]].op \in {"IsDone", "Out"} /\ Proceed(c)
        /\ UNCHANGED <<reg, ap_start, running, taken, ran>>
    BY <1>8 DEF IsDone, Get_count_out_vld, At
  <2>2. /\ pos = pc[0] /\ pos' = pos + 1 /\ prog' = prog
    BY <2>1, Advance
  <2>3. pos = n
    BY <1>1, <1>3, <2>1, <2>2 DEF DrivesFrom
  <2>4. flag /\ ~flag'
    BY <1>3, <1>8, <2>1, <2>2, <2>3 DEF IsDone, Get_count_out_vld, At, flag
  <2>5. ap_done' \in BOOLEAN /\ out_vld' \in BOOLEAN /\ ap_start' \in BOOLEAN
    BY <1>3, <1>8 DEF IsDone, Get_count_out_vld, Types
  <2>6. Types' /\ Written' /\ Taken' /\ (Finished => Finished')
    BY <2>1, <2>5, QuietAccess
  <2>7. ~ap_start /\ Finished
    BY <1>1, <1>2, <2>3, <2>4 DEF Phases
  <2>8. AtRest' /\ Phases(f)'
    BY <1>2, <1>3, <2>1, <2>2, <2>3, <2>4, <2>6, <2>7 DEF AtRest, Phases
  <2> QED BY <2>2, <2>6, <2>8
<1>9. CASE Return(c)
  <2>1. /\ pc[0] = n + 1 /\ pc' = [pc EXCEPT ![0] = 1] /\ job' = [job EXCEPT ![0] = NextJob(0)]
        /\ UNCHANGED <<prog, reg, ap_start, ap_done, out_vld, running, taken, ran>>
    BY <1>3, <1>9 DEF Return, AtEnd, device
  <2>2. pos = n + 1 /\ pos' = 1 /\ pc'[0] = 1
    BY <1>2, <1>3, <2>1 DEF pos, Dead, Types
  <2>3. ~ap_start /\ ~flag /\ taken = Untaken(prog)
    BY <1>1, <1>3, <2>2 DEF Phases, AtRest
  <2>4. NextJob(0) \in {0, 1}
    BY DEF NextJob
  <2>5. Types'
    BY <1>2, <1>3, <2>1, <2>2, <2>4 DEF Types, core, Dead
  <2>6. Written' /\ AtRest' /\ Taken'
    BY <1>3, <2>1, <2>2, <2>3 DEF Written, AtRest, Taken, Untaken, core
  <2>7. Phases(f)'
    BY <1>2, <2>1, <2>2, <2>3 DEF Phases, flag
  <2> QED BY <2>1, <2>5, <2>6, <2>7
<1> QED BY <1>4, <1>5, <1>6, <1>7, <1>8, <1>9 DEF Client

LEMMA KillOK ==
  ASSUME OneClient, IInv, NEW c \in Clients, Kill(c) \/ Rerun(c)
  PROVE  IInv'
<1> DEFINE s == Steps[prog]
           n == Len(s)
<1>1. PICK f \in 1 .. n : DrivesFrom(prog, f) /\ Phases(f)
  BY DEF IInv
<1>2. n \in Nat /\ f \in 1 .. n - 1
  BY <1>1 DEF DrivesFrom
<1>3. /\ c = 0 /\ Clients = {0} /\ prog \in Programs /\ Types /\ AtRest
  BY DEF OneClient, IInv
<1>4. /\ UNCHANGED <<prog, reg, ap_start, ap_done, out_vld, running, taken, ran>>
      /\ flag' = flag /\ core' = core
  BY DEF Kill, Rerun, device, flag, core
<1>a. SUFFICES Types' /\ Written' /\ Taken' /\ AtRest' /\ Phases(f)'
  BY <1>1, <1>3, <1>4 DEF IInv
<1>5. CASE Kill(c)
  <2>1. /\ pc' = [pc EXCEPT ![0] = Dead] /\ job' = job /\ prog \in Killable
        /\ pc[0] \in 1 .. n /\ s[pc[0]].op = "IsDone"
    BY <1>3, <1>5 DEF Kill, At
  <2>2. pc[0] = n
    BY <1>1, <2>1 DEF DrivesFrom
  <2>3. pos = n /\ pos' = n
    BY <1>2, <1>3, <1>4, <2>1, <2>2 DEF pos, Dead, Types
  <2>4. Types'
    BY <1>2, <1>3, <1>4, <2>1 DEF Types, Dead
  <2>5. \A a : Words(a)' = Words(a) /\ VldWritten(a)' = VldWritten(a)
    BY <1>4, <2>1, <2>3 DEF Words, VldWritten
  <2>6. Written' /\ Taken' /\ AtRest' /\ (Finished => Finished')
    BY <1>4, <2>1, <2>3, <2>5 DEF IInv, Written, Taken, AtRest, Finished
  <2>7. Phases(f)'
    BY <1>1, <1>2, <1>4, <2>3, <2>6 DEF Phases
  <2> QED BY <2>4, <2>6, <2>7
<1>6. CASE Rerun(c)
  <2>1. /\ pc' = [pc EXCEPT ![0] = 1] /\ job' = [job EXCEPT ![0] = NextJob(0)]
        /\ pc[0] = Dead /\ ~ap_start
    BY <1>3, <1>6 DEF Rerun
  <2>2. pos' = 1 /\ pc'[0] = 1 /\ prog \in Killable
    BY <1>3, <2>1 DEF pos, Dead, Types
  <2>3. NextJob(0) \in {0, 1}
    BY DEF NextJob
  <2>4. Types'
    BY <1>2, <1>3, <1>4, <2>1, <2>2, <2>3 DEF Types, Dead
  <2>5. Written' /\ AtRest' /\ Taken'
    BY <1>3, <1>4, <2>1, <2>2 DEF Written, AtRest, Taken, Untaken, core
  <2>6. Phases(f)'
    BY <1>2, <1>4, <2>1, <2>2 DEF Phases
  <2> QED BY <2>4, <2>5, <2>6
<1> QED BY <1>5, <1>6

LEMMA DeviceOK ==
  ASSUME OneClient, IInv, Device
  PROVE  IInv'
<1> DEFINE s == Steps[prog]
           n == Len(s)
<1>1. PICK f \in 1 .. n : DrivesFrom(prog, f) /\ Phases(f)
  BY DEF IInv
<1>2. n \in Nat /\ f \in 1 .. n - 1
  BY <1>1 DEF DrivesFrom
<1>3. Clients = {0} /\ prog \in Programs /\ Types /\ AtRest /\ Written /\ Taken
  BY DEF OneClient, IInv
<1>4. prog' = prog /\ pc' = pc /\ job' = job /\ reg' = reg
  BY DEF Device, Begin, Sample, Finish, client
<1>5. /\ pos' = pos /\ core' = core
      /\ \A a : Words(a)' = Words(a) /\ VldWritten(a)' = VldWritten(a)
  BY <1>4 DEF pos, core, Words, VldWritten
<1>6. Written'
  BY <1>3, <1>4, <1>5 DEF Written
<1>7. ap_start /\ pos \in f + 1 .. n
  <2>1. ap_start
    BY <1>3 DEF Device, Begin, Sample, Finish, AtRest
  <2>2. pos \in 0 .. n + 1
    BY <1>2, <1>3 DEF Types, pos
  <2> QED BY <1>1, <1>2, <2>1, <2>2 DEF Phases
<1>a. SUFFICES Types' /\ Taken' /\ AtRest' /\ Phases(f)'
  BY <1>1, <1>3, <1>4, <1>6 DEF IInv
<1>8. CASE Begin
  <2>1. running' = TRUE /\ UNCHANGED <<ap_start, ap_done, out_vld, taken, ran>>
    BY <1>8 DEF Begin
  <2>2. Types' /\ Taken' /\ AtRest'
    BY <1>3, <1>4, <1>5, <1>7, <2>1 DEF Types, Taken, AtRest
  <2>3. Phases(f)'
    BY <1>1, <1>2, <1>4, <1>5, <1>7, <2>1 DEF Phases, flag
  <2> QED BY <2>2, <2>3
<1>9. ASSUME NEW a \in DOMAIN core, Sample(a)
      PROVE  Types' /\ Taken' /\ AtRest' /\ Phases(f)'
  <2>1. /\ core[a].vld = NoVld /\ taken' = [taken EXCEPT ![a] = Data(a)]
        /\ UNCHANGED <<ap_start, ap_done, out_vld, running, ran>>
    BY <1>9 DEF Sample
  <2>2. WrittenBefore(prog, a, f)
    BY <1>1, <2>1 DEF DrivesFrom, core
  <2>3. Data(a) = Words(a)
    BY <1>2, <1>7, <2>2, DataIsWords
  <2>4. Types' /\ AtRest'
    BY <1>3, <1>4, <1>5, <1>7, <2>1 DEF Types, AtRest
  <2>5. ASSUME NEW b \in DOMAIN core
        PROVE  /\ taken'[b] \in {NotTaken, Words(b)}
               /\ taken'[b] # NotTaken /\ core[b].vld # NoVld => VldWritten(b)
    BY <1>3, <2>1, <2>3 DEF Types, Taken
  <2>6. Taken'
    BY <1>5, <2>5 DEF Taken
  <2>7. Phases(f)'
    BY <1>1, <1>2, <1>4, <1>5, <1>7, <2>1 DEF Phases, flag
  <2> QED BY <2>4, <2>6, <2>7
<1>10. CASE Finish
  <2>1. /\ \A a \in DOMAIN core : taken[a] # NotTaken
        /\ ran' = taken /\ taken' = Untaken(prog)
        /\ running' = FALSE /\ ap_start' = FALSE
        /\ ap_done' = TRUE /\ out_vld' = TRUE
    BY <1>10 DEF Finish
  <2>2. Types' /\ AtRest' /\ Taken'
    BY <1>3, <1>4, <1>5, <2>1 DEF Types, AtRest, Taken, Untaken, core
  <2>3. \A a \in DOMAIN core : taken[a] = Words(a) /\ (core[a].vld # NoVld => VldWritten(a))
    BY <1>3, <2>1 DEF Taken
  <2>4. ran' = [a \in DOMAIN core |-> Words(a)]
    BY <1>3, <2>1, <2>3 DEF Types
  <2>5. Finished'
    BY <1>5, <2>3, <2>4 DEF Finished
  <2>6. Phases(f)'
    BY <1>2, <1>4, <1>5, <1>7, <2>1, <2>5 DEF Phases
  <2> QED BY <2>2, <2>6
<1> QED BY <1>8, <1>9, <1>10 DEF Device

LEMMA NextOK == OneClient /\ IInv /\ [Next]_vars => IInv'
<1> SUFFICES ASSUME OneClient, IInv, [Next]_vars PROVE IInv'
  OBVIOUS
<1>1. CASE UNCHANGED vars
  <2>1. UNCHANGED <<prog, pc, job, reg, ap_start, ap_done, out_vld, running, taken, ran>>
    BY <1>1 DEF vars, client, device
  <2>2. /\ pos' = pos /\ core' = core /\ flag' = flag
        /\ \A a : Words(a)' = Words(a) /\ VldWritten(a)' = VldWritten(a)
    BY <2>1 DEF pos, core, flag, Words, VldWritten
  <2>3. Types' = Types /\ Written' = Written /\ Taken' = Taken /\ AtRest' = AtRest
        /\ Finished' = Finished
    BY <2>1, <2>2 DEF Types, Written, Taken, AtRest, Finished
  <2>4. \A f : Phases(f) => Phases(f)'
    BY <2>1, <2>2, <2>3 DEF Phases
  <2> QED BY <2>1, <2>3, <2>4 DEF IInv
<1>2. CASE Next
  BY <1>2, ClientOK, KillOK, DeviceOK DEF Next
<1> QED BY <1>1, <1>2

-----------------------------------------------------------------------------
(* The theorems. *)

LEMMA Invariance ==
  ASSUME OneClient
  PROVE  Spec => []IInv
BY InitOK, NextOK, PTL DEF Spec

\* When the waiting loop of a program ends, the core's last run was of this
\* call's job, every word of every argument.
THEOREM ResultIsOwn ==
  ASSUME OneClient
  PROVE  Spec => []OwnResult
<1>1. IInv => OwnResult
  <2> SUFFICES ASSUME IInv, NEW c \in Clients, AtEnd(c)
               PROVE  ran = [a \in DOMAIN core |-> [w \in 1 .. core[a].words |-> job[c]]]
    BY DEF OwnResult
  <2>1. PICK f \in 1 .. Len(Steps[prog]) : DrivesFrom(prog, f) /\ Phases(f)
    BY DEF IInv
  <2>2. c = 0 /\ pos = Len(Steps[prog]) + 1
    BY <2>1 DEF OneClient, AtEnd, pos, Dead, DrivesFrom
  <2> QED BY <2>1, <2>2 DEF Phases, Finished, Words
<1> QED BY <1>1, Invariance, PTL

\* A valid bit is only ever written to a core that is started.
THEOREM PulsesAreSeen ==
  ASSUME OneClient
  PROVE  Spec => []NoPulseLost
<1>1. IInv => NoPulseLost
  BY StartedAtVld DEF NoPulseLost
<1> QED BY <1>1, Invariance, PTL

\* Between two calls the core is at rest and keeps nothing of the last one.
THEOREM RestBetweenCalls ==
  ASSUME OneClient
  PROVE  Spec => []QuietBetweenCalls
<1>1. IInv => QuietBetweenCalls
  <2> SUFFICES ASSUME IInv, \A c \in Clients : pc[c] = 1
               PROVE  ~running /\ ~ap_start /\ taken = Untaken(prog)
    BY DEF QuietBetweenCalls
  <2>1. PICK f \in 1 .. Len(Steps[prog]) : DrivesFrom(prog, f) /\ Phases(f)
    BY DEF IInv
  <2>2. pos = 1
    BY DEF OneClient, pos, Dead
  <2> QED BY <2>1, <2>2 DEF Phases, IInv, AtRest
<1> QED BY <1>1, Invariance, PTL
=============================================================================
