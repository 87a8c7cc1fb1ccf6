---------------------------- MODULE HlsPrograms ----------------------------
(***************************************************************************)
(* The register files of the HLS cores and the calls that the programs     *)
(* make of their accessors (x*.c), each program as a sequence of calls:    *)
(*   Start       X*_Start                                                  *)
(*   RawStart    a 1 written to the control register through a pointer     *)
(*   Set a       X*_Set_a, or the words of a written through a pointer     *)
(*   Vld a       X*_Set_a_vld                                              *)
(*   IsDone      the loop around X*_IsDone, or around bit 1 of the control *)
(*               register                                                  *)
(*   Out         the loop around X*_Get_count_out_vld                      *)
(* An argument of a core is words registers from address data on, and the  *)
(* address of its valid bit, or NoVld.                                     *)
(***************************************************************************)
EXTENDS Naturals, Sequences, SequencesExt

NoVld == 0

Arg(addr, n) == [data |-> addr[1], vld |-> addr[2], words |-> n]

\* the argument whose Set writes four words
Wide(wide, a) == IF a \in wide THEN 4 ELSE 1

Call(op) == <<[op |-> op]>>
Calls(op, args) == [i \in 1 .. Len(args) |-> [op |-> op, arg |-> args[i]]]

\* Set and Set_vld of one argument after the other
Pairs(args) ==
  FlattenSeq([i \in 1 .. Len(args) |-> Calls("Set", <<args[i]>>)
                                         \o Calls("Vld", <<args[i]>>)])

-----------------------------------------------------------------------------
(* xilinx_aes_uio_driver, and aes_encrypt in aes_fpga.c.  All the update   *)
(* flags of the cipher are 1 from fpga_aes_new on.                         *)

XAES_ADDR ==
  [sourceAddress |-> <<\h18, \h1c>>, key_in_V |-> <<\h20, \h30>>,
   iv_V |-> <<\h34, \h44>>, destinationAddress |-> <<\h48, \h4c>>,
   numBytes |-> <<\h50, \h54>>, mode |-> <<\h58, \h5c>>]

XAes == [a \in DOMAIN XAES_ADDR |->
           Arg(XAES_ADDR[a], Wide({"key_in_V", "iv_V"}, a))]

\* mutants of aes_encrypt: valid bits before the start; one valid bit
\* forgotten; a second start at the end
aes_encrypt_StartLast ==
  Calls("Set", <<"key_in_V", "sourceAddress", "destinationAddress", "numBytes",
                 "iv_V", "mode">>)
  \o Calls("Vld", <<"sourceAddress", "key_in_V", "destinationAddress",
                    "numBytes", "iv_V", "mode">>)
  \o Call("Start") \o Call("IsDone")

aes_encrypt_NoModeVld ==
  Call("Start")
  \o Calls("Set", <<"key_in_V", "sourceAddress", "destinationAddress",
                    "numBytes", "iv_V", "mode">>)
  \o Calls("Vld", <<"sourceAddress", "key_in_V", "destinationAddress",
                    "numBytes", "iv_V">>)
  \o Call("IsDone")

aes_encrypt_StartTwice ==
  Call("Start")
  \o Calls("Set", <<"key_in_V", "sourceAddress", "destinationAddress",
                    "numBytes", "iv_V", "mode">>)
  \o Calls("Vld", <<"sourceAddress", "key_in_V", "destinationAddress",
                    "numBytes", "iv_V", "mode">>)
  \o Call("IsDone") \o Call("Start")

aes_encrypt ==
  Call("Start")
  \o Calls("Set", <<"key_in_V", "sourceAddress", "destinationAddress",
                    "numBytes", "iv_V", "mode">>)
  \o Calls("Vld", <<"sourceAddress", "key_in_V", "destinationAddress",
                    "numBytes", "iv_V", "mode">>)
  \o Call("IsDone")

-----------------------------------------------------------------------------
(* xilinx_triple_aes_uio_driver, and triple_encrypt_fpga_ecb.            *)

XTRIPLE_AES_ADDR ==
  [sourceAddress |-> <<\h18, \h1c>>, key_in_V |-> <<\h20, \h30>>,
   key_in1_V |-> <<\h34, \h44>>, key_in2_V |-> <<\h48, \h58>>,
   iv_V |-> <<\h5c, \h6c>>, iv1_V |-> <<\h70, \h80>>, iv2_V |-> <<\h84, \h94>>,
   destinationAddress |-> <<\h98, \h9c>>, numBytes |-> <<\ha0, \ha4>>,
   mode |-> <<\ha8, \hac>>]

XTriple_aes ==
  [a \in DOMAIN XTRIPLE_AES_ADDR |->
     Arg(XTRIPLE_AES_ADDR[a], Wide({"key_in_V", "key_in1_V", "key_in2_V",
                                    "iv_V", "iv1_V", "iv2_V"}, a))]

triple_aes_args ==
  <<"sourceAddress", "key_in_V", "key_in1_V", "key_in2_V", "iv_V", "iv1_V",
    "iv2_V", "destinationAddress", "numBytes", "mode">>

triple_aes ==
  Call("Start") \o Calls("Set", triple_aes_args)
                \o Calls("Vld", triple_aes_args) \o Call("IsDone")

-----------------------------------------------------------------------------
(* xilinx_qam_uio_driver, and qam_runner.cpp.                              *)

XQAM_RUNNER_ADDR ==
  [sourceAddress |-> <<\h18, \h1c>>, destinationAddress |-> <<\h20, \h24>>,
   iterations |-> <<\h28, \h2c>>, control_in_qam |-> <<\h30, \h34>>,
   control_in_lf_p |-> <<\h38, \h3c>>, control_in_lf_i |-> <<\h40, \h44>>,
   control_in_lf_out_gain |-> <<\h48, \h4c>>,
   control_in_reg_clr |-> <<\h50, \h54>>, control_in_reg_init |-> <<\h58, \h5c>>]

XQam_runner == [a \in DOMAIN XQAM_RUNNER_ADDR |-> Arg(XQAM_RUNNER_ADDR[a], 1)]

qam_runner ==
  Call("Start")
  \o Pairs(<<"sourceAddress", "destinationAddress", "iterations",
             "control_in_qam", "control_in_lf_p", "control_in_lf_i",
             "control_in_lf_out_gain", "control_in_reg_clr",
             "control_in_reg_init">>)
  \o Call("IsDone")

-----------------------------------------------------------------------------
(* xilinx_memory_scanner(_ddr)_uio_driver, and memory_scanner_runner(_ddr).c *)

XMEMORY_SCANNER_ADDR == [i \in 0 .. 16 |-> <<\h18 + 8 * i, \h1c + 8 * i>>]

XMemory_scanner ==
  [i \in DOMAIN XMEMORY_SCANNER_ADDR |-> Arg(XMEMORY_SCANNER_ADDR[i], 1)]

memory_scanner_runner ==
  Call("Start") \o Pairs([i \in 1 .. 17 |-> i - 1]) \o Call("Out")

XMemory_scanner_ddr == [search_string_V |-> Arg(<<\h14, \h10>>, 4)]

memory_scanner_runner_ddr ==
  Call("Start") \o Pairs(<<"search_string_V">>) \o Call("Out")

-----------------------------------------------------------------------------
(* test_direct_dma_uio_driver, and direct_dma_test.c: it starts twice.     *)

XTest_direct_dma ==
  [sourceAddress |-> Arg(<<\h18, \h1c>>, 1),
   destinationAddress |-> Arg(<<\h20, \h24>>, 1),
   length_r |-> Arg(<<\h28, \h2c>>, 1)]

direct_dma_test ==
  LET args == <<"sourceAddress", "destinationAddress", "length_r">>
  IN  Call("Start") \o Calls("Set", args) \o Calls("Vld", args)
                    \o Call("Start") \o Call("IsDone")

-----------------------------------------------------------------------------
(* Arguments without a valid bit: crypto_sign_test.c and the device half   *)
(* of curve_25519_test.c, which writes its three memories side by side.    *)

XCrypto_sign ==
  [sk |-> Arg(<<\h40, NoVld>>, 16), num_blocks |-> Arg(<<\h18, NoVld>>, 1)]

crypto_sign_test ==
  Calls("Set", <<"sk", "num_blocks">>) \o Call("RawStart") \o Call("IsDone")

XCurve25519_donna ==
  [mypublic_in |-> Arg(<<\h20, NoVld>>, 8), secret_in |-> Arg(<<\h40, NoVld>>, 8),
   basepoint_in |-> Arg(<<\h60, NoVld>>, 8)]

curve25519_donna ==
  Calls("Set", <<"mypublic_in", "secret_in", "basepoint_in">>)
  \o Call("RawStart") \o Call("IsDone")
=============================================================================
