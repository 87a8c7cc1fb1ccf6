SPECIFICATION Spec
CONSTANTS
  Programs = {{"XReset_axi", "XAes"}, {"XTriple_aes"}, {"XTest_direct_dma"}, {"XMemory_scanner"}, {"XMemory_scanner_ddr"}, {"XQam_runner"}, {"XCrec"}, {"XCrypto_sign"}, {"XCurve25519_donna"}}
  MaxMems = 2
INVARIANTS
  AllReturned
  HeldIsKept
