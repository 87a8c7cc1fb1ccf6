------------------------------- MODULE Layout -------------------------------
(***************************************************************************)
(* How numbers move between bytes and limbs, bit by bit and at full size.  *)
(* A row of a table is one shift of the code: it takes the Span bits from  *)
(* the bit of weight At on, shifts them Right (left, if negative), keeps   *)
(* the lowest Keep bits of what comes out, and puts them in a word whose   *)
(* lowest bit has the weight To.                                           *)
(***************************************************************************)
EXTENDS Integers, Sequences

Row(to, at, span, right, keep) ==
  [To |-> to, At |-> at, Span |-> span, Right |-> right, Keep |-> keep]
Whole == 64                     \* kept whole: the words are wide enough

Takes(row, p) == /\ p \in row.At .. row.At + row.Span - 1
                 /\ p - row.At - row.Right \in 0 .. row.Keep - 1
Lands(row, p) == row.To + p - row.At - row.Right

\* field elements: ten limbs of 26 and 25 bits
FeWeight(i) == 51 * (i \div 2) + 26 * (i % 2)
FeWidth(i) == 26 - (i % 2)

\* the load of a limb: first byte, how many, shift to the left
fe_loads == << <<0, 4, 0>>, <<4, 3, 6>>, <<7, 3, 5>>, <<10, 3, 3>>, <<13, 3, 2>>,
               <<16, 4, 0>>, <<20, 3, 7>>, <<23, 3, 5>>, <<26, 3, 4>>, <<29, 3, 2>> >>

\* mutant of fe_frombytes: the top bit of the last byte is not masked
fe_frombytes_NoMask ==
  {Row(FeWeight(i), 8 * fe_loads[i + 1][1], 8 * fe_loads[i + 1][2], -fe_loads[i + 1][3], Whole) :
     i \in 0 .. 9}

fe_frombytes ==
  {Row(FeWeight(i), 8 * fe_loads[i + 1][1],
       IF i = 9 THEN 23 ELSE 8 * fe_loads[i + 1][2], -fe_loads[i + 1][3], Whole) : i \in 0 .. 9}

\* which limbs a byte is put together from, and their shifts to the right
fe_shifts == << << <<0, 0>> >>, << <<0, 8>> >>, << <<0, 16>> >>, << <<0, 24>>, <<1, -2>> >>,
  << <<1, 6>> >>, << <<1, 14>> >>, << <<1, 22>>, <<2, -3>> >>,
  << <<2, 5>> >>, << <<2, 13>> >>, << <<2, 21>>, <<3, -5>> >>,
  << <<3, 3>> >>, << <<3, 11>> >>, << <<3, 19>>, <<4, -6>> >>,
  << <<4, 2>> >>, << <<4, 10>> >>, << <<4, 18>> >>,
  << <<5, 0>> >>, << <<5, 8>> >>, << <<5, 16>> >>, << <<5, 24>>, <<6, -1>> >>,
  << <<6, 7>> >>, << <<6, 15>> >>, << <<6, 23>>, <<7, -3>> >>,
  << <<7, 5>> >>, << <<7, 13>> >>, << <<7, 21>>, <<8, -4>> >>,
  << <<8, 4>> >>, << <<8, 12>> >>, << <<8, 20>>, <<9, -6>> >>,
  << <<9, 2>> >>, << <<9, 10>> >>, << <<9, 18>> >> >>

fe_tobytes ==
  UNION {{Row(8 * (k - 1), FeWeight(s[1]), FeWidth(s[1]), s[2], 8) :
            s \in {fe_shifts[k][n] : n \in DOMAIN fe_shifts[k]}} : k \in 1 .. 32}

\* scalars: digits of 21 bits; the last one keeps everything that is left
sc_loads == << <<0, 3, 0>>, <<2, 4, 5>>, <<5, 3, 2>>, <<7, 4, 7>>, <<10, 4, 4>>, <<13, 3, 1>>,
  <<15, 4, 6>>, <<18, 3, 3>>, <<21, 3, 0>>, <<23, 4, 5>>, <<26, 3, 2>>, <<28, 4, 7>>,
  <<31, 4, 4>>, <<34, 3, 1>>, <<36, 4, 6>>, <<39, 3, 3>>, <<42, 3, 0>>, <<44, 4, 5>>,
  <<47, 3, 2>>, <<49, 4, 7>>, <<52, 4, 4>>, <<55, 3, 1>>, <<57, 4, 6>>, <<60, 4, 3>> >>

sc_load(digits) ==
  {Row(21 * i, 8 * sc_loads[i + 1][1], 8 * sc_loads[i + 1][2], sc_loads[i + 1][3],
       IF i = digits - 1 THEN Whole ELSE 21) : i \in 0 .. digits - 1}

sc_reduce_load == sc_load(24)
sc_muladd_load == sc_load(12)

sc_shifts == << << <<0, 0>> >>, << <<0, 8>> >>, << <<0, 16>>, <<1, -5>> >>,
  << <<1, 3>> >>, << <<1, 11>> >>, << <<1, 19>>, <<2, -2>> >>,
  << <<2, 6>> >>, << <<2, 14>>, <<3, -7>> >>,
  << <<3, 1>> >>, << <<3, 9>> >>, << <<3, 17>>, <<4, -4>> >>,
  << <<4, 4>> >>, << <<4, 12>> >>, << <<4, 20>>, <<5, -1>> >>,
  << <<5, 7>> >>, << <<5, 15>>, <<6, -6>> >>,
  << <<6, 2>> >>, << <<6, 10>> >>, << <<6, 18>>, <<7, -3>> >>,
  << <<7, 5>> >>, << <<7, 13>> >>, << <<8, 0>> >>, << <<8, 8>> >>, << <<8, 16>>, <<9, -5>> >>,
  << <<9, 3>> >>, << <<9, 11>> >>, << <<9, 19>>, <<10, -2>> >>,
  << <<10, 6>> >>, << <<10, 14>>, <<11, -7>> >>,
  << <<11, 1>> >>, << <<11, 9>> >>, << <<11, 17>> >> >>

sc_store ==
  UNION {{Row(8 * (k - 1), 21 * s[1], IF s[1] = 11 THEN 25 ELSE 21, s[2], 8) :
            s \in {sc_shifts[k][n] : n \in DOMAIN sc_shifts[k]}} : k \in 1 .. 32}

\* the windows of sc25519.c: which byte of a group goes into a digit, shifted how
window3_shifts == << << <<0, 0>> >>, << <<0, 3>> >>, << <<0, 6>>, <<1, -2>> >>,
  << <<1, 1>> >>, << <<1, 4>> >>, << <<1, 7>>, <<2, -1>> >>, << <<2, 2>> >>, << <<2, 5>> >> >>
window5_shifts == << << <<0, 0>> >>, << <<0, 5>>, <<1, -3>> >>, << <<1, 2>> >>,
  << <<1, 7>>, <<2, -1>> >>, << <<2, 4>>, <<3, -4>> >>, << <<3, 1>> >>,
  << <<3, 6>>, <<4, -2>> >>, << <<4, 3>> >> >>

Windows(shifts, bits, digits) ==
  UNION {LET group == (d - 1) \div 8
             pieces == shifts[((d - 1) % 8) + 1]
         IN  {Row(bits * (d - 1), 8 * (bits * group + s[1]), 8, s[2], bits) :
                s \in {pieces[n] : n \in DOMAIN pieces}} : d \in 1 .. digits}

sc25519_window3 == Windows(window3_shifts, 3, 85)
sc25519_window5 == Windows(window5_shifts, 5, 51)

\* a conversion and the number of bits that it must carry over
Conversions ==
  [fe_frombytes |-> <<fe_frombytes, 255>>, fe_tobytes |-> <<fe_tobytes, 255>>,
   sc_reduce_load |-> <<sc_reduce_load, 512>>, sc_muladd_load |-> <<sc_muladd_load, 256>>,
   sc_store |-> <<sc_store, 256>>,
   sc25519_window3 |-> <<sc25519_window3, 255>>, sc25519_window5 |-> <<sc25519_window5, 255>>]

\* Bit p is taken once, to its own weight; the bits above the number are dropped.
BitCarried(rows, p, size) ==
  IF p < size THEN \E row \in rows : /\ Takes(row, p) /\ Lands(row, p) = p
                                     /\ \A other \in rows \ {row} : ~Takes(other, p)
              ELSE \A row \in rows : ~Takes(row, p)
=============================================================================
