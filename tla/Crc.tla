-------------------------------- MODULE Crc --------------------------------
(***************************************************************************)
(* tools::get_crc8, get_crc16 and their checks (crc.cpp), between a sender *)
(* that seals a packet and a receiver that checks it.  The line flips some *)
(* bits.  A number is the word of its bits, the lowest first.  The tables  *)
(* are the code's, in decimal; that they are what a division by the        *)
(* polynomial gives is what is to be shown.                                *)
(***************************************************************************)
EXTENDS Integers, Sequences

CONSTANTS Payloads,   \* packets without their checksum, sequences of bytes
          Bursts      \* bits a burst can flip, counted from the first one, 0

Word(width) == [0 .. width - 1 -> {0, 1}]
Byte == Word(8)

ASSUME CrcAssumption ==
  /\ Payloads \subseteq Seq(Byte) \ {<<>>}
  /\ \A b \in Bursts : b \subseteq Nat /\ 0 \in b

VARIABLES data,      \* what the sender sends
          seal,      \* "none", "crc8", "crc16"
          frame,     \* the bytes on the line
          burst,     \* the bits of it that were flipped
          verdict    \* "none", then what the check said: "good", "bad"

crcvars == <<data, seal, frame, burst, verdict>>

CRC8_INIT  == [k \in 0 .. 7 |-> 1]
CRC16_INIT == [k \in 0 .. 15 |-> 1]

CRC8_TABLE ==
  << 0, 94, 188, 226, 97, 63, 221, 131, 194, 156, 126, 32, 163, 253, 31, 65, 157,
     195, 33, 127, 252, 162, 64, 30, 95, 1, 227, 189, 62, 96, 130, 220, 35, 125,
     159, 193, 66, 28, 254, 160, 225, 191, 93, 3, 128, 222, 60, 98, 190, 224, 2, 92,
     223, 129, 99, 61, 124, 34, 192, 158, 29, 67, 161, 255, 70, 24, 250, 164, 39,
     121, 155, 197, 132, 218, 56, 102, 229, 187, 89, 7, 219, 133, 103, 57, 186, 228,
     6, 88, 25, 71, 165, 251, 120, 38, 196, 154, 101, 59, 217, 135, 4, 90, 184, 230,
     167, 249, 27, 69, 198, 152, 122, 36, 248, 166, 68, 26, 153, 199, 37, 123, 58,
     100, 134, 216, 91, 5, 231, 185, 140, 210, 48, 110, 237, 179, 81, 15, 78, 16,
     242, 172, 47, 113, 147, 205, 17, 79, 173, 243, 112, 46, 204, 146, 211, 141,
     111, 49, 178, 236, 14, 80, 175, 241, 19, 77, 206, 144, 114, 44, 109, 51, 209,
     143, 12, 82, 176, 238, 50, 108, 142, 208, 83, 13, 239, 177, 240, 174, 76, 18,
     145, 207, 45, 115, 202, 148, 118, 40, 171, 245, 23, 73, 8, 86, 180, 234, 105,
     55, 213, 139, 87, 9, 235, 181, 54, 104, 138, 212, 149, 203, 41, 119, 244, 170,
     72, 22, 233, 183, 85, 11, 136, 214, 52, 106, 43, 117, 151, 201, 74, 20, 246,
     168, 116, 42, 200, 150, 21, 75, 169, 247, 182, 232, 10, 84, 215, 137, 107, 53 >>
CRC16_TABLE ==
  << 0, 4489, 8978, 12955, 17956, 22445, 25910, 29887, 35912, 40385, 44890, 48851,
     51820, 56293, 59774, 63735, 4225, 264, 13203, 8730, 22181, 18220, 30135, 25662,
     40137, 36160, 49115, 44626, 56045, 52068, 63999, 59510, 8450, 12427, 528, 5017,
     26406, 30383, 17460, 21949, 44362, 48323, 36440, 40913, 60270, 64231, 51324,
     55797, 12675, 8202, 4753, 792, 30631, 26158, 21685, 17724, 48587, 44098, 40665,
     36688, 64495, 60006, 55549, 51572, 16900, 21389, 24854, 28831, 1056, 5545,
     10034, 14011, 52812, 57285, 60766, 64727, 34920, 39393, 43898, 47859, 21125,
     17164, 29079, 24606, 5281, 1320, 14259, 9786, 57037, 53060, 64991, 60502,
     39145, 35168, 48123, 43634, 25350, 29327, 16404, 20893, 9506, 13483, 1584,
     6073, 61262, 65223, 52316, 56789, 43370, 47331, 35448, 39921, 29575, 25102,
     20629, 16668, 13731, 9258, 5809, 1848, 65487, 60998, 56541, 52564, 47595,
     43106, 39673, 35696, 33800, 38273, 42778, 46739, 49708, 54181, 57662, 61623,
     2112, 6601, 11090, 15067, 20068, 24557, 28022, 31999, 38025, 34048, 47003,
     42514, 53933, 49956, 61887, 57398, 6337, 2376, 15315, 10842, 24293, 20332,
     32247, 27774, 42250, 46211, 34328, 38801, 58158, 62119, 49212, 53685, 10562,
     14539, 2640, 7129, 28518, 32495, 19572, 24061, 46475, 41986, 38553, 34576,
     62383, 57894, 53437, 49460, 14787, 10314, 6865, 2904, 32743, 28270, 23797,
     19836, 50700, 55173, 58654, 62615, 32808, 37281, 41786, 45747, 19012, 23501,
     26966, 30943, 3168, 7657, 12146, 16123, 54925, 50948, 62879, 58390, 37033,
     33056, 46011, 41522, 23237, 19276, 31191, 26718, 7393, 3432, 16371, 11898,
     59150, 63111, 50204, 54677, 41258, 45219, 33336, 37809, 27462, 31439, 18516,
     23005, 11618, 15595, 3696, 8185, 63375, 58886, 54429, 50452, 45483, 40994,
     37561, 33584, 31687, 27214, 22741, 18780, 15843, 11370, 7921, 3960 >>

\* The number of a byte, and the word of a number.
Number(w) ==
  w[0] + 2 * w[1] + 4 * w[2] + 8 * w[3] + 16 * w[4] + 32 * w[5] + 64 * w[6] + 128 * w[7]
Bits(n, width) == [k \in 0 .. width - 1 |-> (n \div 2^k) % 2]

Xor(x, y) == [k \in DOMAIN x |-> (x[k] + y[k]) % 2]

\* A bit of a word, with zeros above it; the halves of a word of 16 bits.
Bit(w, k) == IF k \in DOMAIN w THEN w[k] ELSE 0
Low(w)  == [k \in 0 .. 7 |-> w[k]]
High(w) == [k \in 0 .. 7 |-> w[k + 8]]
Wide(w) == [k \in 0 .. 15 |-> Bit(w, k)]

\* The entries, by the byte that selects them.
Entry8  == [i \in Byte |-> Bits(CRC8_TABLE[Number(i) + 1], 8)]
Entry16 == [i \in Byte |-> Bits(CRC16_TABLE[Number(i) + 1], 16)]

\* Faulty variant: the first byte is not summed.
Crc8SkippingFirst(bytes) ==
  LET crc8[n \in 0 .. Len(bytes)] ==
        IF n <= 1 THEN CRC8_INIT ELSE Entry8[Xor(crc8[n - 1], bytes[n])]
  IN  crc8[Len(bytes)]

get_crc8(bytes) ==
  LET crc8[n \in 0 .. Len(bytes)] ==
        IF n = 0 THEN CRC8_INIT ELSE Entry8[Xor(crc8[n - 1], bytes[n])]
  IN  crc8[Len(bytes)]

\* Faulty variant: the table is entered with the upper half.
Crc16ByUpperHalf(bytes) ==
  LET crc16[n \in 0 .. Len(bytes)] ==
        IF n = 0 THEN CRC16_INIT
        ELSE Xor(Wide(High(crc16[n - 1])), Entry16[Xor(High(crc16[n - 1]), bytes[n])])
  IN  crc16[Len(bytes)]

get_crc16(bytes) ==
  LET crc16[n \in 0 .. Len(bytes)] ==
        IF n = 0 THEN CRC16_INIT
        ELSE Xor(Wide(High(crc16[n - 1])), Entry16[Xor(Low(crc16[n - 1]), bytes[n])])
  IN  crc16[Len(bytes)]

check_crc8(bytes) ==
  LET len == Len(bytes)
  IN  get_crc8(SubSeq(bytes, 1, len - 1)) = bytes[len]

Joined(upper, lower) == [k \in 0 .. 15 |-> IF k < 8 THEN lower[k] ELSE upper[k - 8]]

\* Faulty variant: the upper half first, as the network's order has it.
CheckBigEndian(bytes) ==
  LET len == Len(bytes)
  IN  get_crc16(SubSeq(bytes, 1, len - 2)) = Joined(bytes[len - 1], bytes[len])

\* The lower half first, as it lies in a packed struct of the targets.
check_crc16(bytes) ==
  LET len == Len(bytes)
  IN  get_crc16(SubSeq(bytes, 1, len - 2)) = Joined(bytes[len], bytes[len - 1])

-----------------------------------------------------------------------------
(***************************************************************************)
(* What the tables stand for: a division, bit by bit, by a polynomial.     *)
(***************************************************************************)

\* The bits of a polynomial without its highest, the highest exponent first.
Polynomial(width, exponents) ==
  [k \in 0 .. width - 1 |-> IF width - 1 - k \in exponents THEN 1 ELSE 0]

Poly8  == Polynomial(8, {5, 4, 0})
Poly16 == Polynomial(16, {12, 5, 0})

Half(r) == [k \in DOMAIN r |-> Bit(r, k + 1)]

Shift(r, poly) == IF r[0] = 1 THEN Xor(Half(r), poly) ELSE Half(r)

Shift8(r, poly) ==
  LET Twice(s) == Shift(Shift(s, poly), poly) IN Twice(Twice(Twice(Twice(r))))

ASSUME TableAssumption ==
  \A i \in Byte : /\ Entry8[i] = Shift8(i, Poly8)
                  /\ Entry16[i] = Shift8(Wide(i), Poly16)

\* One bit of a message.
Step(r, bit, poly) == Shift([r EXCEPT ![0] = (@ + bit) % 2], poly)

\* The i-th bit of a frame, from 0.
BitOf(bytes, i) == bytes[(i \div 8) + 1][i % 8]

Divide(bytes, init, poly) ==
  LET remainder[i \in 0 .. 8 * Len(bytes)] ==
        IF i = 0 THEN init ELSE Step(remainder[i - 1], BitOf(bytes, i - 1), poly)
  IN  remainder[8 * Len(bytes)]

-----------------------------------------------------------------------------

CrcInit ==
  /\ data \in Payloads
  /\ seal = "none" /\ frame = data
  /\ burst = {} /\ verdict = "none"

Seal8 ==
  /\ seal = "none"
  /\ seal' = "crc8"
  /\ frame' = Append(data, get_crc8(data))
  /\ UNCHANGED <<data, burst, verdict>>

Seal16 ==
  /\ seal = "none"
  /\ seal' = "crc16"
  /\ frame' = data \o <<Low(get_crc16(data)), High(get_crc16(data))>>
  /\ UNCHANGED <<data, burst, verdict>>

Positions(bytes) == 0 .. 8 * Len(bytes) - 1

Flip(bytes, b) ==
  [j \in DOMAIN bytes |->
     [k \in 0 .. 7 |->
        IF 8 * (j - 1) + k \in b THEN 1 - bytes[j][k] ELSE bytes[j][k]]]

\* A burst from bit o on, as much of it as falls on the frame.
Hit(b, o) ==
  /\ seal # "none" /\ burst = {} /\ verdict = "none"
  /\ burst' = {o + x : x \in b} \intersect Positions(frame)
  /\ frame' = Flip(frame, burst')
  /\ UNCHANGED <<data, seal, verdict>>

Passes(bytes) == IF seal = "crc8" THEN check_crc8(bytes) ELSE check_crc16(bytes)

Check ==
  /\ seal # "none" /\ verdict = "none"
  /\ verdict' = IF Passes(frame) THEN "good" ELSE "bad"
  /\ UNCHANGED <<data, seal, frame, burst>>

CrcNext ==
  \/ Seal8 \/ Seal16
  \/ \E b \in Bursts, o \in Positions(frame) : Hit(b, o)
  \/ Check

CrcSpec == CrcInit /\ [][CrcNext]_crcvars

-----------------------------------------------------------------------------

CrcTypeOK ==
  /\ data \in Payloads
  /\ seal \in {"none", "crc8", "crc16"}
  /\ frame \in Seq(Byte)
  /\ burst \subseteq Positions(frame)
  /\ verdict \in {"none", "good", "bad"}

\* The checksums with the tables are those without: of x^8 + x^5 + x^4 + 1 and
\* x^16 + x^12 + x^5 + 1, as the controller on the other side computes them.  A
\* wrong entry would go unseen as long as both sides use this file.
TablesArePolynomials ==
  /\ get_crc8(frame) = Divide(frame, CRC8_INIT, Poly8)
  /\ get_crc16(frame) = Divide(frame, CRC16_INIT, Poly16)

\* What is sealed and not hit is accepted.
IntactFramesPass == verdict # "none" /\ burst = {} => verdict = "good"

Width == IF seal = "crc8" THEN 8 ELSE 16

\* No burst as long as the checksum or shorter is accepted, wherever it hits, the
\* checksum included.
BurstsAreCaught ==
  verdict # "none" /\ burst # {} /\ (\A x, y \in burst : x - y < Width)
    => verdict = "bad"
=============================================================================
