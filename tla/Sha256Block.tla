------------------------------ MODULE Sha256Block ------------------------------
(***************************************************************************)
(* What Sha256::hashBlock() computes (sha256.cpp).  A word of 32 bits is a *)
(* pair of its halves, the upper one first; the state is eight words, the  *)
(* schedule sixteen, word w of the code at place w + 1.                    *)
(***************************************************************************)
EXTENDS Bytes

(* The constants of the rounds, half by half. *)
SHA256_K == <<
    17034, 12184, 28983, 17553, 46528, 64463, 59829, 56229,
    14678, 49755, 23025, 4593, 37439, 33444, 43804, 24277,
    55303, 43672, 4739, 23297, 9265, 34238, 21772, 32195,
    29374, 23924, 32990, 45566, 39900, 1703, 49563, 61812,
    58523, 27073, 61374, 18310, 4033, 40390, 9228, 41420,
    11753, 11375, 19060, 33962, 23728, 43484, 30457, 35034,
    38974, 20818, 43057, 50797, 45059, 10184, 48985, 32711,
    50912, 3059, 54695, 37191, 1738, 25425, 5161, 10599,
    10167, 2693, 11803, 8504, 19756, 28156, 21304, 3347,
    25866, 29524, 30314, 2747, 33218, 51502, 37490, 11397,
    41663, 59553, 43034, 26187, 49739, 35696, 51052, 20899,
    53650, 59417, 54937, 1572, 62478, 13701, 4202, 41072,
    6564, 49430, 7735, 27656, 10056, 30540, 13488, 48309,
    14620, 3251, 20184, 43594, 23452, 51791, 26670, 28659,
    29839, 33518, 30885, 25455, 33992, 30740, 36039, 520,
    37054, 65530, 42064, 27883, 48889, 41975, 50801, 30962>>

SHA256_INIT_STATE == <<
    <<27145, 58983>>, <<47975, 44677>>, <<15470, 62322>>, <<42319, 62778>>,
    <<20750, 21119>>, <<39685, 26764>>, <<8067, 55723>>, <<23520, 52505>>>>

------------------------------------------------------------------------------
(* Words.                                                                  *)
Half == 0 .. 2^16 - 1
ShaWord == Half \X Half
HashState == [1 .. 8 -> ShaWord]
Schedule == [1 .. 16 -> ShaWord]

xor16(a, b) == 256 * xor(a \div 256, b \div 256) + xor(a % 256, b % 256)
and16(a, b) == 256 * and8(a \div 256, b \div 256) + and8(a % 256, b % 256)
XorWord(v, w) == <<xor16(v[1], w[1]), xor16(v[2], w[2])>>
AndWord(v, w) == <<and16(v[1], w[1]), and16(v[2], w[2])>>

(* Unsigned sums, the carry out of the upper half lost. *)
AddWord(v, w) ==
    <<(v[1] + w[1] + ((v[2] + w[2]) \div 65536)) % 65536, (v[2] + w[2]) % 65536>>

(* A shift and a rotation to the right by less than 16 bits, and by 16 more. *)
Shr(w, n) == <<w[1] \div 2^n, (w[1] % 2^n) * 2^(16 - n) + (w[2] \div 2^n)>>
ror32(w, n) ==
    LET v == IF n < 16 THEN w ELSE <<w[2], w[1]>>
        m == n % 16
    IN  <<(v[2] % 2^m) * 2^(16 - m) + (v[1] \div 2^m),
          (v[1] % 2^m) * 2^(16 - m) + (v[2] \div 2^m)>>

XorOf3(u, v, w) == XorWord(u, XorWord(v, w))

------------------------------------------------------------------------------
(* hashBlock().                                                            *)

(* The schedule is a window of sixteen words: round r replaces word r - 16. *)
NextOfSchedule(w, r) ==
    LET at(k) == w[((r - k) % 16) + 1]
    IN  AddWord(AddWord(at(16), at(7)),
                AddWord(XorOf3(ror32(at(2), 17), ror32(at(2), 19), Shr(at(2), 10)),
                        XorOf3(ror32(at(15), 7), ror32(at(15), 18), Shr(at(15), 3))))

Scheduled(w, r) ==
    IF r < 16 THEN w ELSE [w EXCEPT ![(r % 16) + 1] = NextOfSchedule(w, r)]

(* One round on the words a .. h.  (b & c) | (a & (b | c)) is the majority of
   the three bits, as the exclusive or of the three conjunctions is. *)
Round(s, k, w) ==
    LET choice == XorWord(s[7], AndWord(s[5], XorWord(s[7], s[6])))
        t1 == AddWord(AddWord(AddWord(s[8], XorOf3(ror32(s[5], 6), ror32(s[5], 11), ror32(s[5], 25))),
                              choice),
                      AddWord(k, w))
        majority == XorOf3(AndWord(s[2], s[3]), AndWord(s[1], s[2]), AndWord(s[1], s[3]))
        t2 == AddWord(XorOf3(ror32(s[1], 2), ror32(s[1], 13), ror32(s[1], 22)), majority)
    IN  <<AddWord(t1, t2), s[1], s[2], s[3], AddWord(s[4], t1), s[5], s[6], s[7]>>

WordsOf(block) ==
    Tabulated([k \in 1 .. 16 |-> <<256 * block[4 * k - 4] + block[4 * k - 3],
                                   256 * block[4 * k - 2] + block[4 * k - 1]>>])

(* The sixty-four rounds, on the words and the schedule together. *)
Running == [words : HashState, schedule : Schedule]

OneRound(run, r) ==
    LET w == Scheduled(run.schedule, r)
        k == <<SHA256_K[2 * r + 1], SHA256_K[2 * r + 2]>>
    IN  [words |-> Round(run.words, k, w[(r % 16) + 1]), schedule |-> w]

Rounds(s, block) ==
    Loop([r \in 1 .. 64 |-> [run \in Running |-> OneRound(run, r - 1)]],
         [words |-> s, schedule |-> WordsOf(block)], 64)

Compressed(s, block) ==
    LET run == Rounds(s, block)
    IN  Tabulated([k \in 1 .. 8 |-> AddWord(s[k], run.words[k])])

(* Four bytes of a sequence of words. *)
BytesOf(words) ==
    Tabulated([k \in 1 .. 4 * Len(words) |->
        LET half == words[((k - 1) \div 4) + 1][(((k - 1) % 4) \div 2) + 1]
        IN  IF k % 2 = 1 THEN half \div 256 ELSE half % 256])

ScheduleLeft(block) ==
    LET bytes == BytesOf(Rounds(SHA256_INIT_STATE, block).schedule)
    IN  [o \in 0 .. 63 |-> bytes[o + 1]]
==============================================================================
