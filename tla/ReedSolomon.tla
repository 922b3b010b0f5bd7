----------------------------- MODULE ReedSolomon -----------------------------
(***************************************************************************)
(* The Reed-Solomon coder of RS-FEC.h: the encoder and the decoder         *)
(* (Berlekamp-Massey, root search, Forney), statement by statement where   *)
(* one of them decides something.                                          *)
(*                                                                         *)
(* A coder object lives from call to call, and so do the lengths of its    *)
(* polynomials, but their memory is on the stack of each call.  So what an *)
(* earlier call left is a number of symbols, of any values.                *)
(***************************************************************************)
EXTENDS GaloisField, FiniteSets, SequencesExt

CONSTANTS
    msg_length,   \* symbols of a message
    ecc_length,   \* symbols of redundancy
    Messages,     \* messages that are sent
    Errors        \* what the air adds to a codeword

enc_len == msg_length + ecc_length
poly_len == ecc_length * 2

(* DecodeBlock() asserts the bound on enc_len; the other keeps poly_len, a
   byte, from wrapping.  With a single symbol of redundancy the first
   Append() to old_loc fails its assertion. *)
ASSUME CodeAssumption ==
    /\ msg_length \in Nat \ {0} /\ ecc_length \in Nat \ {0, 1}
    /\ enc_len <= Order /\ poly_len <= Order
ASSUME InputAssumption == /\ Messages \subseteq [1 .. msg_length -> Symbols]
                          /\ Errors \subseteq [1 .. enc_len -> Symbols]

------------------------------------------------------------------------------
(* The memory of one call: three polynomials as long as a block and twelve   *)
(* of poly_len lie before the last one, ERR_EVAL.                           *)
ErrEvalOffset == 3 * enc_len + 12 * poly_len

(* Seeded fault: one polynomial is not counted. *)
WorkspaceMiscounted == 3 * msg_length + 13 * poly_len

Workspace == 3 * msg_length + 14 * poly_len

------------------------------------------------------------------------------
(* The encoder.                                                             *)

GeneratorPoly ==
    Loop([i \in 1 .. ecc_length |-> [gen \in Polys |-> poly_mul(gen, <<1, pow(2, i - 1)>>)]],
         <<1>>, ecc_length)

Encode(msg) ==
    msg \o SubSeq(Reduced(msg \o Zeros(ecc_length), GeneratorPoly, msg_length),
                  msg_length + 1, enc_len)

------------------------------------------------------------------------------
(* The decoder.                                                             *)

CalcSyndromes(word) ==
    <<0>> \o [i \in 1 .. ecc_length |-> poly_eval(word, pow(2, i - 1))]

(* Seeded fault: the zero before the syndromes is kept. *)
ForneyUnshifted(synd) == SubSeq(synd, 1, ecc_length)

(* decode_fec() knows no erasures, so the Forney syndromes are these. *)
CalcForneySyndromes(synd) == Tail(synd)

(* One round of Berlekamp-Massey. *)
Delta(loc, synd, K) ==
    Loop([j \in 1 .. Len(loc) - 1 |-> [d \in Symbols |->
             Add(d, mul(loc[Len(loc) - j], synd[K - j + 1]))]],
         synd[K + 1], Len(loc) - 1)

Exchanged(err_loc, old_loc, delta) ==
    IF Len(old_loc) > Len(err_loc)
    THEN [err_loc |-> poly_scale(old_loc, delta),
          old_loc |-> poly_scale(err_loc, inverse(delta))]
    ELSE [err_loc |-> err_loc, old_loc |-> old_loc]

Updated(s, delta) ==
    [s EXCEPT !.err_loc = poly_add(s.err_loc, poly_scale(s.old_loc, delta))]

Stepped(err_loc, old_loc, delta) ==
    IF delta = 0 THEN [err_loc |-> err_loc, old_loc |-> old_loc]
                 ELSE Updated(Exchanged(err_loc, old_loc, delta), delta)

Round(s, synd, K) == Stepped(s.err_loc, Append(s.old_loc, 0), Delta(s.err_loc, synd, K))

(* Seeded fault: an error is taken to cost one symbol of redundancy. *)
CorrectableUnhalved(errs) == errs <= ecc_length

Correctable(errs) == errs * 2 <= ecc_length

(* err_loc before its leading zeros are dropped, the locator after, and
   whether the number of errors can be corrected. *)
Shortened(raw) ==
    LET shift == CHOOSE k \in 0 .. Len(raw) - 1 :
                     raw[k + 1] # 0 /\ \A i \in 1 .. k : raw[i] = 0
    IN  [raw |-> raw, loc |-> SubSeq(raw, shift + 1, Len(raw)),
         ok |-> Correctable(Len(raw) - shift - 1)]

BerlekampMassey(synd) ==
    Loop([i \in 1 .. ecc_length |-> [s \in [err_loc : Polys, old_loc : Polys] |->
             Round(s, synd, i - 1)]],
         [err_loc |-> <<1>>, old_loc |-> <<1>>], ecc_length)

FindErrorLocator(synd) == Shortened(BerlekampMassey(synd).err_loc)

(* The reversed locator vanishes at a power of 2.  A locator of length 0 is
   evaluated like any other: to what its memory, err_loc's, begins with. *)
IsRoot(reloc, raw, i) ==
    IF reloc = <<>> THEN raw[1] = 0 ELSE poly_eval(reloc, pow(2, i)) = 0

(* The exponents of its roots.  They number the symbols of a block from its
   end, as CorrectErrata() does again. *)
Roots(reloc, raw) ==
    Loop([i \in 1 .. enc_len |-> [err \in Seq(Nat) |->
             IF IsRoot(reloc, raw, i - 1) THEN Append(err, i - 1) ELSE err]],
         <<>>, enc_len)

(* uint8_t errs = error_loc->length - 1, which wraps. *)
Errs(loc) == (Len(loc) + Order) % (Order + 1)

(* CorrectErrata(), for the positions given by their exponents. *)
FindErrataLocator(c_pos) ==
    Loop([i \in 1 .. Len(c_pos) |-> [loc \in Polys |-> poly_mul(loc, <<pow(2, c_pos[i]), 1>>)]],
         <<1>>, Len(c_pos))

FindErrorEvaluator(rsynd, errata_loc) ==
    LET n == Len(errata_loc) - 1
    IN  poly_div(poly_mul(rsynd, errata_loc), <<1>> \o Zeros(n + 1))

Locate(pos) == pow(2, pos - Order)

Prime(c_pos, i, Xi_inv) ==
    Loop([j \in 1 .. Len(c_pos) |-> [y \in Symbols |->
             IF j = i THEN y ELSE mul(y, Add(1, mul(Xi_inv, Locate(c_pos[j]))))]],
         1, Len(c_pos))

Magnitude(c_pos, re_eval, i) ==
    LET Xi_inv == inverse(Locate(c_pos[i]))
    IN  div(mul(Locate(c_pos[i]), poly_eval(re_eval, Xi_inv)), Prime(c_pos, i, Xi_inv))

Evaluator(synd, c_pos) == FindErrorEvaluator(Reverse(synd), FindErrataLocator(c_pos))

(* Seeded fault: E is not reset before the magnitudes are put in. *)
RepairedUnreset(word, c_pos, re_eval) ==
    Tabulated([p \in 1 .. enc_len |->
        IF \E i \in DOMAIN c_pos : p = enc_len - c_pos[i]
        THEN Add(word[p], Magnitude(c_pos, re_eval,
                     CHOOSE i \in DOMAIN c_pos : p = enc_len - c_pos[i]))
        ELSE Add(word[p], 1)])

Repaired(word, c_pos, re_eval) ==
    Tabulated([p \in 1 .. enc_len |->
        IF \E i \in DOMAIN c_pos : p = enc_len - c_pos[i]
        THEN Add(word[p], Magnitude(c_pos, re_eval,
                     CHOOSE i \in DOMAIN c_pos : p = enc_len - c_pos[i]))
        ELSE word[p]])

CorrectErrata(synd, c_pos, word) == Repaired(word, c_pos, Evaluator(synd, c_pos))

------------------------------------------------------------------------------
(* One coder decodes word after word.  Of its error locator only the length  *)
(* lasts; FindErrors() works on one of that length whether it was found for  *)
(* this word or not.                                                        *)

VARIABLES
    sent,       \* the message on its way
    received,   \* the block the air made of its codeword
    eloc,       \* the length of the coder's error locator
    ret,        \* what DecodeBlock() returned, or what became of the call
    corrected   \* the block its message was taken from

vars == <<sent, received, eloc, ret, corrected>>

Init == /\ sent = <<>> /\ received = <<>> /\ corrected = <<>>
        /\ eloc = 0 /\ ret = "none"

Transmit ==
    /\ ret # "waiting"
    /\ \E m \in Messages, e \in Errors :
          /\ sent' = m
          /\ received' = poly_add(Encode(m), e)
    /\ ret' = "waiting" /\ corrected' = <<>>
    /\ UNCHANGED eloc

(* The memory of a locator that was not found in this call was not written in
   it either: any symbols, as many as the last one had. *)
Leftovers == [1 .. eloc -> Symbols]

HasErrors(synd) == \E i \in DOMAIN synd : synd[i] # 0

(* No assertion survives more roots than a polynomial has room for. *)
Outcome(loc, c_pos) ==
    CASE Len(c_pos) >= poly_len -> "abort"
      [] Len(c_pos) # Errs(loc) \/ c_pos = <<>> -> "failure"
      [] OTHER -> "success"

(* What FindErrors() works with: the locator of this block or what is held. *)
Usable(found) == IF found.ok THEN {found.loc} ELSE Leftovers

Search(loc, raw) == [loc |-> loc, c_pos |-> Roots(Reverse(loc), raw)]

Conclude(synd, search) ==
    /\ ret' = Outcome(search.loc, search.c_pos)
    /\ corrected' = IF ret' = "success"
                    THEN CorrectErrata(synd, search.c_pos, received) ELSE <<>>
    /\ eloc' = IF ret' = "abort" THEN 0 ELSE Len(search.loc)

DecodeWith(synd) ==
    \/ /\ ~HasErrors(synd)
       /\ ret' = "success" /\ corrected' = received /\ UNCHANGED eloc
    \/ /\ HasErrors(synd)
       /\ LET found == FindErrorLocator(CalcForneySyndromes(synd))
          IN  \E loc \in Usable(found) : Conclude(synd, Search(loc, found.raw))

(* An assertion that fails ends the program: the coder starts afresh. *)
DecodeBlock ==
    /\ ret = "waiting"
    /\ DecodeWith(CalcSyndromes(received))
    /\ UNCHANGED <<sent, received>>

Next == Transmit \/ DecodeBlock
Spec == Init /\ [][Next]_vars

------------------------------------------------------------------------------
(* Properties.                                                              *)

Distance(p, q) == Cardinality({i \in DOMAIN p : p[i] # q[i]})
Message(word) == SubSeq(word, 1, msg_length)

(* The blocks and the locator keep their shape.  TypeOK also bounds the
   locator: no call leaves one of more errors than can be corrected. *)
TypeOK ==
    /\ sent \in Messages \cup {<<>>}
    /\ received = <<>> \/ received \in [1 .. enc_len -> Symbols]
    /\ corrected = <<>> \/ corrected \in [1 .. enc_len -> Symbols]
    /\ eloc \in Nat /\ (eloc = 0 \/ (eloc - 1) * 2 <= ecc_length)
    /\ ret \in {"none", "waiting", "success", "failure", "abort"}

(* As many wrong symbols as half the redundancy are always corrected,
   whatever the coder decoded before and whatever that left in it. *)
CorrectsToHalf ==
    ret \in {"success", "failure", "abort"} /\ 2 * Distance(received, Encode(sent)) <= ecc_length
        => ret = "success" /\ Message(corrected) = sent

(* DecodeBlock() changes no more symbols than it can vouch for. *)
ChangesFew ==
    ret = "success" => 2 * Distance(received, corrected) <= ecc_length

(* The polynomials are laid out past the end of the array that holds them:
   the last one stays inside only because no locator is long. *)
WorkspaceFits == ErrEvalOffset + eloc <= Workspace

(* RS-FEC.h:25 asserts that a polynomial is never appended to beyond its
   memory. *)
NeverAborts == ret # "abort"

(* RS-FEC.h:797 "Error count is greater then we can fix!", and RS-FEC.h:457
   promises an "error code otherwise". *)
OverloadRefused ==
    ret = "success" /\ HasErrors(CalcSyndromes(received))
        => FindErrorLocator(CalcForneySyndromes(CalcSyndromes(received))).ok
==============================================================================
