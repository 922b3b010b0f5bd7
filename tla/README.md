# LoRaL2 in TLA+

LoRaL2 is a link layer for LoRa radios on Arduino-class boards: it takes packets from an
application, optionally encrypts them (AES-256, chained blocks), appends a Reed-Solomon code,
hands them to the radio, and does the reverse for every frame it hears. This directory holds a
formal model of it, the TLC runs that check the model on small instances, and TLAPS proofs of
the properties that matter most for every instance.

Paths are relative to `src/`.

## The system

| Part | State | Operations | Talks to |
| --- | --- | --- | --- |
| Link object, `LoRaL2/LoRaL2.cpp` | `status` (IDLE, RECEIVING, TRANSMITTING), `hkey`, `observer`, `_ok`; three global coders | constructor, destructor, `send`, `on_recv`, `on_sent`, `resume_rx`, `max_payload` | called by the sketch (`send`) and by the radio interrupt (`on_*`); calls `Radio.cpp`, the coders, the cipher, the observer |
| Radio shim, `LoRaL2/Radio.cpp` | `observer` (one global pointer) | `lora_start`, `lora_receive`, `lora_begin_packet`, `lora_finish_packet`, two trampolines | wraps the Arduino LoRa library, which owns the chip's mode and FIFO |
| Frame format, `LoRaL2/LoRaL2.cpp` | none between frames | `encrypt`, `append_fec`, `decode_fec`, `decrypt` | coders, AES |
| Reed-Solomon, `LoRaL2/src/RS-FEC.h` | lengths of 16 polynomials; their memory lives on the stack of each call | `Encode`, `Decode` | used from `send()` (loop) and from `on_recv()` (interrupt) |
| Sketch, `LoRaL2/LoRaL2.ino` | `pending_recv`, `next_send`, the display | `setup`, `loop`, `RecvObserver::recv` | `loop` and the interrupt share `pending_recv` |
| AES-256, `LoRaL2/src/AES256.cpp`, `AESCommon.cpp` | the key schedule, in an object on the stack of each call | `setKey`, `encryptBlock`, `decryptBlock` | used by the frame format |
| SHA-256, `LoRaL2/src/sha256.cpp` | state, buffer, offset, byte count, in an object on the stack of `hashed_key()` | `init`, `write`, `result` | used once, by the constructor |
| Radio channel | what is on the air | frames start, collide, are damaged, end | the chips of the stations in range; emulated over UDP in `test/FakeArduino.cpp` |
| Arduino bridge, display, test program | - | `arduino_millis`, `arduino_random`; output | - |

Two threads of control exist on a board: `loop()` and the radio interrupt, which runs a whole
handler between any two instructions of `loop()`. There is no lock: consistency rests on the
order of the statements in `send()` and on the chip raising no receive interrupt once
`lora_begin_packet()` has put it in standby.

What makes each part correct:

* link object: the status word and the chip's mode agree at every point where an interrupt may
  come; the coders have one user at a time; what `send()` accepts is what is transmitted, one
  packet a frame; a transmission always ends in reception;
* frame format: the sender chooses the code by message length and the receiver by frame length,
  and they must agree; nothing is cut; no length taken from a frame leads outside a buffer; a
  packet with few damaged bytes arrives whole and one under another key is mostly refused;
* Reed-Solomon: up to half the redundancy is corrected, no more than that is ever changed, the
  workspace is not overrun, more errors are reported;
* encryption: what is hashed is the key padded as the standard says and nothing left over in
  memory; both block loops work in place and in opposite directions, and undo each other; damage
  to a block reaches the next one only; the result is what other builds of the code compute;
* network: an observer is told of a packet once at most, in its sender's order, whole only if it
  is what was sent; a frame that is worked on is reported, damaged or not;
* sketch: every packet is deleted exactly once and shown unless a newer one replaces it; packets
  are sent at the interval meant, away from the wrap of the millisecond counter.

`PROJECT.json` lists the hazards line by line, each with the properties that would notice it
going wrong.

## The modules

### LinkLayer, LinkService

`LinkLayer` models `LoRaL2.cpp` and `Radio.cpp` on any number of boards. Variables per board:
`link` (does the object exist, did `lora_start` succeed), `status`, `pc` (where `loop()` is in
`send()`), `arg` (the packet being sent), `radio` (mode of the chip) and `fifo` (what was
written to the chip since the last `beginPacket()`).

`send()` is cut where it touches what the interrupt also touches: `SendRefused` and `SendCall`
(the two tests), `BeginRefused` and `BeginPacket`, `Encode` (encryption and FEC, on the global
coders), `MarkTransmitting`, `FinishPacket`. An interrupt is one action: `OnSent`, `OnRecv`, and
`OnRecvAndReply` when the observer calls `send()` from its `recv()`, which the API does not
forbid (`CallbackSends`). `Construct`, `ConstructFailed` and `Destroy` are the life of the
object. The chip is external: `beginPacket()` is refused during a transmission, otherwise puts
it in standby and clears the FIFO; `endPacket(true)` starts a transmission; the end of one
leaves it in standby and raises transmit-done. A chip that was not found accepts calls and
never raises an interrupt; whether its `beginPacket()` is refused is left open.
Interrupts into a deleted object are undefined behaviour and are not followed: that one may
come at all is what `CallbackTargetLive` is about.

`LinkService` is what the API promises without those mechanisms: a station carries at most one
packet, unchanged, from the `send()` that accepts it until its transmission completes, and is
listening exactly from there to the next one. `ImplementsService` is the refinement: carried is
`arg` while `send()` runs, then the FIFO's content.

### SketchNode

The example sketch over `LinkLayer` with one board. `Arrive` is the interrupt that received a
packet, with or without an error code, through `RecvObserver::recv()`, and may come between any two
steps of `handle_received_packet()`. The handler names `pending_recv` in six places, for `rssi` and
`len`, for `err`, for the error number or the contents, and for the delete. For each of them
`LoadPointer` loads the pointer and a step of its own reads through it: `ReadFirst`, `ReadSecond`
(`rssi` and `len` in the order in which the compiler evaluates the operands of a `+`), `TestErr`,
`ReadNumber`, `ReadContents`, `FreePacket`; the contents are copied in one more (`CopyContents`).
`TestPending` and `ClearPending` touch the variable once. A packet is its number in order of
arrival, the heap records what became of it and `damaged` which ones came with an error. `msg` and
`screen` say for each part of the text which packet it was read from; an arrival between load and
read deletes the packet, and what is then read is either still its contents or 0, anything at all
(`Found`).

Where no call has to come between two reads (`rssi` and `len`, `err` and what is shown for it), the
compiler may make one load serve both, and the second read then goes through a pointer that an arrival
has outdated: `MayKeep`.

Left out: that the allocator may give a freed block to a later packet, which makes "anything" that
packet's contents and a second delete one of that packet; that a read through a wild pointer, or
deleting a packet twice, may also stop the board, after which nothing more is shown, or damage the
heap further; the value of the send timer, which may have run out or not in each round: that is the
next module's.

### SendTimer

The timer of the sketch alone, with its arithmetic: `arduino_millis()` is an unsigned 32-bit
count that wraps after 49.7 days; `next_send` is a `long` of the same width on these boards,
converted to unsigned by the comparison, so that both are numbers below `Modulus`. `TestEarly`
and `TestDue` are the two outcomes of the test, `Rearm` the new setting after `send()`; time
passes before each of them. `armed`, `delay` and `waited` are history. The model shows what the
wrap does to the sketch, and the properties say exactly how much: packets come too early only in
the last three half intervals of a period (then, in every round of `loop()`), and a packet due
in the last round before the wrap may be jumped over, to be sent a whole period later.

### AirNet, LossyBroadcast

Stations of `LinkLayer` composed on one radio channel (`AirNet` extends it and adds `sent`,
`tuned`, `spoilt`, `inbox`, `got`). Each action of the link layer is composed with what it does
to the air: `Transmit` and `ReceiveAndReply` launch a frame, which reaches the chips in range that
are in reception and not at work on another frame, and spoils those it overlaps; `Begin` takes
the chip out of reception and loses what it was receiving; `End` puts the frame in the chips that
received it; `Receive` is the interrupt that reads it, decodes it and tells the observer. A frame
in the chip is overwritten by one that ends before the handler ran. `Reboot` resets a board at any
point: it starts from nothing, and its frame is cut short. The channel is external code: range and
damage are those of the emulation the tests run on (`test/FakeArduino.cpp`, coverage mask and
corruption); overlap, half-duplex chips and overwriting are the radio's. What `on_recv()` makes of
a damaged frame is `FrameCodec`'s subject; here it is the packet or `Noise`. A packet that
is refused or too long, and every observer that answers from `recv()`, is in the model too.

`LossyBroadcast` is what such a network promises: packets may be lost or arrive as noise, but a
station is told of each at most once, of one sender's in the order sent, and what it is given
whole is what was sent. `ImplementsBroadcast` is the refinement; the abstract variables are
`sent` and `got`. The code has no acknowledgements, sequence numbers or retries, so nothing
stronger is true; the numbers in `got` are history.

### Sha256, BlockChain, PacketCipher; Sha256Block, Aes256, Bytes

`Sha256` is the buffering of `sha256.cpp`, one action per byte given to `push()`: `Write` for the
bytes of `hashed_key()`, then `padBlock()` statement by statement. The buffer starts with
whatever the stack held and is overwritten by `hashBlock()` with its schedule. `BlockChain` is
the two loops of `encrypt()` and `decrypt()`, one action per block, in place, with interference
between them. Both take the algorithm as a parameter (`Compress`, `Expand`; `SetKey`, `Encipher`,
`Decipher`), which is what the proofs quantify over. `PacketCipher` puts them together:
`HashedKey` hands the hash to the chain. `Aes256` and `Sha256Block` are the algorithms
themselves, byte for byte (words of 32 bits are pairs of halves, since TLC's integers have 32 bits
with a sign), and `Bytes` has the operations of C on bits that both use; `MCPacketCipher` gives them to
`PacketCipher`. `inverseMixColumn()` is written with three products in the field instead of the code's
eleven terms, which `UnmixAsWritten` proves to be the same byte. They agree with the vectors of
FIPS 197 and with the packet the repository's test records. The key is hashed
as a text of the byte 2 and the key's characters; `hkey` is kept for the life of the object.
Cleartext operation (no key) skips all of this and is in `FrameCodec`.

### FrameCodec

`encrypt`, `append_fec`, `decode_fec`, `decrypt` and `max_payload` as the lengths and error
codes they compute, with the real constants. The bytes are abstracted to facts: how many, under
which code and key, how many damaged, whether they are still what was sent. The coder is taken
by its contract (half the redundancy is corrected; beyond that it may report an error or not)
and the cipher by its own (another key yields any length word). Foreign frames of any length
are heard, since the radio's CRC is off. `size_t` wraps at `SizeModulus`.

### Loops, GaloisField, ReedSolomon, FieldTables

`RS-FEC.h` as operators: field and polynomials (`GaloisField`, the namespace `gf`), encoder, and
the decoder with Berlekamp-Massey, root search and Forney's magnitudes, in the order of the code
(`ReedSolomon`). The field, given by the two tables of the code, is a parameter, so that the same
definitions are checked with 16 elements, added by the exclusive or of `Bytes`. `FieldTables` holds
the code's own tables of 256 elements: TLC evaluates on them what `GaloisField` assumes of tables
(`CodeTables` in `MCReedSolomon`), and `AlgorithmProofs` proves that, and that bytes with exclusive or
are what it assumes of a sum.
A loop of the code is `Loop(f, e, n)` (in `Loops`, which the cipher and the hash use too): the
functions `f[1]` to `f[n]` applied to `e` in turn.
Two things the code does are kept with
care: the result of `FindErrorLocator()` is not looked at, so that an uncorrectable block is
decoded with a locator of the length that an earlier call left (a member of the coder, and the
variable `eloc`), whose symbols are whatever the uninitialised stack of the new call holds there:
any at all (`Leftovers`), and the root search
appends to a polynomial of `2 * ecc_length` bytes, under an assertion. Erasure decoding is not
used by LoRaL2 and is left out, as is the cache of the generator. The definitions were also
evaluated with 256 elements on blocks decoded by the compiled header, with the same results.

`MC*` modules give the constants their values. Definitions marked "Seeded fault" are variants
of the definition that follows them, as a plausible mistake would have it: with it in place the
property named in `PROJECT.json` is violated.

## The runs

| Run | Instance | Shows |
| --- | --- | --- |
| `Link_safe` | 2 boards, 2 packets and an oversized one, observers that answer | `TypeOK`, `StatusMatchesRadio`, `CodersNotShared`, `OnePacketPerFrame`, the inductive `IInv`, `ImplementsService`, and, with fairness, `TransmissionEnds` |
| `Link_dangling` | | after `delete`, the chip still calls the object (`CallbackTargetLive`) |
| `Sketch_races` | 1 board, 4 arrivals at any time, with or without an error, an observer that does not send, `loop()` fair | `BeginNeverRefused` holds; `DanglingConfined`, `FaultsNeedTheWindow`: leak and double delete need an arrival within the last two statements; `ShownInOrder`: what the reads of the handler may mix up, and that it is never older than what was shown; `PendingShown`; the inductive `NodeInv` |
| `Sketch_lost` | arrivals at any time | a packet left for `loop()` can vanish unshown (`LeftPacketHandled`) |
| `Timer_safe` | a counter of 30, half interval 4, rounds of up to 3, sends of up to 2 | `EarlyOnlyBeforeWrap`, `LateOnlyAcrossWrap`, `MissedForAPeriod`, the inductive `TimerInv` |
| `Net_safe` | 3 stations in a chain, two keys, observers that answer, 1 to 2 packets each, 1 reset | `ImplementsBroadcast`, `SilentStationsAreDeaf`, `ReceiversListen`, the inductive `NetInv`, and, with fairness, `FramesReported` |
| `Codec_safe` | all payload lengths 0..232, all frame lengths 0..255, two keys and cleartext | `RoundTrip`, `NeverTruncated`, `ErrorNamesCode`, `CopiesFit`, `LengthCompatible`, `IInv` |
| `Codec_maximum` | | 196 octets are the encrypted maximum, the README says 198 |
| `Cipher_safe` | the real hash and cipher, 9 keys, 2 packets, every pattern of damaged blocks, clean and dirty memory | `PaddingConforms`, `HashesWholeBlocks`, `DamageConfined`, `KnownCiphertext` (the packet of `test/test.cpp:174`), the inductive `CipherInv` |
| `RS_safe` | field of 16, 4+4 symbols, 0 to 3 errors, block after block, any contents of a locator not found | `TypeOK`, `CorrectsToHalf`, `ChangesFew`, `WorkspaceFits` |
| `RS_overload` | | a block the locator search gave up on is "corrected" with what the memory of an earlier locator holds |
| `RS_abort` | | such a block can run into the assertion of `Poly::Append`, the abort that `test/test.cpp:158` and `TODO` mention |

Bounds. Boards share nothing in this model, so two are there to let the refinement and the
invariants see independent progress; two packets tell "the same" from "another"; four arrivals
let a third packet hit the window that the second one opened and one more be handled after it, and
three of them interrupt the composing of one text.
`Codec_safe` uses the real sizes and every length; the damage counts lie on both sides of the
three limits (5, 7, 10), the length words on both sides of the block boundaries and at the end
of the range. `SizeModulus` is 2^20 there, standing for any `size_t` wider than the sum of a
length word and the header, because TLC's integers have 32 bits. `RS_safe` uses as many message
as redundancy symbols, so that a block is long enough for the root search to overrun, and
patterns of each weight from 0 to 3, where 2 is the capacity; because the coder keeps the
length of its locator, the run covers pairs and longer histories of such blocks, each with every
content the memory can have at that length.

`Timer_safe` goes round its counter as often as it likes; the interval, the round and the counter
are in no particular proportion, so that every alignment of a deadline with the wrap comes up. In
`Net_safe` the outer stations do not hear each other, which is how frames overlap at the middle
one; the middle one sends twice, so that a later frame can
overtake one still in a chip, and one of the outer stations has a key of its own, so that its
frames arrive as noise only. `MaxReports`
is more than any station can be told of. `Cipher_safe` hashes texts of 1, 54, 55, 56, 62, 63,
64 and 119 bytes and the test's 12: the padding ends before, at and after offset 56, the length
field crosses into another block, and a text fills a block exactly. Packets have two and four blocks:
one is the test's, the other has two equal blocks and every subset of its blocks damaged.

Deadlock checking stays on in every run.

Fairness. `send()` contains no wait and the interrupt handlers end, so `loop()` gets through
`send()` and through its own rounds: weak fairness of `SendStep` and of the sketch's `Loop`. The
chip raises transmit-done for each transmission it started: weak fairness of `OnSent`. In the
network (`NetFairness`) each station's `send()` goes on, each transmission ends, and a chip that
holds a frame raises its interrupt, whether or not the observer answers. Nothing is assumed of
applications, of arrivals, of resets or of the timer.

## The proofs

`LinkLayerProofs` holds for any sets of boards and packets and both values of `CallbackSends`.
The invariant `IInv` is needed because none of the properties is inductive alone: that a frame
on the air is one legal packet depends on what the FIFO held when `MarkTransmitting` was done
(`FifoOwned`), that on the packet `send()` was called with (`ArgOwned`), and that the chip is
not in reception while encoding on what `BeginPacket` left and on no interrupt having restarted
it, which depends on `status` not being TRANSMITTING then (`StepStatus`); failed and deleted
objects need `LinkOwned`. From `IInv` follow `TypeCorrect`, `StatusIsTheRadioMode`,
`CodersHaveOneUser`, `FramesAreSinglePackets`, `StatusProtects` (for observers that do not send)
and `Refinement`: each action maps to a step of `LinkService` or a stutter.

`FrameCodecProofs` holds for any lengths, damage, keys and length words, under
`Wide == SizeModulus > MaxWord + Header`: a `size_t` in which the sum of the header and a length
word cannot wrap. On a 16-bit `size_t` (`Radio.cpp` has
branches for AVR) the sum wraps for a length word near 65535, two blocks look compatible with it,
and `LengthCompatible` fails: the assumption is needed. `IInv` says of each phase
what is known of the frame (made from a packet that `send()` accepted; decoded with a net
length and an error that its length determines; handed over with a length word that was
accepted). From it follow `RoundTrips`, `NothingTruncated`, `ErrorsNameTheCode`,
`LengthsAreCompatible`, `CopiesStayInside` and `TypeCorrect`.

`SketchProofs` holds for any number of arrivals. Each step of the sketch is a step of its
`LinkLayer` object or leaves it alone (`NodeIsLink`), so the link layer's theorems carry over,
`SketchNeverRefused` among them. `NodeInv` adds to the properties which packets exist and that
`pending_recv` is not null in the handler (`HeapKnown`), that the packet just deleted is dead until the
assignment (`RegKnown`), that the parts not yet read are blank (`Unread`), that no part composed is from
a packet newer than the one the pointer was loaded for, the parts being in order (`TextsKnown`), and that
whatever is pending, loaded or composed is newer than what is shown, unless it was read from freed memory
(`NothingOld`). The last two are what an arrival cannot undo: it makes `pending_recv` newer and leaves
what was loaded. From `NodeInv` follow `DanglingIsConfined`, `FaultsAreConfined` and
`DisplayGoesForward`.

Its second half is about `SendTimer` and holds for any counter, interval, round and send time with
`3 * Half + LoopTime + SendTime <= Modulus`: that a delay does not go round the counter, 15 seconds and
a round against 49.7 days. `TimerInv` tells clock and `next_send` from the time since the timer was
set, up to one period, and that a missed packet is still ahead of the clock. All four properties
of the run follow.

`AirNetProofs` holds for any stations, ranges, keys, quotas and numbers of resets. It uses `IInv` of
the link layer, which resets preserve, and adds what each station has on the air and that every
frame in the air or in a chip is newer than all its receiver was told from that sender
(`OnAirKnown`, `TunedKnown`, `FrameKnown`, `GotKnown`): numbers on the air only grow, a chip holds
one frame and reading it takes it out, so a report is always of a newer packet, which is what
`NetRefinement` needs at its only hard step. `NetReceiversListen` and `NetSilentAreDeaf` follow as
well.

`PacketCipherProofs` holds for any compression function of the right range and any block cipher
whose decryption inverts its encryption under every key, and any byte-wise operation that undoes
itself: `Algorithms == HashBlockTyped /\ DigestIsKey /\ CipherInverts /\ XorInverts`, hypotheses of
the theorems and not assumptions of the modules; `AlgorithmProofs` discharges them. The invariant says
that the buffer holds the end of the byte stream (`BufferHeld`), that the stream is the beginning of
the padded text as far as the place in `padBlock()` goes (`StreamLength`, `StreamKnown`), and which blocks
each loop has been through (`EncryptKnown`, `CipherKnown`, `DecryptKnown`). `PaddingIsStandard` holds
for keys of any length below 2^32, `DamageIsConfined` for packets of any length.

`AlgorithmProofs` shows that the two algorithms of the code are of that kind (`RealAlgorithms`), so that
`PacketCipherProofs`, instantiated with them as `Real`, holds with no hypothesis left about them: what
remains is `Inputs`, that texts are bytes and fewer than 2^32 of them, packets sequences of two blocks or more,
and that the noise and the leftovers in memory are blocks. The five theorems that follow (`RealInvariance`,
`RealTypeCorrect`, `RealPaddingIsStandard`, `RealWholeBlocksHashed`, `RealDamageIsConfined`) are those of
`PacketCipher` for the program as it is compiled for boards without an accelerator.

The hard hypothesis is that `decryptBlock()` undoes `encryptBlock()` for every key and block
(`AesInverts`). A byte is known by its eight bits, which the exclusive or acts on one by one (`XorBits`,
`SameBits`), so equations between sums of bytes are equations between bits. Doubling in the field is
additive, though written with a shift, a multiplication and a truncation (`DoubleXor`), `gmul4` and `gmul8`
are doublings repeated in spite of their table of corrections (`QuadrupleIs`, `OctupleIs`), and then the
combination of a column undone by the other one leaves each byte as it was (`MixInverse`). The two tables
undo each other and the rows are turned back. The expanded key is never looked into, beyond its being bytes:
`setKey()` delivers 60 words (`ScheduleType`), and both directions use the same ones in opposite order. The
loops are compared by `LoopInvariant`, from the far end: round `r` of `decryptBlock()` finds what
`encryptBlock()` had `r` rounds before its last. For the hash the hypothesis is only that it leaves states and
blocks, which is about widths: no sum, shift or rotation leaves 32 bits. That these computations are the
standards' is not proved but compared with known vectors, by `KnownCiphertext`.

`ReedSolomonProofs` holds for any field that satisfies `TableAssumption` and
`AddAssumption`, any message length, any redundancy of two symbols or more with a block no longer than
the field has non-zero elements, and any messages and errors. The field laws come from the tables:
logarithms make multiplication an addition of exponents, and it distributes because doubling does and
every element is a power of 2. Loops over data are reasoned about through `LoopInvariant` and through an
`Induction` that speaks of sets instead of predicates, both derived in `LoopProofs` from the
well-foundedness of the naturals. Polynomials are then known by their coefficients (`PolyMulFacts`, a convolution) and values
(`EvalSum`, `EvalLinear`), and two facts of algebra follow: `RootBound`, and `Vandermonde`, that weights
of distinct points are zero if as many power sums are.

The argument for the decoder: what `Encode()` returns vanishes at the powers of 2 (`EncodeFacts`), so
the syndromes are the power sums of the errors (`SyndromeMoments`). `Recurrence` is the invariant of
Berlekamp-Massey: both polynomials annihilate the syndromes seen so far, up to a 1 for the older one,
and their lengths add up to the round. A round that lengthens the locator has errors enough to need it
(`LengthBound`, by `Vandermonde`), so that with up to half the redundancy in errors the locator has just
their number of roots, exactly where they are (`LocatorFound`, by `RootBound`). `FindErrors()` then
finds each of them once (`RootsFacts`), and Forney's quotient is the error there (`MagnitudeFacts`): the
evaluator is the product of syndromes and locator cut off, and the denominator is the product of the
other locators at the same point. The state invariant `IInv` is what an earlier block leaves behind
(`BoundedLength`: a locator for no more errors than can be corrected, or none) with what holds of the
block at hand (`OnItsWay`); it is needed because a failed locator search decodes with a leftover of that
length. The length is all the proof knows of it: its symbols are arbitrary (`LeftoversBounded`). From it
follow `TypeCorrect`, `AlwaysCorrectsToHalf`, `AlwaysChangesFew` and `AlwaysWorkspaceFits`, the last only
because no locator is longer than the redundancy. `RoundsInBounds` and `CorrectionInBounds` are the
assertions of `at()` and `Append()` that the model does not carry as state. `AlwaysCorrectsToHalf`
is also the contract under which `FrameCodec` takes the coder.

`AlgorithmProofs` ends with the field of the code. `Coder` is `ReedSolomonProofs` with the tables of
`FieldTables` and the exclusive or, and what `GaloisField` assumes is proved of them: the entries of the
tables one by one (`TablesOfField`), and for the sum that doubling by the tables is a shift with
correction 1D (`CodeDouble`), which acts on bits (`CodeDoubledBits`) and is therefore additive
(`CodeDoubleXor`, `SumsOfField`). So `RealCoderInvariance`, `RealCorrectsToHalf`, `RealChangesFew` and
`RealWorkspaceFits` assume nothing of a field. Their hypothesis `Codes` is about lengths and bytes only: a
block and twice the redundancy of no more than 255 bytes, as the three coders of `LoRaL2.cpp` have
(`ProgramCodes`).

Model-checked only: liveness (`TransmissionEnds`, `PendingShown`, `FramesReported`), which these
provers do not handle; `KnownCiphertext`, an evaluation.

## Not modelled

* The parts of the vendored sources that this program never reaches: the HMAC functions of
  `sha256.cpp`, the AESTiny256 and AESSmall256 classes of `AES256.cpp` and the shorter keys, erasure
  decoding in `RS-FEC.h`, `secure_compare()` of `Crypto.cpp`.
* The ESP32 accelerator (`AESEsp32.cpp`): it hands keys and blocks to a vendor library. Its contract is
  `CipherInverts`.
* `clean()` and the destructors that call it: they overwrite memory that is not read again. The cache of the
  generator polynomial: it holds what `GeneratorPoly()` returns. `BlockCipher`: an abstract class.
* `gen_iv()` beyond what it is for: the first block of a message is any block.
* Memory exhaustion in the interrupt (`Radio.cpp:38`): the code has no path for it.
* `send()` on an object whose `ok()` is false is modelled, and the model shows what the code
  does: after one successful call `status` stays TRANSMITTING for ever. No document promises
  otherwise, so no property speaks of it.
* Radio parameters, `speed_bps()`, the display, the serial output, the test harness.

## Known, without a run

* The comment at `LoRaL2.cpp:114` says that a refusal by `lora_begin_packet()` cannot happen. With an
  observer that answers from `recv()` it can (`BeginNeverRefused` fails in the instance of `Link_safe`);
  `send()` then returns false, which is harmless. For observers that do not send it is proved
  (`StatusProtects`).
* `README.md:82` gives 44 octets as the smallest encrypted packet. It is 42: two blocks and 10 octets of
  redundancy, for payloads of up to 14 octets.
* With three errors where two can be corrected, the decoder may also accept a word that is not a
  codeword: a locator that lost leading zeros is compared with the capacity by its degree, and the syndromes
  are not computed again.

## Where to go on

* The sizes of the real code for Reed-Solomon (255 elements, 10 to 20 redundancy symbols) are beyond TLC but
  for single blocks; the proofs cover them. What they leave open is what the decoder makes of more errors than
  it can correct: that it may return a word that is no codeword is known (above), how often is not.
* That `Aes256` and `Sha256Block` compute what the standards define: the definitions of FIPS 197 and FIPS 180-2
  beside those of the code, and a proof that they are equal. For the cipher the lemmas about bytes are there.
* `FrameCodec` and `BlockChain` share the packet but not a variable: a refinement of the contract of one by
  the loops of the other would join them.
* A station whose packets are in flight when its `LoRaL2` object is deleted (`Destroy` is in `LinkLayer` but
  not in `AirNet`, where boards are reset instead).
