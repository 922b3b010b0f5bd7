-------------------------------- MODULE AirNet --------------------------------
(***************************************************************************)
(* Stations of LinkLayer on one radio channel.  A frame reaches the        *)
(* stations in range whose chips are receiving when it starts; it is lost  *)
(* to those that leave reception before it ends, garbled where two frames  *)
(* overlap, and damaged in any way on the air (the chip's own CRC is       *)
(* disabled, so damaged frames reach on_recv() too).  Boards crash and     *)
(* restart.  The medium is external; its ranges and its damage are those   *)
(* of the emulation the repository tests with (test/FakeArduino.cpp).      *)
(*                                                                         *)
(* What on_recv() makes of a frame is the subject of FrameCodec: here it   *)
(* delivers the packet whole or something else, called Noise.              *)
(***************************************************************************)
EXTENDS LinkLayer, Naturals

CONSTANTS
    Hears,        \* <<s, t>>: station t is in range of station s
    KeyOf,        \* the key of each station
    Noise,        \* what an observer is given of a frame that was not decoded
    NoFrame,      \* "no frame"
    Quota,        \* bound: how many packets each station starts to send
    MaxReboots,   \* bound: how many boards are reset
    MaxReports    \* bound: how many reports per station FramesReported counts

ASSUME AirAssumption ==
    /\ \A s \in Stations : <<s, s>> \notin Hears
    /\ Noise \notin Payloads \cup {NoPayload}
    /\ Quota \in [Stations -> Nat] /\ MaxReboots \in Nat /\ MaxReports \in Nat

VARIABLES
    sent,      \* sent[s]: the packets s has put on the air, in order
    tuned,     \* tuned[s]: the stations receiving the frame s transmits
    spoilt,    \* those of them where another frame overlaps it
    inbox,     \* the frame the chip holds for the interrupt handler
    got,       \* what the observer was given, in order
    reboots    \* how many boards were reset

airVars == <<sent, tuned, spoilt, inbox, got>>
netVars == <<vars, airVars, reboots>>

Frames == [src : Stations, n : Nat, packet : Payloads, spoilt : BOOLEAN]
Reports == [src : Stations, n : Nat, packet : Payloads \cup {Noise}]

NetTypeOK ==
    /\ TypeOK
    /\ sent \in [Stations -> Seq(Payloads)]
    /\ tuned \in [Stations -> SUBSET Stations]
    /\ spoilt \in [Stations -> SUBSET Stations]
    /\ inbox \in [Stations -> Frames \cup {NoFrame}]
    /\ got \in [Stations -> Seq(Reports)]
    /\ reboots \in Nat

NetInit ==
    /\ Init
    /\ sent = [s \in Stations |-> <<>>]
    /\ tuned = [s \in Stations |-> {}]
    /\ spoilt = [s \in Stations |-> {}]
    /\ inbox = [s \in Stations |-> NoFrame]
    /\ got = [s \in Stations |-> <<>>]
    /\ reboots = 0

------------------------------------------------------------------------------
(* The medium.                                                              *)

InRange(s) == {t \in Stations : <<s, t>> \in Hears}

OthersOnAir(s) == {u \in Stations \ {s} : radio[u] = "tx"}

(* Station s puts a packet on the air: it is received where the chip is
   listening and not at work on another frame; what s's frame overlaps is
   spoilt, and so is s's frame there.  If s itself was receiving, it stops. *)
Launch(s, p) ==
    /\ sent' = [sent EXCEPT ![s] = Append(@, p)]
    /\ LET busy == UNION {tuned[u] : u \in Stations}
           listeners == {t \in InRange(s) : radio[t] = "rx"} \ busy
           disturbed == UNION {InRange(u) : u \in OthersOnAir(s)}
       IN  /\ tuned' = [u \in Stations |->
                            IF u = s THEN listeners ELSE tuned[u] \ {s}]
           /\ spoilt' = [u \in Stations |->
                             IF u = s THEN listeners \cap disturbed
                             ELSE (spoilt[u] \cup (tuned[u] \cap InRange(s))) \ {s}]

(* Station s stops receiving: what it was receiving is lost. *)
Deafened(s) ==
    /\ tuned' = [u \in Stations |-> tuned[u] \ {s}]
    /\ spoilt' = [u \in Stations |-> spoilt[u] \ {s}]
    /\ inbox' = [inbox EXCEPT ![s] = NoFrame]

(* The frame of s ends, whole or cut short: the chips that received it have
   it ready for their handlers. *)
FrameOf(s, cut, t) == [src |-> s, n |-> Len(sent[s]), packet |-> fifo[s][1],
                       spoilt |-> cut \/ t \in spoilt[s]]

Landed(s, cut) == [t \in Stations |->
                       IF t \in tuned[s] THEN FrameOf(s, cut, t) ELSE inbox[t]]

(* What decode_fec() and decrypt() can make of it: the packet, if the frames
   did not overlap, the damage is within the code's power and the keys are
   the same, and otherwise an error or another packet. *)
Outcomes(t, f) ==
    IF ~f.spoilt /\ KeyOf[f.src] = KeyOf[t] THEN {f.packet, Noise} ELSE {Noise}

------------------------------------------------------------------------------
(* The stations.                                                            *)

SetUp(s) == /\ link[s] = "absent"
            /\ Construct(s) \/ ConstructFailed(s)
            /\ UNCHANGED <<airVars, reboots>>

(* A board loses power or is reset: it starts again from nothing, and its
   frame, if it was sending one, breaks off. *)
Reboot(s) ==
    /\ reboots < MaxReboots
    /\ link[s] # "absent"
    /\ reboots' = reboots + 1
    /\ link' = [link EXCEPT ![s] = "absent"]
    /\ status' = [status EXCEPT ![s] = "IDLE"]
    /\ pc' = [pc EXCEPT ![s] = "idle"]
    /\ arg' = [arg EXCEPT ![s] = NoPayload]
    /\ radio' = [radio EXCEPT ![s] = "standby"]
    /\ fifo' = [fifo EXCEPT ![s] = <<>>]
    /\ tuned' = [u \in Stations |-> IF u = s THEN {} ELSE tuned[u] \ {s}]
    /\ spoilt' = [u \in Stations |-> IF u = s THEN {} ELSE spoilt[u] \ {s}]
    /\ inbox' = [Landed(s, TRUE) EXCEPT ![s] = NoFrame]
    /\ UNCHANGED <<sent, got>>

Call(s) == /\ Len(sent[s]) < Quota[s]
           /\ \E p \in Payloads : SendCall(s, p)
           /\ UNCHANGED <<airVars, reboots>>

Refuse(s) == /\ \E p \in Payloads : SendRefused(s, p)
             /\ UNCHANGED <<airVars, reboots>>

(* send(), up to the point where the frame is on the air. *)
Begin(s) == /\ BeginPacket(s)
            /\ Deafened(s)
            /\ UNCHANGED <<sent, got, reboots>>

Prepare(s) == /\ BeginRefused(s) \/ Encode(s) \/ MarkTransmitting(s)
              /\ UNCHANGED <<airVars, reboots>>

Transmit(s) == /\ FinishPacket(s)
               /\ IF radio[s] = "off" THEN UNCHANGED <<sent, tuned, spoilt>>
                                      ELSE Launch(s, arg[s])
               /\ UNCHANGED <<inbox, got, reboots>>

(* The transmission ends: on_sent() runs at s. *)
End(s) == /\ OnSent(s)
          /\ inbox' = Landed(s, FALSE)
          /\ tuned' = [tuned EXCEPT ![s] = {}]
          /\ spoilt' = [spoilt EXCEPT ![s] = {}]
          /\ UNCHANGED <<sent, got, reboots>>

(* Seeded faults: a frame with an error is dropped and not reported; the
   handler leaves the frame in the chip. *)
GiveDecodedOnly(t) ==
    /\ inbox[t] # NoFrame
    /\ inbox' = [inbox EXCEPT ![t] = NoFrame]
    /\ \E what \in Outcomes(t, inbox[t]) :
           got' = IF what = Noise THEN got
                  ELSE [got EXCEPT ![t] = Append(@, [src |-> inbox[t].src,
                                                     n |-> inbox[t].n,
                                                     packet |-> what])]

GiveKeepingFrame(t) ==
    /\ inbox[t] # NoFrame
    /\ UNCHANGED inbox
    /\ \E what \in Outcomes(t, inbox[t]) :
           got' = [got EXCEPT ![t] = Append(@, [src |-> inbox[t].src,
                                                n |-> inbox[t].n,
                                                packet |-> what])]

(* The interrupt handler reads the frame, on_recv() decodes it and gives the
   result to the observer. *)
Give(t) ==
    /\ inbox[t] # NoFrame
    /\ inbox' = [inbox EXCEPT ![t] = NoFrame]
    /\ \E what \in Outcomes(t, inbox[t]) :
           got' = [got EXCEPT ![t] = Append(@, [src |-> inbox[t].src,
                                                n |-> inbox[t].n,
                                                packet |-> what])]

Receive(t) == /\ OnRecv(t)
              /\ Give(t)
              /\ UNCHANGED <<sent, tuned, spoilt, reboots>>

ReceiveAndReply(t) ==
    /\ Len(sent[t]) < Quota[t]
    /\ Give(t)
    /\ \E p \in Payloads : OnRecvAndReply(t, p) /\ Launch(t, p)
    /\ UNCHANGED reboots

------------------------------------------------------------------------------
Station(s) == \/ SetUp(s) \/ Call(s) \/ Refuse(s) \/ Begin(s) \/ Prepare(s)
              \/ Transmit(s) \/ End(s) \/ Receive(s) \/ ReceiveAndReply(s)

NetNext == \E s \in Stations : Station(s) \/ Reboot(s)

NetSpec == NetInit /\ [][NetNext]_netVars

(* loop() gets through send(), transmissions end, pending interrupts run. *)
NetFairness == \A s \in Stations : /\ WF_netVars(Begin(s) \/ Prepare(s) \/ Transmit(s))
                                   /\ WF_netVars(End(s))
                                   /\ WF_netVars(Receive(s) \/ ReceiveAndReply(s))

NetFairSpec == NetSpec /\ NetFairness

------------------------------------------------------------------------------
(* Properties.                                                              *)

Broadcast == INSTANCE LossyBroadcast

(* The network of stations implements the lossy broadcast: no packet reaches
   an observer twice, out of its sender's order or under another packet's
   name, whatever collides, is damaged, is rebooted or answers from recv(). *)
ImplementsBroadcast == Broadcast!Spec

(* Reception starts with the end of the first transmission: a station that has
   never sent a packet is never given one, whatever the others send. *)
SilentStationsAreDeaf ==
    \A t \in Stations : sent[t] = <<>> => got[t] = <<>> /\ inbox[t] = NoFrame

(* A chip that works on a frame, or holds one, belongs to a station that
   listens and whose loop() has not taken the chip for a packet of its own:
   the handler finds the global coders free and its frame in the chip. *)
ReceiversListen ==
    \A t \in Stations :
        (inbox[t] # NoFrame \/ \E s \in Stations : t \in tuned[s]) =>
            link[t] = "live" /\ status[t] = "RECEIVING" /\ radio[t] = "rx"
            /\ pc[t] \in {"idle", "begin"}

(* A station that receives a frame is told of one more frame, decoded or not:
   that one, or one that took its place in the chip before the handler ran.
   Only a packet of its own, or a reset, ends reception before that. *)
FramesReported ==
    \A t \in Stations : \A k \in 0 .. MaxReports :
        (Len(got[t]) = k /\ \E s \in Stations : t \in tuned[s])
            ~> (Len(got[t]) > k \/ radio[t] # "rx")

(* The inductive strengthening: what each station has on the air, and that a
   frame on its way to an observer is newer than all the observer was given
   from its sender. *)
Older(t, s, n) == \A i \in DOMAIN got[t] : got[t][i].src = s => got[t][i].n < n

OnAirKnown(s) ==
    /\ link[s] # "deleted"
    /\ radio[s] \in {"rx", "tx"} => sent[s] # <<>>
    /\ radio[s] = "tx" => fifo[s] = <<sent[s][Len(sent[s])]>>

TunedKnown(s, t) ==
    t \in tuned[s] =>
        /\ s # t /\ radio[s] = "tx" /\ radio[t] = "rx"
        /\ Older(t, s, Len(sent[s]))
        /\ inbox[t] # NoFrame /\ inbox[t].src = s => inbox[t].n < Len(sent[s])

FrameKnown(t, f) ==
    f # NoFrame =>
        /\ radio[t] = "rx" /\ f.src # t
        /\ f.n \in DOMAIN sent[f.src] /\ f.packet = sent[f.src][f.n]
        /\ Older(t, f.src, f.n)

GotKnown(t) ==
    /\ \A i \in DOMAIN got[t] : got[t][i].n \in DOMAIN sent[got[t][i].src]
    /\ got[t] # <<>> => sent[t] # <<>>

NetInv == /\ NetTypeOK /\ IInv
          /\ \A s \in Stations : OnAirKnown(s) /\ GotKnown(s)
          /\ \A s, t \in Stations : TunedKnown(s, t)
          /\ \A t \in Stations : FrameKnown(t, inbox[t])
==============================================================================
