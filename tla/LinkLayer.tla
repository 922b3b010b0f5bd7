------------------------------ MODULE LinkLayer ------------------------------
(***************************************************************************)
(* The LoRaL2 object (LoRaL2.cpp), the driver shim below it (Radio.cpp)    *)
(* and, as an external component, the LoRa chip behind the Arduino LoRa    *)
(* library.  Two threads of control touch the object: the sketch's loop(), *)
(* which calls send(), and the chip's interrupt, which runs on_recv() or   *)
(* on_sent() to completion between any two steps of loop().                *)
(*                                                                         *)
(* send() is cut at its accesses to state shared with the interrupt:       *)
(* the status test, lora_begin_packet(), the encryption and FEC work on    *)
(* the global coders, the status assignment and lora_finish_packet().      *)
(* A packet is an opaque value: its bytes are the subject of FrameCodec.   *)
(***************************************************************************)
EXTENDS Sequences

CONSTANTS
    Stations,       \* the boards, each with one radio and one LoRaL2 object
    Payloads,       \* the packets applications may send
    Oversized,      \* those longer than max_payload()
    NoPayload,      \* "no packet"
    CallbackSends   \* may an observer's recv() call send() from the interrupt?

ASSUME PayloadAssumption == /\ Oversized \subseteq Payloads
                            /\ NoPayload \notin Payloads
ASSUME CallbackAssumption == CallbackSends \in BOOLEAN

VARIABLES
    link,     \* the LoRaL2 object: absent, live (ok()), failed (not ok()), deleted
    status,   \* LoRaL2::status
    pc,       \* where loop() is inside send(); "idle" outside it
    arg,      \* the packet loop() is sending
    radio,    \* the chip's mode; "off" is a chip that LoRa.begin() did not find
    fifo      \* the packets written to the chip since the last beginPacket()

vars == <<link, status, pc, arg, radio, fifo>>

Links == {"absent", "live", "failed", "deleted"}
Statuses == {"IDLE", "RECEIVING", "TRANSMITTING"}
SendSteps == {"idle", "begin", "encode", "mark", "finish"}
RadioModes == {"off", "standby", "rx", "tx"}

TypeOK == /\ link \in [Stations -> Links]
          /\ status \in [Stations -> Statuses]
          /\ pc \in [Stations -> SendSteps]
          /\ arg \in [Stations -> Payloads \cup {NoPayload}]
          /\ radio \in [Stations -> RadioModes]
          /\ fifo \in [Stations -> Seq(Payloads)]

Init == /\ link = [s \in Stations |-> "absent"]
        /\ status = [s \in Stations |-> "IDLE"]
        /\ pc = [s \in Stations |-> "idle"]
        /\ arg = [s \in Stations |-> NoPayload]
        /\ radio = [s \in Stations |-> "standby"]
        /\ fifo = [s \in Stations |-> <<>>]

------------------------------------------------------------------------------
(* Construction and deletion.                                              *)

Constructed(s) == link[s] \in {"live", "failed"}

(* Seeded fault: status is left as the previous object had it. *)
ConstructKeepsStatus(s) ==
    /\ ~Constructed(s)
    /\ link' = [link EXCEPT ![s] = "live"]
    /\ radio' = [radio EXCEPT ![s] = "standby"]
    /\ fifo' = [fifo EXCEPT ![s] = <<>>]
    /\ UNCHANGED <<status, pc, arg>>

(* Seeded fault: the constructor starts reception. *)
ConstructListening(s) ==
    /\ ~Constructed(s)
    /\ link' = [link EXCEPT ![s] = "live"]
    /\ status' = [status EXCEPT ![s] = "RECEIVING"]
    /\ radio' = [radio EXCEPT ![s] = "rx"]
    /\ fifo' = [fifo EXCEPT ![s] = <<>>]
    /\ UNCHANGED <<pc, arg>>

(* The constructor when LoRa.begin() finds the chip: begin() resets it, the
   callbacks are registered, and reception is not started. *)
Construct(s) ==
    /\ ~Constructed(s)
    /\ link' = [link EXCEPT ![s] = "live"]
    /\ status' = [status EXCEPT ![s] = "IDLE"]
    /\ radio' = [radio EXCEPT ![s] = "standby"]
    /\ fifo' = [fifo EXCEPT ![s] = <<>>]
    /\ UNCHANGED <<pc, arg>>

(* The constructor when LoRa.begin() fails: lora_start() returns before it
   registers the callbacks, and the object exists with ok() false. *)
ConstructFailed(s) ==
    /\ ~Constructed(s)
    /\ link' = [link EXCEPT ![s] = "failed"]
    /\ status' = [status EXCEPT ![s] = "IDLE"]
    /\ radio' = [radio EXCEPT ![s] = "off"]
    /\ fifo' = [fifo EXCEPT ![s] = <<>>]
    /\ UNCHANGED <<pc, arg>>

(* The destructor frees the key and nothing else: the chip keeps its mode
   and Radio.cpp its pointer to the object. *)
Destroy(s) ==
    /\ Constructed(s)
    /\ pc[s] = "idle"
    /\ link' = [link EXCEPT ![s] = "deleted"]
    /\ UNCHANGED <<status, pc, arg, radio, fifo>>

------------------------------------------------------------------------------
(* send(), called by loop().                                               *)

(* Seeded faults: one of the two tests of send() is forgotten. *)
RefusableByStatusOnly(s, p) == status[s] = "TRANSMITTING"
RefusableByLengthOnly(s, p) == p \in Oversized

Refusable(s, p) == status[s] = "TRANSMITTING" \/ p \in Oversized

(* The first two tests of send(): either one returns false. *)
SendRefused(s, p) ==
    /\ Constructed(s)
    /\ pc[s] = "idle"
    /\ Refusable(s, p)
    /\ UNCHANGED vars

SendCall(s, p) ==
    /\ Constructed(s)
    /\ pc[s] = "idle"
    /\ ~Refusable(s, p)
    /\ pc' = [pc EXCEPT ![s] = "begin"]
    /\ arg' = [arg EXCEPT ![s] = p]
    /\ UNCHANGED <<link, status, radio, fifo>>

(* LoRa.beginPacket() refuses while the chip transmits; a chip that was not
   found answers anything. *)
BeginRefused(s) ==
    /\ pc[s] = "begin"
    /\ radio[s] \in {"tx", "off"}
    /\ pc' = [pc EXCEPT ![s] = "idle"]
    /\ arg' = [arg EXCEPT ![s] = NoPayload]
    /\ UNCHANGED <<link, status, radio, fifo>>

(* Otherwise it takes the chip out of reception and clears the FIFO. *)
Quiesced(mode) == IF mode = "off" THEN "off" ELSE "standby"

(* Seeded faults: the answer of lora_begin_packet() is ignored; the chip is
   taken out of reception only after the encoding. *)
BeginUnchecked(s) ==
    /\ pc[s] = "begin"
    /\ pc' = [pc EXCEPT ![s] = "encode"]
    /\ radio' = [radio EXCEPT ![s] = Quiesced(@)]
    /\ fifo' = [fifo EXCEPT ![s] = <<>>]
    /\ UNCHANGED <<link, status, arg>>

BeginAfterEncoding(s) ==
    /\ pc[s] = "begin"
    /\ radio[s] # "tx"
    /\ pc' = [pc EXCEPT ![s] = "encode"]
    /\ fifo' = [fifo EXCEPT ![s] = <<>>]
    /\ UNCHANGED <<link, status, arg, radio>>

BeginPacket(s) ==
    /\ pc[s] = "begin"
    /\ radio[s] # "tx"
    /\ pc' = [pc EXCEPT ![s] = "encode"]
    /\ radio' = [radio EXCEPT ![s] = Quiesced(@)]
    /\ fifo' = [fifo EXCEPT ![s] = <<>>]
    /\ UNCHANGED <<link, status, arg>>

(* encrypt() and append_fec(): while pc is "encode" loop() is using the
   global Reed-Solomon coders. *)
Encode(s) ==
    /\ pc[s] = "encode"
    /\ pc' = [pc EXCEPT ![s] = "mark"]
    /\ UNCHANGED <<link, status, arg, radio, fifo>>

(* Seeded fault: status is not set before lora_finish_packet(). *)
MarkForgotten(s) ==
    /\ pc[s] = "mark"
    /\ pc' = [pc EXCEPT ![s] = "finish"]
    /\ UNCHANGED <<link, status, arg, radio, fifo>>

MarkTransmitting(s) ==
    /\ pc[s] = "mark"
    /\ pc' = [pc EXCEPT ![s] = "finish"]
    /\ status' = [status EXCEPT ![s] = "TRANSMITTING"]
    /\ UNCHANGED <<link, arg, radio, fifo>>

(* LoRa.write() appends to the FIFO, LoRa.endPacket(true) starts the
   transmission and returns; send() returns true. *)
Launched(mode) == IF mode = "off" THEN "off" ELSE "tx"

(* Seeded fault: the packet is freed before it is written to the chip. *)
FinishFreedPacket(s) ==
    /\ pc[s] = "finish"
    /\ pc' = [pc EXCEPT ![s] = "idle"]
    /\ fifo' = [fifo EXCEPT ![s] = Append(@, NoPayload)]
    /\ radio' = [radio EXCEPT ![s] = Launched(@)]
    /\ arg' = [arg EXCEPT ![s] = NoPayload]
    /\ UNCHANGED <<link, status>>

FinishPacket(s) ==
    /\ pc[s] = "finish"
    /\ pc' = [pc EXCEPT ![s] = "idle"]
    /\ fifo' = [fifo EXCEPT ![s] = Append(@, arg[s])]
    /\ radio' = [radio EXCEPT ![s] = Launched(@)]
    /\ arg' = [arg EXCEPT ![s] = NoPayload]
    /\ UNCHANGED <<link, status>>

------------------------------------------------------------------------------
(* The interrupt.  A handler runs whole, between two steps of loop().      *)

(* resume_rx(), as the status and chip mode it leaves. *)
ResumeRx(st, mode) ==
    IF st # "RECEIVING" THEN [status |-> "RECEIVING", radio |-> "rx"]
                        ELSE [status |-> st, radio |-> mode]

(* Seeded fault: on_sent() does not resume reception. *)
OnSentStaysIdle(s) ==
    /\ link[s] = "live"
    /\ radio[s] = "tx"
    /\ status' = [status EXCEPT ![s] = "IDLE"]
    /\ radio' = [radio EXCEPT ![s] = "standby"]
    /\ UNCHANGED <<link, pc, arg, fifo>>

(* The frame has left the antenna: the chip falls back to standby and
   on_sent() runs. *)
OnSent(s) ==
    /\ link[s] = "live"
    /\ radio[s] = "tx"
    /\ LET after == ResumeRx("IDLE", "standby")
       IN  /\ status' = [status EXCEPT ![s] = after.status]
           /\ radio' = [radio EXCEPT ![s] = after.radio]
    /\ UNCHANGED <<link, pc, arg, fifo>>

(* A frame was received and on_recv() decodes it and calls the observer,
   which only takes the packet. *)
OnRecv(s) ==
    /\ link[s] = "live"
    /\ radio[s] = "rx"
    /\ UNCHANGED vars

(* The same when the observer answers from inside its recv(): a whole
   send() runs in the interrupt. *)
OnRecvAndReply(s, p) ==
    /\ CallbackSends
    /\ link[s] = "live"
    /\ radio[s] = "rx"
    /\ ~Refusable(s, p)
    /\ status' = [status EXCEPT ![s] = "TRANSMITTING"]
    /\ radio' = [radio EXCEPT ![s] = "tx"]
    /\ fifo' = [fifo EXCEPT ![s] = <<p>>]
    /\ UNCHANGED <<link, pc, arg>>

------------------------------------------------------------------------------
Lifecycle(s) == Construct(s) \/ ConstructFailed(s) \/ Destroy(s)

SendStep(s) == \/ BeginRefused(s) \/ BeginPacket(s) \/ Encode(s)
               \/ MarkTransmitting(s) \/ FinishPacket(s)

Application(s) == \E p \in Payloads : SendRefused(s, p) \/ SendCall(s, p)

Interrupt(s) == \/ OnSent(s) \/ OnRecv(s)
                \/ \E p \in Payloads : OnRecvAndReply(s, p)

Next == \E s \in Stations :
            Lifecycle(s) \/ Application(s) \/ SendStep(s) \/ Interrupt(s)

(* send() contains no wait, so loop() gets through it; the chip ends every
   transmission it started.  Nobody is obliged to call send(). *)
Fairness == \A s \in Stations : WF_vars(SendStep(s)) /\ WF_vars(OnSent(s))

Spec == Init /\ [][Next]_vars
FairSpec == Spec /\ Fairness

------------------------------------------------------------------------------
(* Properties.                                                             *)

(* The status word and the chip never disagree, whatever the interrupt
   preempts: TRANSMITTING exactly from the assignment in send() to the end of
   the transmission, and the chip receives exactly while the status says so
   and no send() has passed lora_begin_packet(). *)
StatusMatchesRadio ==
    \A s \in Stations : link[s] = "live" =>
        /\ status[s] = "TRANSMITTING" <=> (radio[s] = "tx" \/ pc[s] = "finish")
        /\ radio[s] = "rx" <=> /\ status[s] = "RECEIVING"
                               /\ pc[s] \in {"idle", "begin"}

(* on_recv() decodes with the global coders rsf_short, rsf_medium, rsf_long,
   whose workspace pointer is a member: while loop() encodes with them, no
   reception can interrupt it, because the chip was taken out of reception
   by lora_begin_packet() before encrypt() and append_fec() were called. *)
CodersNotShared ==
    \A s \in Stations : pc[s] = "encode" => radio[s] # "rx"

(* A frame on the air holds one packet that passed the length test of send():
   no second send(), from loop() or from the observer, gets into the FIFO
   between beginPacket() and the end of the transmission. *)
OnePacketPerFrame ==
    \A s \in Stations : link[s] = "live" /\ radio[s] = "tx" =>
        /\ Len(fifo[s]) = 1
        /\ fifo[s][1] \notin Oversized

(* "should not happen because of 'status' protection": once send() has passed
   its status test, lora_begin_packet() finds the chip free. *)
BeginNeverRefused ==
    \A s \in Stations : link[s] = "live" /\ pc[s] = "begin" => radio[s] # "tx"

(* A chip that can still raise an interrupt calls into an object that still
   exists: tests delete a link that has sent and received. *)
CallbackTargetLive ==
    \A s \in Stations : radio[s] \in {"rx", "tx"} => link[s] = "live"

(* A transmission that started ends with the station receiving again, unless
   the object is deleted first: send() cannot be refused for ever. *)
TransmissionEnds ==
    \A s \in Stations :
        (link[s] = "live" /\ status[s] = "TRANSMITTING")
            ~> (link[s] # "live" \/ (status[s] = "RECEIVING" /\ radio[s] = "rx"))

(* The detailed object implements the promise of the API: what send()
   accepts is carried unchanged, one packet at a time, until the station
   listens again. *)
Sending(s) == pc[s] \in {"encode", "mark", "finish"}

Carrying(s) == IF ~Constructed(s) THEN NoPayload
               ELSE IF Sending(s) THEN arg[s]
               ELSE IF status[s] = "TRANSMITTING" THEN fifo[s][1] ELSE NoPayload

Listening(s) == link[s] = "live" /\ radio[s] = "rx"

Service == INSTANCE LinkService
               WITH up <- [s \in Stations |-> Constructed(s)],
                    carrying <- [s \in Stations |-> Carrying(s)],
                    listening <- [s \in Stations |-> Listening(s)]

ImplementsService == Service!Spec

(* The inductive strengthening of the invariants above: the failed and the
   deleted object, the ownership of the FIFO and of arg, step by step. *)
ArgOwned(s) == IF pc[s] = "idle" THEN arg[s] = NoPayload
                                 ELSE arg[s] \in Payloads \ Oversized

LinkOwned(s) == /\ ~Constructed(s) => pc[s] = "idle"
                /\ link[s] = "absent" => radio[s] = "standby"
                /\ link[s] = "failed" => radio[s] = "off"
                /\ link[s] = "live" => radio[s] # "off"

FifoOwned(s) == /\ Sending(s) => fifo[s] = <<>> /\ radio[s] \in {"standby", "off"}
                /\ Constructed(s) /\ status[s] = "TRANSMITTING" /\ ~Sending(s) =>
                       \E p \in Payloads \ Oversized : fifo[s] = <<p>>

StepStatus(s) == /\ pc[s] = "finish" => status[s] = "TRANSMITTING"
                 /\ pc[s] \in {"encode", "mark"} => status[s] # "TRANSMITTING"
                 /\ pc[s] = "begin" /\ (link[s] = "failed" \/ ~CallbackSends) =>
                        status[s] # "TRANSMITTING"

IInv == /\ TypeOK
        /\ StatusMatchesRadio
        /\ \A s \in Stations :
               ArgOwned(s) /\ LinkOwned(s) /\ FifoOwned(s) /\ StepStatus(s)
==============================================================================
