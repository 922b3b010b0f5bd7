--------------------------- MODULE LinkLayerProofs ---------------------------
(***************************************************************************)
(* Proofs about LinkLayer, for every set of stations and of payloads and   *)
(* for observers that do and do not call send() from their recv().         *)
(***************************************************************************)
EXTENDS LinkLayer, TLAPS

(* The inductive invariant holds of the boards before any construction. *)
LEMMA InitEstablishes == Init => IInv
BY PayloadAssumption
   DEF Init, IInv, TypeOK, StatusMatchesRadio, ArgOwned, LinkOwned, FifoOwned,
       StepStatus, Constructed, Sending, Links, Statuses, SendSteps, RadioModes

(* What an action of one station keeps: typing and its own conjuncts of the
   invariant, the other stations being untouched. *)
LEMMA LifecyclePreserves ==
    ASSUME IInv, NEW s \in Stations, Lifecycle(s)
    PROVE  IInv'
<1> USE PayloadAssumption
        DEF IInv, TypeOK, StatusMatchesRadio, ArgOwned, LinkOwned, FifoOwned,
            StepStatus, Constructed, Sending, Links, Statuses, SendSteps, RadioModes
<1>1. CASE Construct(s)
      BY <1>1 DEF Construct
<1>2. CASE ConstructFailed(s)
      BY <1>2 DEF ConstructFailed
<1>3. CASE Destroy(s)
      BY <1>3 DEF Destroy
<1> QED BY <1>1, <1>2, <1>3 DEF Lifecycle

(* The application's calls and the steps of send() keep the invariant. *)
LEMMA SendPreserves ==
    ASSUME IInv, NEW s \in Stations, Application(s) \/ SendStep(s)
    PROVE  IInv'
<1> USE PayloadAssumption
        DEF IInv, TypeOK, StatusMatchesRadio, ArgOwned, LinkOwned, FifoOwned,
            StepStatus, Constructed, Sending, Links, Statuses, SendSteps, RadioModes
<1>1. ASSUME NEW p \in Payloads, SendRefused(s, p) PROVE IInv'
      BY <1>1 DEF SendRefused, vars
<1>2. ASSUME NEW p \in Payloads, SendCall(s, p) PROVE IInv'
      BY <1>2 DEF SendCall, Refusable
<1>3. CASE BeginRefused(s)
      BY <1>3 DEF BeginRefused
<1>4. CASE BeginPacket(s)
      BY <1>4 DEF BeginPacket, Quiesced
<1>5. CASE Encode(s)
      BY <1>5 DEF Encode
<1>6. CASE MarkTransmitting(s)
      BY <1>6 DEF MarkTransmitting
<1>7. CASE FinishPacket(s)
  <2>1. arg[s] \in Payloads \ Oversized /\ fifo[s] = <<>>
        BY <1>7 DEF FinishPacket
  <2>2. fifo' = [fifo EXCEPT ![s] = <<arg[s]>>]
    <3>1. Append(<<>>, arg[s]) = <<arg[s]>>
          BY <2>1
    <3> QED BY <1>7, <2>1, <3>1 DEF FinishPacket
  <2>3. <<arg[s]>> \in Seq(Payloads)
        BY <2>1
  <2> QED BY <1>7, <2>1, <2>2, <2>3 DEF FinishPacket, Launched
<1> QED BY <1>1, <1>2, <1>3, <1>4, <1>5, <1>6, <1>7 DEF Application, SendStep

(* The two interrupt handlers keep the invariant, wherever they interrupt. *)
LEMMA InterruptPreserves ==
    ASSUME IInv, NEW s \in Stations, Interrupt(s)
    PROVE  IInv'
<1> USE PayloadAssumption
        DEF IInv, TypeOK, StatusMatchesRadio, ArgOwned, LinkOwned, FifoOwned,
            StepStatus, Constructed, Sending, Links, Statuses, SendSteps, RadioModes
<1>1. CASE OnSent(s)
      BY <1>1 DEF OnSent, ResumeRx
<1>2. CASE OnRecv(s)
      BY <1>2 DEF OnRecv, vars
<1>3. ASSUME NEW p \in Payloads, OnRecvAndReply(s, p) PROVE IInv'
      BY <1>3, CallbackAssumption DEF OnRecvAndReply, Refusable
<1> QED BY <1>1, <1>2, <1>3 DEF Interrupt

(* Every step of the specification keeps the inductive invariant. *)
LEMMA StepPreserves == ASSUME IInv, [Next]_vars PROVE IInv'
<1>1. CASE UNCHANGED vars
      BY <1>1 DEF vars, IInv, TypeOK, StatusMatchesRadio, ArgOwned, LinkOwned,
                  FifoOwned, StepStatus, Constructed, Sending
<1>2. CASE Next
      BY <1>2, LifecyclePreserves, SendPreserves, InterruptPreserves DEF Next
<1> QED BY <1>1, <1>2

(* The invariant of the link layer, for every interleaving with its
   interrupts. *)
THEOREM Invariance == Spec => []IInv
<1>1. IInv /\ [Next]_vars => IInv'
      BY StepPreserves
<1> QED BY InitEstablishes, <1>1, PTL DEF Spec

(* Every variable keeps its type: in particular the FIFO only ever holds
   packets of the application. *)
THEOREM TypeCorrect == Spec => []TypeOK
<1>1. IInv => TypeOK
      BY DEF IInv
<1> QED BY Invariance, <1>1, PTL

(* LoRaL2::status and the mode of the chip agree at every step of send() and
   in every interleaving with the interrupt handlers. *)
THEOREM StatusIsTheRadioMode == Spec => []StatusMatchesRadio
<1>1. IInv => StatusMatchesRadio
      BY DEF IInv
<1> QED BY Invariance, <1>1, PTL

(* append_fec() in loop() and decode_fec() in the interrupt never use the
   global coders at the same time. *)
THEOREM CodersHaveOneUser == Spec => []CodersNotShared
<1>1. IInv => CodersNotShared
      BY DEF IInv, FifoOwned, Sending, CodersNotShared
<1> QED BY Invariance, <1>1, PTL

(* A frame on the air is one packet that passed the length test. *)
THEOREM FramesAreSinglePackets == Spec => []OnePacketPerFrame
<1>1. ASSUME IInv, NEW s \in Stations, link[s] = "live", radio[s] = "tx"
      PROVE  Len(fifo[s]) = 1 /\ fifo[s][1] \notin Oversized
  <2>1. status[s] = "TRANSMITTING" /\ ~Sending(s)
        BY <1>1 DEF IInv, StatusMatchesRadio, FifoOwned, Sending
  <2>2. PICK p \in Payloads \ Oversized : fifo[s] = <<p>>
        BY <1>1, <2>1 DEF IInv, FifoOwned, Constructed
  <2> QED BY <2>2
<1>2. IInv => OnePacketPerFrame
      BY <1>1 DEF OnePacketPerFrame
<1> QED BY Invariance, <1>2, PTL

(* When no observer calls send() from its recv(), the status test of send()
   is all the protection lora_begin_packet() needs. *)
THEOREM StatusProtects == ~CallbackSends => (Spec => []BeginNeverRefused)
<1> SUFFICES ASSUME ~CallbackSends PROVE Spec => []BeginNeverRefused
    OBVIOUS
<1>1. IInv => BeginNeverRefused
      BY DEF IInv, StatusMatchesRadio, StepStatus, BeginNeverRefused
<1> QED BY Invariance, <1>1, PTL

------------------------------------------------------------------------------
(* The refinement: each step of the object is a step of the service or
   leaves the service as it is. *)

(* Boards that nothing was constructed on carry nothing and hear nothing. *)
LEMMA InitRefines == Init => Service!Init
<1> SUFFICES ASSUME Init PROVE Service!Init
    OBVIOUS
<1>1. ASSUME NEW s \in Stations
      PROVE  Constructed(s) = FALSE /\ Carrying(s) = NoPayload /\ Listening(s) = FALSE
      BY DEF Init, Carrying, Constructed, Listening
<1> QED BY <1>1 DEF Service!Init

(* A step of board s leaves what the other boards carry and hear. *)
LEMMA OthersKeep ==
    ASSUME NEW s \in Stations, NEW t \in Stations \ {s}, IInv,
           Lifecycle(s) \/ Application(s) \/ SendStep(s) \/ Interrupt(s)
    PROVE  /\ link'[t] = link[t] /\ status'[t] = status[t] /\ pc'[t] = pc[t]
           /\ arg'[t] = arg[t] /\ radio'[t] = radio[t] /\ fifo'[t] = fifo[t]
<1> USE DEF IInv, TypeOK
<1>1. CASE Lifecycle(s)
      BY <1>1 DEF Lifecycle, Construct, ConstructFailed, Destroy
<1>2. CASE Application(s)
      BY <1>2 DEF Application, SendRefused, SendCall, vars
<1>3. CASE SendStep(s)
      BY <1>3 DEF SendStep, BeginRefused, BeginPacket, Encode, MarkTransmitting,
                  FinishPacket
<1>4. CASE Interrupt(s)
      BY <1>4 DEF Interrupt, OnSent, OnRecv, OnRecvAndReply, vars
<1> QED BY <1>1, <1>2, <1>3, <1>4

(* What a step of board s does to what it carries and hears. *)
Taken(s)     == /\ Constructed(s) /\ Constructed(s)'
                /\ Carrying(s) = NoPayload /\ Carrying(s)' \in Payloads
                /\ ~Listening(s)'
Completed(s) == /\ Constructed(s) /\ Constructed(s)'
                /\ Carrying(s) # NoPayload /\ Carrying(s)' = NoPayload
                /\ Listening(s)'
Renewed(s)   == /\ Constructed(s)' = ~Constructed(s)
                /\ Carrying(s)' = NoPayload /\ ~Listening(s)'
Kept(s)      == /\ Constructed(s)' = Constructed(s)
                /\ Carrying(s)' = Carrying(s) /\ Listening(s)' = Listening(s)

(* Construction and deletion renew the station. *)
LEMMA LifecycleRefines ==
    ASSUME IInv, NEW s \in Stations, Lifecycle(s) PROVE Renewed(s)
<1> USE DEF IInv, TypeOK, LinkOwned, Renewed, Constructed, Carrying, Listening, Sending
<1>1. CASE Construct(s)
      BY <1>1 DEF Construct
<1>2. CASE ConstructFailed(s)
      BY <1>2 DEF ConstructFailed
<1>3. CASE Destroy(s)
      BY <1>3 DEF Destroy
<1> QED BY <1>1, <1>2, <1>3 DEF Lifecycle

(* Of the steps of send(), the one that gets the chip takes the packet and
   the others are invisible to the service. *)
LEMMA SendRefines ==
    ASSUME IInv, IInv', NEW s \in Stations, Application(s) \/ SendStep(s)
    PROVE  Taken(s) \/ Kept(s)
<1> USE DEF IInv, TypeOK, Constructed, Carrying, Listening, Sending,
            ArgOwned, StepStatus, LinkOwned, SendSteps, Links
<1>1. CASE Application(s)
      BY <1>1 DEF Application, SendRefused, SendCall, Kept, vars
<1>2. CASE BeginRefused(s)
      BY <1>2 DEF BeginRefused, Kept
<1>3. CASE BeginPacket(s)
      BY <1>3 DEF BeginPacket, Quiesced, Taken
<1>4. CASE Encode(s)
      BY <1>4 DEF Encode, Kept
<1>5. CASE MarkTransmitting(s)
      BY <1>5 DEF MarkTransmitting, Kept
<1>6. CASE FinishPacket(s)
      BY <1>6 DEF FinishPacket, Launched, Kept, FifoOwned
<1> QED BY <1>1, <1>2, <1>3, <1>4, <1>5, <1>6 DEF SendStep

(* on_sent() completes what the station carries; on_recv() takes the
   observer's answer, if it sends one. *)
LEMMA InterruptRefines ==
    ASSUME IInv, IInv', NEW s \in Stations, Interrupt(s)
    PROVE  Taken(s) \/ Completed(s) \/ Kept(s)
<1> USE DEF IInv, TypeOK, Constructed, Carrying, Listening, Sending,
            StatusMatchesRadio, FifoOwned
<1>1. CASE OnSent(s)
      BY <1>1, PayloadAssumption DEF OnSent, ResumeRx, Completed
<1>2. CASE OnRecv(s)
      BY <1>2 DEF OnRecv, vars, Kept
<1>3. ASSUME NEW p \in Payloads, OnRecvAndReply(s, p) PROVE Taken(s)
      BY <1>3 DEF OnRecvAndReply, Refusable, Taken
<1> QED BY <1>1, <1>2, <1>3 DEF Interrupt

(* A step of the boards is a step of the service. *)
LEMMA StepRefines ==
    ASSUME IInv, [Next]_vars
    PROVE  [Service!Next]_Service!serviceVars
<1> USE DEF Service!serviceVars
<1>1. CASE UNCHANGED vars
      BY <1>1 DEF vars, Carrying, Listening, Constructed, Sending
<1>2. ASSUME NEW s \in Stations,
             Lifecycle(s) \/ Application(s) \/ SendStep(s) \/ Interrupt(s)
      PROVE  [Service!Next]_Service!serviceVars
  <2>1. IInv'
        BY <1>2, StepPreserves DEF Next
  <2>2. \A t \in Stations \ {s} :
            /\ Constructed(t)' = Constructed(t)
            /\ Carrying(t)' = Carrying(t)
            /\ Listening(t)' = Listening(t)
        BY <1>2, OthersKeep DEF Constructed, Carrying, Listening, Sending
  <2> DEFINE up == [t \in Stations |-> Constructed(t)]
             carrying == [t \in Stations |-> Carrying(t)]
             listening == [t \in Stations |-> Listening(t)]
  <2>3. ASSUME NEW x, Constructed(s)' = x PROVE up' = [up EXCEPT ![s] = x]
        BY <2>2, <2>3
  <2>4. ASSUME NEW x, Carrying(s)' = x PROVE carrying' = [carrying EXCEPT ![s] = x]
        BY <2>2, <2>4
  <2>5. ASSUME NEW x, Listening(s)' = x PROVE listening' = [listening EXCEPT ![s] = x]
        BY <2>2, <2>5
  <2>6. /\ Constructed(s) = up[s] /\ Carrying(s) = carrying[s]
        /\ Constructed(s)' \in BOOLEAN /\ Listening(s)' \in BOOLEAN
        /\ Constructed(s) \in BOOLEAN /\ Listening(s) \in BOOLEAN
        BY DEF Constructed, Listening
  <2>7. CASE Taken(s)
    <3>1. Constructed(s)' = Constructed(s) /\ Listening(s)' = FALSE
          BY <2>6, <2>7 DEF Taken
    <3>2. up' = up
          BY <2>2, <3>1
    <3>3. listening' = [listening EXCEPT ![s] = FALSE]
          BY <2>5, <3>1
    <3>4. PICK p \in Payloads : carrying' = [carrying EXCEPT ![s] = p]
          BY <2>4, <2>7 DEF Taken
    <3>5. Service!Take(s, p)
          BY <2>6, <2>7, <3>2, <3>3, <3>4 DEF Taken, Service!Take
    <3> QED BY <3>5 DEF Service!Next
  <2>8. CASE Completed(s)
    <3>1. Constructed(s)' = Constructed(s) /\ Listening(s)' = TRUE
          BY <2>6, <2>8 DEF Completed
    <3>2. up' = up
          BY <2>2, <3>1
    <3>3. listening' = [listening EXCEPT ![s] = TRUE]
          BY <2>5, <3>1
    <3>4. carrying' = [carrying EXCEPT ![s] = NoPayload]
          BY <2>4, <2>8 DEF Completed
    <3>5. Service!Complete(s)
          BY <2>6, <2>8, <3>2, <3>3, <3>4 DEF Completed, Service!Complete
    <3> QED BY <3>5 DEF Service!Next
  <2>9. CASE Renewed(s)
    <3>1. Listening(s)' = FALSE
          BY <2>6, <2>9 DEF Renewed
    <3>2. up' = [up EXCEPT ![s] = ~up[s]]
          BY <2>3, <2>6, <2>9 DEF Renewed
    <3>3. listening' = [listening EXCEPT ![s] = FALSE]
          BY <2>5, <3>1
    <3>4. carrying' = [carrying EXCEPT ![s] = NoPayload]
          BY <2>4, <2>9 DEF Renewed
    <3>5. Service!Renew(s)
          BY <3>2, <3>3, <3>4 DEF Service!Renew
    <3> QED BY <3>5 DEF Service!Next
  <2>10. CASE Kept(s)
        BY <2>2, <2>10 DEF Kept
  <2> QED BY <1>2, <2>1, <2>7, <2>8, <2>9, <2>10, LifecycleRefines, SendRefines,
             InterruptRefines
<1> QED BY <1>1, <1>2 DEF Next

(* The object below the API implements what the API promises. *)
THEOREM Refinement == Spec => ImplementsService
<1>1. IInv /\ [Next]_vars => [Service!Next]_Service!serviceVars
      BY StepRefines
<1> QED BY InitRefines, Invariance, <1>1, PTL DEF Spec, ImplementsService, Service!Spec
==============================================================================
