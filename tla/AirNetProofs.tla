----------------------------- MODULE AirNetProofs -----------------------------
(***************************************************************************)
(* Proofs about AirNet, for every set of stations, ranges, keys and bounds *)
(* and for observers that do and do not answer from their recv().          *)
(***************************************************************************)
EXTENDS AirNet, LinkLayerProofs

(* Appending one element: the old ones keep their places, the new one is
   last. *)
LEMMA AppendFacts ==
    ASSUME NEW S, NEW q \in Seq(S), NEW e \in S
    PROVE  /\ Append(q, e) \in Seq(S) /\ Append(q, e) # <<>>
           /\ Len(q) \in Nat /\ Len(Append(q, e)) = Len(q) + 1
           /\ DOMAIN q = 1 .. Len(q) /\ DOMAIN Append(q, e) = 1 .. Len(q) + 1
           /\ \A i \in 1 .. Len(q) : Append(q, e)[i] = q[i]
           /\ Append(q, e)[Len(q) + 1] = e
OBVIOUS

(* Numbers and packets once sent stay what they are. *)
LEMMA SentGrows ==
    ASSUME sent \in [Stations -> Seq(Payloads)], NEW s \in Stations, NEW p \in Payloads,
           sent' = [sent EXCEPT ![s] = Append(@, p)]
    PROVE  /\ sent' \in [Stations -> Seq(Payloads)]
           /\ sent'[s] # <<>> /\ Len(sent'[s]) = Len(sent[s]) + 1
           /\ sent'[s][Len(sent'[s])] = p
           /\ \A t \in Stations : t # s => sent'[t] = sent[t]
           /\ \A t \in Stations : sent[t] # <<>> => sent'[t] # <<>>
           /\ \A t \in Stations : \A n \in DOMAIN sent[t] :
                  n \in DOMAIN sent'[t] /\ sent'[t][n] = sent[t][n]
<1>1. sent[s] \in Seq(Payloads) /\ sent'[s] = Append(sent[s], p)
      OBVIOUS
<1>2. \A t \in Stations : t # s => sent'[t] = sent[t]
      OBVIOUS
<1>3. /\ sent'[s] \in Seq(Payloads) /\ sent'[s] # <<>>
      /\ Len(sent[s]) \in Nat /\ Len(sent'[s]) = Len(sent[s]) + 1
      /\ DOMAIN sent[s] = 1 .. Len(sent[s]) /\ DOMAIN sent'[s] = 1 .. Len(sent[s]) + 1
      /\ \A i \in 1 .. Len(sent[s]) : sent'[s][i] = sent[s][i]
      /\ sent'[s][Len(sent[s]) + 1] = p
      BY <1>1, AppendFacts
<1> QED BY <1>2, <1>3

(* Nothing on the air before the first station is set up. *)
LEMMA NetInitEstablishes == NetInit => NetInv
<1> SUFFICES ASSUME NetInit PROVE NetInv
    OBVIOUS
<1>1. IInv
      BY InitEstablishes DEF NetInit
<1>2. \A s \in Stations : sent[s] = <<>> /\ got[s] = <<>> /\ tuned[s] = {}
                          /\ inbox[s] = NoFrame
      BY DEF NetInit
<1>3. NetTypeOK
      BY <1>1, AirAssumption DEF NetInit, NetTypeOK, IInv
<1> QED BY <1>1, <1>2, <1>3
        DEF NetInit, Init, NetInv, OnAirKnown, GotKnown, TunedKnown, FrameKnown

------------------------------------------------------------------------------
(* The stations of the network are stations of LinkLayer.                   *)

(* Every step but a reset is a step of the link layer. *)
LEMMA StationIsLink ==
    ASSUME NEW s \in Stations, Station(s) PROVE Next \/ UNCHANGED vars
<1>1. CASE SetUp(s)
      BY <1>1 DEF SetUp, Next, Lifecycle
<1>2. CASE Call(s) \/ Refuse(s)
      BY <1>2 DEF Call, Refuse, Next, Application
<1>3. CASE Begin(s) \/ Prepare(s) \/ Transmit(s)
      BY <1>3 DEF Begin, Prepare, Transmit, Next, SendStep
<1>4. CASE End(s) \/ Receive(s)
      BY <1>4 DEF End, Receive, Next, Interrupt
<1>5. CASE ReceiveAndReply(s)
      BY <1>5 DEF ReceiveAndReply, Next, Interrupt
<1> QED BY <1>1, <1>2, <1>3, <1>4, <1>5 DEF Station

(* A reset station satisfies the link layer's invariant. *)
LEMMA RebootKeepsLink ==
    ASSUME IInv, NEW s \in Stations, Reboot(s) PROVE IInv'
BY DEF Reboot, IInv, TypeOK, StatusMatchesRadio, ArgOwned, LinkOwned, FifoOwned,
       StepStatus, Constructed, Sending, Links, Statuses, SendSteps, RadioModes

(* Whatever a station does, or a reset of it, keeps the invariant of the
   link layers. *)
LEMMA LinkKept ==
    ASSUME IInv, NEW s \in Stations, Station(s) \/ Reboot(s) PROVE IInv'
BY StationIsLink, StepPreserves, RebootKeepsLink

------------------------------------------------------------------------------
(* Each kind of step keeps the network's invariant.                         *)

(* Steps that nobody on the air notices. *)
LEMMA QuietPreserves ==
    ASSUME NetInv, NEW s \in Stations, SetUp(s) \/ Call(s) \/ Refuse(s) \/ Prepare(s)
    PROVE  NetInv'
<1>1. UNCHANGED <<airVars, reboots>>
      BY DEF SetUp, Call, Refuse, Prepare
<1>2. IInv'
      BY LinkKept DEF NetInv, Station
<1>3. /\ link[s] = "absent" /\ radio[s] = "standby" /\ radio'[s] \in {"standby", "off"}
         /\ link'[s] \in {"live", "failed"}
      \/ UNCHANGED <<radio, fifo, link>>
      BY DEF NetInv, IInv, TypeOK, LinkOwned, SetUp, Construct, ConstructFailed, Call,
             Refuse, Prepare, SendCall, SendRefused, BeginRefused, Encode,
             MarkTransmitting, vars
<1>4. \A t \in Stations \ {s} : radio'[t] = radio[t] /\ fifo'[t] = fifo[t]
                                /\ link'[t] = link[t]
      BY DEF NetInv, IInv, TypeOK, SetUp, Construct, ConstructFailed, Call,
             Refuse, Prepare, SendCall, SendRefused, BeginRefused, Encode,
             MarkTransmitting, vars
<1>5. NetTypeOK'
      BY <1>1, <1>2 DEF NetInv, NetTypeOK, airVars, IInv
<1>6. ASSUME NEW t \in Stations PROVE OnAirKnown(t)' /\ GotKnown(t)'
      BY <1>1, <1>3, <1>4 DEF NetInv, OnAirKnown, GotKnown, airVars
<1>7. ASSUME NEW u \in Stations, NEW t \in Stations PROVE TunedKnown(u, t)'
      BY <1>1, <1>3, <1>4 DEF NetInv, TunedKnown, Older, airVars
<1>8. ASSUME NEW t \in Stations PROVE FrameKnown(t, inbox[t])'
      BY <1>1, <1>3, <1>4 DEF NetInv, FrameKnown, Older, airVars
<1> QED BY <1>2, <1>5, <1>6, <1>7, <1>8 DEF NetInv

(* A station that takes the chip for its own packet loses what it was
   receiving, and nothing else changes. *)
LEMMA BeginPreserves ==
    ASSUME NetInv, NEW s \in Stations, Begin(s) PROVE NetInv'
<1>1. IInv'
      BY LinkKept DEF NetInv, Station
<1>2. /\ UNCHANGED <<sent, got, reboots, link>>
      /\ radio' = [radio EXCEPT ![s] = Quiesced(@)] /\ radio[s] # "tx"
      /\ fifo' = [fifo EXCEPT ![s] = <<>>]
      BY DEF Begin, BeginPacket
<1>3. Deafened(s)
      BY DEF Begin
<1>4. NetTypeOK'
      BY <1>1, <1>2, <1>3 DEF NetInv, NetTypeOK, IInv, Deafened
<1>5. ASSUME NEW t \in Stations PROVE OnAirKnown(t)' /\ GotKnown(t)'
      BY <1>2 DEF NetInv, IInv, TypeOK, OnAirKnown, GotKnown, Quiesced
<1>6. ASSUME NEW u \in Stations, NEW t \in Stations PROVE TunedKnown(u, t)'
      BY <1>2, <1>3 DEF NetInv, NetTypeOK, IInv, TypeOK, TunedKnown, Older, Deafened
<1>7. ASSUME NEW t \in Stations PROVE FrameKnown(t, inbox[t])'
      BY <1>2, <1>3 DEF NetInv, NetTypeOK, IInv, TypeOK, FrameKnown, Older, Deafened
<1> QED BY <1>1, <1>4, <1>5, <1>6, <1>7 DEF NetInv

(* What a frame that ends, whole or cut short, leaves in the chips. *)
LEMMA LandedKnown ==
    ASSUME NetInv, NEW s \in Stations, NEW cut \in BOOLEAN, NEW t \in Stations
    PROVE  /\ Landed(s, cut)[t] \in Frames \cup {NoFrame}
           /\ FrameKnown(t, Landed(s, cut)[t])
           /\ \/ Landed(s, cut)[t] = inbox[t]
              \/ (t \in tuned[s] /\ Landed(s, cut)[t].src = s)
<1>1. CASE t \notin tuned[s]
      BY <1>1 DEF Landed, NetInv, NetTypeOK
<1>2. CASE t \in tuned[s]
  <2>1. Landed(s, cut)[t] = [src |-> s, n |-> Len(sent[s]), packet |-> fifo[s][1],
                             spoilt |-> cut \/ t \in spoilt[s]]
        BY <1>2 DEF Landed, FrameOf
  <2>2. TunedKnown(s, t) /\ OnAirKnown(s)
        BY DEF NetInv
  <2>3. sent[s] \in Seq(Payloads) /\ sent[s] # <<>>
        BY <1>2, <2>2 DEF NetInv, NetTypeOK, TunedKnown, OnAirKnown
  <2>4. Len(sent[s]) \in DOMAIN sent[s] /\ Len(sent[s]) \in Nat
        /\ sent[s][Len(sent[s])] \in Payloads
        BY <2>3
  <2>5. fifo[s][1] = sent[s][Len(sent[s])]
        BY <1>2, <2>2 DEF TunedKnown, OnAirKnown
  <2>6. Landed(s, cut)[t] \in Frames
        BY <2>1, <2>4, <2>5 DEF Frames
  <2> QED BY <1>2, <2>1, <2>2, <2>4, <2>5, <2>6 DEF FrameKnown, TunedKnown
<1> QED BY <1>1, <1>2

(* At the end of a transmission the frame is with those who received it. *)
LEMMA EndPreserves ==
    ASSUME NetInv, NEW s \in Stations, End(s) PROVE NetInv'
<1>1. IInv'
      BY LinkKept DEF NetInv, Station
<1>2. /\ UNCHANGED <<sent, got, reboots, link, fifo>>
      /\ radio[s] = "tx" /\ radio' = [radio EXCEPT ![s] = "rx"]
      /\ inbox' = Landed(s, FALSE)
      /\ tuned' = [tuned EXCEPT ![s] = {}] /\ spoilt' = [spoilt EXCEPT ![s] = {}]
      BY DEF End, OnSent, ResumeRx
<1>3. NetTypeOK'
  <2>1. inbox' \in [Stations -> Frames \cup {NoFrame}]
        BY <1>2, LandedKnown DEF Landed
  <2> QED BY <1>1, <1>2, <2>1 DEF NetInv, NetTypeOK, IInv
<1>4. ASSUME NEW t \in Stations PROVE OnAirKnown(t)' /\ GotKnown(t)'
      BY <1>2 DEF NetInv, IInv, TypeOK, OnAirKnown, GotKnown
<1>5. ASSUME NEW u \in Stations, NEW t \in Stations PROVE TunedKnown(u, t)'
  <2>1. inbox'[t] = inbox[t] \/ (t \in tuned[s] /\ inbox'[t].src = s)
        BY <1>2, LandedKnown
  <2> QED BY <1>2, <2>1 DEF NetInv, NetTypeOK, IInv, TypeOK, TunedKnown, Older
<1>6. ASSUME NEW t \in Stations PROVE FrameKnown(t, inbox[t])'
  <2>1. FrameKnown(t, inbox'[t])
        BY <1>2, LandedKnown
  <2> QED BY <1>2, <2>1 DEF NetInv, NetTypeOK, IInv, TypeOK, FrameKnown, Older
<1> QED BY <1>1, <1>3, <1>4, <1>5, <1>6 DEF NetInv

(* A reset cuts the station's own frame short and loses what it received. *)
LEMMA RebootPreserves ==
    ASSUME NetInv, NEW s \in Stations, Reboot(s) PROVE NetInv'
<1>1. IInv'
      BY LinkKept DEF NetInv
<1>2. /\ UNCHANGED <<sent, got>> /\ reboots' = reboots + 1
      /\ link' = [link EXCEPT ![s] = "absent"]
      /\ radio' = [radio EXCEPT ![s] = "standby"]
      /\ fifo' = [fifo EXCEPT ![s] = <<>>]
      /\ inbox' = [Landed(s, TRUE) EXCEPT ![s] = NoFrame]
      /\ tuned' = [u \in Stations |-> IF u = s THEN {} ELSE tuned[u] \ {s}]
      /\ spoilt' = [u \in Stations |-> IF u = s THEN {} ELSE spoilt[u] \ {s}]
      BY DEF Reboot
<1>3. \A t \in Stations : inbox'[t] = IF t = s THEN NoFrame ELSE Landed(s, TRUE)[t]
      BY <1>2 DEF Landed
<1>4. NetTypeOK'
  <2>1. Landed(s, TRUE) \in [Stations -> Frames \cup {NoFrame}]
        BY LandedKnown DEF Landed
  <2>2. inbox' \in [Stations -> Frames \cup {NoFrame}]
        BY <1>2, <2>1
  <2>3. reboots' \in Nat
        BY <1>2 DEF NetInv, NetTypeOK
  <2>4. tuned' \in [Stations -> SUBSET Stations] /\ spoilt' \in [Stations -> SUBSET Stations]
        BY <1>2 DEF NetInv, NetTypeOK
  <2> QED BY <1>1, <1>2, <2>2, <2>3, <2>4 DEF NetInv, NetTypeOK, IInv
<1>5. ASSUME NEW t \in Stations PROVE OnAirKnown(t)' /\ GotKnown(t)'
      BY <1>2 DEF NetInv, IInv, TypeOK, OnAirKnown, GotKnown
<1>6. ASSUME NEW u \in Stations, NEW t \in Stations PROVE TunedKnown(u, t)'
  <2>1. \/ inbox'[t] = NoFrame \/ inbox'[t] = inbox[t]
        \/ (t \in tuned[s] /\ inbox'[t].src = s)
    <3>1. inbox'[t] = NoFrame \/ inbox'[t] = Landed(s, TRUE)[t]
          BY <1>3
    <3>2. Landed(s, TRUE)[t] = inbox[t] \/ (t \in tuned[s] /\ Landed(s, TRUE)[t].src = s)
          BY LandedKnown
    <3> QED BY <3>1, <3>2
  <2> SUFFICES ASSUME t \in tuned'[u] PROVE TunedKnown(u, t)'
        BY DEF TunedKnown
  <2>2. u # s /\ t # s /\ t \in tuned[u]
        BY <1>2
  <2>3. /\ radio'[u] = radio[u] /\ radio'[t] = radio[t]
        /\ sent' = sent /\ got' = got
        BY <1>2, <2>2 DEF NetInv, IInv, TypeOK
  <2>4. TunedKnown(u, t)
        BY DEF NetInv
  <2>5. inbox'[t] = NoFrame \/ inbox'[t] = inbox[t] \/ inbox'[t].src # u
        BY <2>1, <2>2
  <2> QED BY <2>2, <2>3, <2>4, <2>5 DEF TunedKnown, Older
<1>7. ASSUME NEW t \in Stations PROVE FrameKnown(t, inbox[t])'
  <2>1. t # s => FrameKnown(t, inbox'[t])
        BY <1>3, LandedKnown
  <2> QED BY <1>2, <1>3, <2>1
          DEF NetInv, NetTypeOK, IInv, TypeOK, FrameKnown, Older
<1> QED BY <1>1, <1>4, <1>5, <1>6, <1>7 DEF NetInv

(* What an observer is given is newer than all it was given from that sender,
   and is what was sent or noise. *)
LEMMA GiveKnown ==
    ASSUME NetInv, NEW t \in Stations, Give(t)
    PROVE  /\ inbox' = [inbox EXCEPT ![t] = NoFrame]
           /\ got' \in [Stations -> Seq(Reports)]
           /\ \A u \in Stations : u # t => got'[u] = got[u]
           /\ \A i \in DOMAIN got'[t] : got'[t][i].n \in DOMAIN sent[got'[t][i].src]
           /\ \A u \in Stations : t \in tuned[u] =>
                  \A i \in DOMAIN got'[t] :
                      got'[t][i].src = u => got'[t][i].n < Len(sent[u])
           /\ \E u \in Stations : \E n \in DOMAIN sent[u] :
                  \E what \in {sent[u][n], Noise} :
                      /\ u # t /\ Older(t, u, n)
                      /\ got' = [got EXCEPT ![t] =
                                     Append(@, [src |-> u, n |-> n, packet |-> what])]
<1> DEFINE f == inbox[t]
           e(what) == [src |-> f.src, n |-> f.n, packet |-> what]
<1>1. /\ f \in Frames /\ FrameKnown(t, f) /\ f # NoFrame
      /\ inbox' = [inbox EXCEPT ![t] = NoFrame]
      BY DEF Give, NetInv, NetTypeOK
<1>2. PICK what \in Outcomes(t, f) : got' = [got EXCEPT ![t] = Append(@, e(what))]
      BY DEF Give
<1>3. /\ f.src \in Stations /\ f.n \in DOMAIN sent[f.src] /\ f.n \in Nat /\ f.src # t
      /\ f.packet = sent[f.src][f.n] /\ f.packet \in Payloads /\ Older(t, f.src, f.n)
      BY <1>1 DEF Frames, FrameKnown
<1>4. what \in {sent[f.src][f.n], Noise}
      BY <1>2, <1>3 DEF Outcomes
<1>5. e(what) \in Reports
      BY <1>3, <1>4 DEF Reports
<1>6. got[t] \in Seq(Reports) /\ got \in [Stations -> Seq(Reports)]
      BY DEF NetInv, NetTypeOK
<1>7. got'[t] = Append(got[t], e(what))
      BY <1>2, <1>6
<1>8. /\ got'[t] \in Seq(Reports)
      /\ Len(got[t]) \in Nat
      /\ DOMAIN got[t] = 1 .. Len(got[t]) /\ DOMAIN got'[t] = 1 .. Len(got[t]) + 1
      /\ \A i \in 1 .. Len(got[t]) : got'[t][i] = got[t][i]
      /\ got'[t][Len(got[t]) + 1] = e(what)
      BY <1>5, <1>6, <1>7, AppendFacts
<1> HIDE DEF f, e
<1>9. \A i \in DOMAIN got'[t] :
          \/ i \in DOMAIN got[t] /\ got'[t][i] = got[t][i]
          \/ got'[t][i] = e(what)
      BY <1>8
<1>10. got' \in [Stations -> Seq(Reports)] /\ \A u \in Stations : u # t => got'[u] = got[u]
       BY <1>2, <1>6, <1>8
<1>11. \A i \in DOMAIN got'[t] : got'[t][i].n \in DOMAIN sent[got'[t][i].src]
       BY <1>3, <1>9 DEF NetInv, GotKnown, e
<1>12. ASSUME NEW u \in Stations, t \in tuned[u], NEW i \in DOMAIN got'[t],
              got'[t][i].src = u
       PROVE  got'[t][i].n < Len(sent[u])
  <2>1. TunedKnown(u, t)
        BY DEF NetInv
  <2>2. CASE i \in DOMAIN got[t] /\ got'[t][i] = got[t][i]
        BY <1>12, <2>1, <2>2 DEF TunedKnown, Older
  <2>3. CASE got'[t][i] = e(what)
        BY <1>1, <1>12, <2>1, <2>3 DEF TunedKnown, e, f
  <2> QED BY <1>9, <2>2, <2>3
<1> QED BY <1>1, <1>2, <1>3, <1>4, <1>10, <1>11, <1>12 DEF e

(* A reception that is not answered. *)
LEMMA ReceivePreserves ==
    ASSUME NetInv, NEW s \in Stations, Receive(s) PROVE NetInv'
<1>1. IInv'
      BY LinkKept DEF NetInv, Station
<1>2. /\ UNCHANGED <<sent, tuned, spoilt, reboots, link, radio, fifo>>
      /\ Give(s) /\ radio[s] = "rx"
      BY DEF Receive, OnRecv, vars
<1>3. NetTypeOK'
      BY <1>1, <1>2, GiveKnown DEF NetInv, NetTypeOK, IInv
<1>4. ASSUME NEW t \in Stations PROVE OnAirKnown(t)' /\ GotKnown(t)'
  <2>1. t = s \/ got'[t] = got[t]
        BY <1>2, GiveKnown
  <2>2. sent[s] # <<>>
        BY <1>2 DEF NetInv, OnAirKnown
  <2> QED BY <1>2, <2>1, <2>2, GiveKnown DEF NetInv, OnAirKnown, GotKnown
<1>5. ASSUME NEW u \in Stations, NEW t \in Stations PROVE TunedKnown(u, t)'
  <2>1. CASE t = s
        BY <1>2, <2>1, GiveKnown DEF NetInv, NetTypeOK, TunedKnown, Older
  <2>2. CASE t # s
        BY <1>2, <2>2, GiveKnown DEF NetInv, NetTypeOK, TunedKnown, Older
  <2> QED BY <2>1, <2>2
<1>6. ASSUME NEW t \in Stations PROVE FrameKnown(t, inbox[t])'
  <2>1. CASE t = s
        BY <1>2, <2>1, GiveKnown DEF NetInv, NetTypeOK, FrameKnown
  <2>2. CASE t # s
    <3>1. inbox'[t] = inbox[t] /\ got'[t] = got[t]
          BY <1>2, <2>2, GiveKnown DEF NetInv, NetTypeOK
    <3> QED BY <1>2, <3>1 DEF NetInv, FrameKnown, Older
  <2> QED BY <2>1, <2>2
<1> QED BY <1>1, <1>3, <1>4, <1>5, <1>6 DEF NetInv

(* A station that puts a packet on the air, from loop() or from the observer:
   to those who receive it the packet is newer than all they were given. *)
LEMMA LaunchPreserves ==
    ASSUME NetInv, IInv', NEW s \in Stations, NEW p \in Payloads, Launch(s, p),
           radio' = [radio EXCEPT ![s] = "tx"], fifo' = [fifo EXCEPT ![s] = <<p>>],
           link' = link, reboots' = reboots, link[s] # "deleted",
           inbox' = [inbox EXCEPT ![s] = NoFrame],
           got' \in [Stations -> Seq(Reports)],
           \A t \in Stations : t # s => got'[t] = got[t],
           \A i \in DOMAIN got'[s] : got'[s][i].n \in DOMAIN sent[got'[s][i].src]
    PROVE  NetInv'
<1>1. /\ sent' \in [Stations -> Seq(Payloads)]
      /\ sent'[s] # <<>> /\ Len(sent'[s]) = Len(sent[s]) + 1
      /\ sent'[s][Len(sent'[s])] = p
      /\ \A t \in Stations : t # s => sent'[t] = sent[t]
      /\ \A t \in Stations : sent[t] # <<>> => sent'[t] # <<>>
      /\ \A t \in Stations : \A n \in DOMAIN sent[t] :
             n \in DOMAIN sent'[t] /\ sent'[t][n] = sent[t][n]
      BY SentGrows DEF NetInv, NetTypeOK, Launch
<1>2. PICK listeners \in SUBSET Stations :
          /\ \A t \in listeners : radio[t] = "rx" /\ t # s
          /\ tuned' = [u \in Stations |-> IF u = s THEN listeners ELSE tuned[u] \ {s}]
      BY AirAssumption DEF Launch, InRange
<1>3. spoilt' \in [Stations -> SUBSET Stations]
      BY DEF Launch, InRange, NetInv, NetTypeOK
<1>4. NetTypeOK'
      BY <1>1, <1>2, <1>3 DEF NetInv, NetTypeOK, IInv
<1>5. ASSUME NEW t \in Stations PROVE GotKnown(t)'
  <2>1. \A i \in DOMAIN got'[t] : got'[t][i].n \in DOMAIN sent[got'[t][i].src]
                                  /\ got'[t][i].src \in Stations
    <3>1. got'[t] \in Seq(Reports)
          OBVIOUS
    <3>2. \A i \in DOMAIN got'[t] : got'[t][i] \in Reports
          BY <3>1
    <3> QED BY <3>2 DEF NetInv, GotKnown, Reports
  <2>2. got'[t] # <<>> => sent'[t] # <<>>
        BY <1>1 DEF NetInv, GotKnown
  <2> QED BY <1>1, <2>1, <2>2 DEF GotKnown
<1>6. ASSUME NEW t \in Stations PROVE OnAirKnown(t)'
      BY <1>1 DEF NetInv, IInv, TypeOK, OnAirKnown
<1>7. ASSUME NEW u \in Stations, NEW t \in Stations PROVE TunedKnown(u, t)'
  <2>1. CASE u # s
    <3>1. SUFFICES ASSUME t \in tuned'[u] PROVE TunedKnown(u, t)'
          BY DEF TunedKnown
    <3>2. t # s /\ t \in tuned[u]
          BY <1>2, <2>1, <3>1
    <3>3. /\ radio'[u] = radio[u] /\ radio'[t] = radio[t]
          /\ sent'[u] = sent[u] /\ got'[t] = got[t] /\ inbox'[t] = inbox[t]
          BY <1>1, <2>1, <3>2 DEF NetInv, NetTypeOK, IInv, TypeOK
    <3>4. TunedKnown(u, t)
          BY DEF NetInv
    <3> QED BY <3>2, <3>3, <3>4 DEF TunedKnown, Older
  <2>2. CASE u = s
    <3>1. SUFFICES ASSUME t \in tuned'[s] PROVE TunedKnown(s, t)'
          BY <2>2 DEF TunedKnown
    <3>2. t # s /\ radio[t] = "rx" /\ radio'[t] = "rx" /\ radio'[s] = "tx"
          BY <1>2, <3>1 DEF NetInv, IInv, TypeOK
    <3>3. sent[s] \in Seq(Payloads) /\ Len(sent[s]) \in Nat
          BY DEF NetInv, NetTypeOK
    <3>4. \A n \in DOMAIN sent[s] : n < Len(sent'[s])
          BY <1>1, <3>3
    <3>5. got'[t] = got[t] /\ inbox'[t] = inbox[t]
          BY <3>2 DEF NetInv, NetTypeOK
    <3>6. Older(t, s, Len(sent[s]))'
          BY <3>4, <3>5 DEF NetInv, GotKnown, Older
    <3> QED BY <3>2, <3>4, <3>5, <3>6 DEF NetInv, FrameKnown, TunedKnown
  <2> QED BY <2>1, <2>2
<1>8. ASSUME NEW t \in Stations PROVE FrameKnown(t, inbox[t])'
  <2>1. CASE t = s
        BY <2>1 DEF NetInv, NetTypeOK, FrameKnown
  <2>2. CASE t # s
    <3>1. inbox'[t] = inbox[t] /\ got'[t] = got[t] /\ radio'[t] = radio[t]
          BY <2>2 DEF NetInv, NetTypeOK, IInv, TypeOK
    <3>2. inbox[t] # NoFrame => inbox[t].src \in Stations
          BY DEF NetInv, NetTypeOK, Frames
    <3> DEFINE f == inbox[t]
    <3>3. ASSUME f # NoFrame
          PROVE  /\ radio[t] = "rx" /\ f.src # t /\ Older(t, f.src, f.n)
                 /\ f.n \in DOMAIN sent[f.src] /\ f.packet = sent[f.src][f.n]
          BY <3>3 DEF NetInv, FrameKnown
    <3>4. ASSUME f # NoFrame
          PROVE  f.n \in DOMAIN sent'[f.src] /\ f.packet = sent'[f.src][f.n]
          BY <1>1, <3>2, <3>3, <3>4
    <3> QED BY <3>1, <3>3, <3>4 DEF FrameKnown, Older
  <2> QED BY <2>1, <2>2
<1> QED BY <1>4, <1>5, <1>6, <1>7, <1>8 DEF NetInv

(* send() reaches the chip: a failed object transmits nothing. *)
LEMMA TransmitPreserves ==
    ASSUME NetInv, NEW s \in Stations, Transmit(s) PROVE NetInv'
<1>1. IInv'
      BY LinkKept DEF NetInv, Station
<1>2. /\ link' = link /\ reboots' = reboots /\ inbox' = inbox /\ got' = got
      /\ radio' = [radio EXCEPT ![s] = Launched(@)]
      /\ arg[s] \in Payloads /\ fifo' = [fifo EXCEPT ![s] = <<arg[s]>>]
      /\ radio[s] \in {"standby", "off"}
  <2>1. FinishPacket(s) /\ ArgOwned(s) /\ FifoOwned(s)
        BY DEF Transmit, NetInv, IInv
  <2>2. arg[s] \in Payloads /\ fifo[s] = <<>> /\ radio[s] \in {"standby", "off"}
        BY <2>1 DEF FinishPacket, ArgOwned, FifoOwned, Sending
  <2>3. Append(<<>>, arg[s]) = <<arg[s]>>
        BY <2>2
  <2> QED BY <2>1, <2>2, <2>3 DEF FinishPacket, Transmit
<1>3. CASE radio[s] = "off"
  <2>1. UNCHANGED <<sent, tuned, spoilt, radio>>
        BY <1>2, <1>3 DEF Transmit, Launched, NetInv, IInv, TypeOK
  <2>2. NetTypeOK'
        BY <1>1, <1>2, <2>1 DEF NetInv, NetTypeOK, IInv
  <2> QED BY <1>1, <1>2, <1>3, <2>1, <2>2
          DEF NetInv, IInv, TypeOK, OnAirKnown, GotKnown, TunedKnown, FrameKnown, Older
<1>4. CASE radio[s] # "off"
  <2>1. radio' = [radio EXCEPT ![s] = "tx"] /\ Launch(s, arg[s])
        BY <1>2, <1>4 DEF Transmit, Launched
  <2>2. inbox[s] = NoFrame /\ link[s] # "deleted"
        BY <1>2 DEF NetInv, FrameKnown, OnAirKnown
  <2>3. /\ inbox' = [inbox EXCEPT ![s] = NoFrame] /\ got' \in [Stations -> Seq(Reports)]
        /\ \A i \in DOMAIN got'[s] : got'[s][i].n \in DOMAIN sent[got'[s][i].src]
        BY <1>2, <2>2 DEF NetInv, NetTypeOK, GotKnown
  <2> QED BY <1>1, <1>2, <2>1, <2>2, <2>3, LaunchPreserves
<1> QED BY <1>3, <1>4

(* A reception that the observer answers. *)
LEMMA ReplyPreserves ==
    ASSUME NetInv, NEW s \in Stations, ReceiveAndReply(s) PROVE NetInv'
<1>1. IInv'
      BY LinkKept DEF NetInv, Station
<1>2. PICK p \in Payloads : OnRecvAndReply(s, p) /\ Launch(s, p)
      BY DEF ReceiveAndReply
<1>3. /\ link' = link /\ reboots' = reboots /\ link[s] # "deleted"
      /\ radio' = [radio EXCEPT ![s] = "tx"] /\ fifo' = [fifo EXCEPT ![s] = <<p>>]
      BY <1>2 DEF ReceiveAndReply, OnRecvAndReply
<1>4. /\ inbox' = [inbox EXCEPT ![s] = NoFrame] /\ got' \in [Stations -> Seq(Reports)]
      /\ \A t \in Stations : t # s => got'[t] = got[t]
      /\ \A i \in DOMAIN got'[s] : got'[s][i].n \in DOMAIN sent[got'[s][i].src]
      BY GiveKnown DEF ReceiveAndReply
<1> QED BY <1>1, <1>2, <1>3, <1>4, LaunchPreserves

(* Every step of a station, of a frame in the air or of a reset keeps
   NetInv. *)
LEMMA NetStepPreserves == ASSUME NetInv, [NetNext]_netVars PROVE NetInv'
<1>1. CASE UNCHANGED netVars
      BY <1>1 DEF netVars, airVars, vars, NetInv, NetTypeOK, IInv, TypeOK, OnAirKnown,
                  GotKnown, TunedKnown, FrameKnown, Older, StatusMatchesRadio, ArgOwned,
                  LinkOwned, FifoOwned, StepStatus, Constructed, Sending
<1>2. ASSUME NEW s \in Stations, Station(s) \/ Reboot(s) PROVE NetInv'
      BY <1>2, QuietPreserves, BeginPreserves, TransmitPreserves, EndPreserves,
         ReceivePreserves, ReplyPreserves, RebootPreserves DEF Station
<1> QED BY <1>1, <1>2 DEF NetNext

(* The invariant of the network, whatever is sent, damaged, cut or reset. *)
THEOREM NetInvariance == NetSpec => []NetInv
<1>1. NetInv /\ [NetNext]_netVars => NetInv'
      BY NetStepPreserves
<1> QED BY NetInitEstablishes, <1>1, PTL DEF NetSpec

(* Stations, frames and reports keep their types. *)
THEOREM NetTypeCorrect == NetSpec => []NetTypeOK
<1>1. NetInv => NetTypeOK
      BY DEF NetInv
<1> QED BY NetInvariance, <1>1, PTL

(* A station that is receiving, or has a frame to hand over, listens and has
   not started to send. *)
THEOREM NetReceiversListen == NetSpec => []ReceiversListen
<1>1. ASSUME NetInv, NEW t \in Stations,
             inbox[t] # NoFrame \/ \E s \in Stations : t \in tuned[s]
      PROVE  /\ link[t] = "live" /\ status[t] = "RECEIVING" /\ radio[t] = "rx"
             /\ pc[t] \in {"idle", "begin"}
  <2>1. radio[t] = "rx"
        BY <1>1 DEF NetInv, TunedKnown, FrameKnown
  <2>2. link[t] = "live"
        BY <1>1, <2>1 DEF NetInv, OnAirKnown, IInv, TypeOK, LinkOwned, Links
  <2> QED BY <1>1, <2>1, <2>2 DEF NetInv, IInv, StatusMatchesRadio
<1>2. NetInv => ReceiversListen
      BY <1>1 DEF ReceiversListen
<1> QED BY NetInvariance, <1>2, PTL

(* A station that never sent a packet was never given one. *)
THEOREM NetSilentAreDeaf == NetSpec => []SilentStationsAreDeaf
<1>1. NetInv => SilentStationsAreDeaf
      BY DEF NetInv, GotKnown, FrameKnown, OnAirKnown, SilentStationsAreDeaf
<1> QED BY NetInvariance, <1>1, PTL

------------------------------------------------------------------------------
(* The refinement.                                                          *)

(* What the observer of t is given is a report of the broadcast. *)
LEMMA GiveTells ==
    ASSUME NetInv, NEW t \in Stations, Give(t)
    PROVE  \E u \in Stations : \E n \in DOMAIN sent[u] :
               \E what \in {sent[u][n], Noise} : Broadcast!Told(t, u, n, what)
<1>1. PICK u \in Stations : \E n \in DOMAIN sent[u] : \E what \in {sent[u][n], Noise} :
          /\ u # t /\ Older(t, u, n)
          /\ got' = [got EXCEPT ![t] =
                         Append(@, [src |-> u, n |-> n, packet |-> what])]
      BY GiveKnown
<1>2. PICK n \in DOMAIN sent[u] : \E what \in {sent[u][n], Noise} :
          /\ u # t /\ Older(t, u, n)
          /\ got' = [got EXCEPT ![t] =
                         Append(@, [src |-> u, n |-> n, packet |-> what])]
      BY <1>1
<1>3. \E what \in {sent[u][n], Noise} : Broadcast!Told(t, u, n, what)
      BY <1>2 DEF Older, Broadcast!Told, Broadcast!NewerThanGot
<1> QED BY <1>3

(* Every step of the network is a step of the lossy broadcast, or none. *)
LEMMA NetStepRefines ==
    ASSUME NetInv, [NetNext]_netVars
    PROVE  [Broadcast!Next]_Broadcast!broadcastVars
<1> USE DEF Broadcast!broadcastVars
<1>1. CASE UNCHANGED netVars
      BY <1>1 DEF netVars, airVars
<1>2. ASSUME NEW s \in Stations, Station(s) \/ Reboot(s)
      PROVE  [Broadcast!Next]_Broadcast!broadcastVars
  <2>1. CASE SetUp(s) \/ Call(s) \/ Refuse(s) \/ Begin(s) \/ Prepare(s) \/ End(s)
             \/ Reboot(s)
        BY <2>1 DEF SetUp, Call, Refuse, Begin, Prepare, End, Reboot, airVars
  <2>2. CASE Transmit(s)
    <3>1. arg[s] \in Payloads
          BY <2>2 DEF Transmit, FinishPacket, NetInv, IInv, ArgOwned
    <3>2. UNCHANGED <<sent, got>> \/ Broadcast!Send(s, arg[s])
          BY <2>2 DEF Transmit, Launch, Broadcast!Send
    <3> QED BY <3>1, <3>2 DEF Broadcast!Next
  <2>3. CASE Receive(s)
    <3>1. PICK u \in Stations : \E n \in DOMAIN sent[u] :
              \E what \in {sent[u][n], Noise} : Broadcast!Told(s, u, n, what)
          BY <2>3, GiveTells DEF Receive
    <3>2. UNCHANGED sent
          BY <2>3 DEF Receive
    <3>3. \E n \in DOMAIN sent[u] : \E what \in {sent[u][n], Noise} :
              Broadcast!Report(s, u, n, what)
          BY <3>1, <3>2 DEF Broadcast!Report
    <3> QED BY <3>3 DEF Broadcast!Next
  <2>4. CASE ReceiveAndReply(s)
    <3>1. PICK u \in Stations : \E n \in DOMAIN sent[u] :
              \E what \in {sent[u][n], Noise} : Broadcast!Told(s, u, n, what)
          BY <2>4, GiveTells DEF ReceiveAndReply
    <3>2. PICK p \in Payloads : sent' = [sent EXCEPT ![s] = Append(@, p)]
          BY <2>4 DEF ReceiveAndReply, Launch
    <3>3. \E n \in DOMAIN sent[u] : \E what \in {sent[u][n], Noise} :
              Broadcast!ReportAndSend(s, u, n, what, p)
          BY <3>1, <3>2 DEF Broadcast!ReportAndSend
    <3> QED BY <3>3 DEF Broadcast!Next
  <2> QED BY <1>2, <2>1, <2>2, <2>3, <2>4 DEF Station
<1> QED BY <1>1, <1>2 DEF NetNext

(* Stations on a channel that collides, damages and loses frames implement the
   lossy broadcast. *)
THEOREM NetRefinement == NetSpec => ImplementsBroadcast
<1>1. NetInit => Broadcast!Init
      BY DEF NetInit, Broadcast!Init
<1>2. NetInv /\ [NetNext]_netVars => [Broadcast!Next]_Broadcast!broadcastVars
      BY NetStepRefines
<1> QED BY NetInvariance, <1>1, <1>2, PTL
        DEF NetSpec, ImplementsBroadcast, Broadcast!Spec
==============================================================================
