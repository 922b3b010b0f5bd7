----------------------------- MODULE SketchProofs -----------------------------
(***************************************************************************)
(* Proofs about the example sketch.                                        *)
(*                                                                         *)
(* SketchNode, for any number of received packets and every set of packets *)
(* the sketch may send: a board running the sketch is a board of           *)
(* LinkLayer, so the link layer's theorems hold of it; the handler's own   *)
(* invariant is NodeInv.                                                   *)
(*                                                                         *)
(* SendTimer, for every width of the counter, interval and duration that   *)
(* TimerAssumption admits: 2^32, 5000 and anything below 49.7 days among   *)
(* them.                                                                   *)
(***************************************************************************)
EXTENDS SketchNode, SendTimer, LinkLayerProofs

------------------------------------------------------------------------------
(* The loop and the handler.                                               *)

(* Every step of the sketch is a step of its LoRaL2 object or leaves the
   object alone. *)
LEMMA NodeStepIsLinkStep == [NodeNext]_allVars => [Next]_vars
<1> USE BoardAssumption DEF Next
<1>1. CASE Setup
      BY <1>1 DEF Setup, Lifecycle
<1>2. CASE SendError \/ SendDue
      BY <1>2 DEF SendError, SendDue, Application
<1>3. CASE Sends
      BY <1>3 DEF Sends
<1>4. CASE Arrive \/ Sent
      BY <1>4 DEF Arrive, Sent, Interrupt
<1>5. CASE NotDue \/ Handle \/ UNCHANGED allVars
      BY <1>5 DEF NotDue, Handle, TestPending, LoadPointer, ReadFirst, ReadSecond,
                  ReadPart, TestErr, ReadNumber, ReadContents, CopyContents, Show,
                  FreePacket, ClearPending, allVars, vars
<1> QED BY <1>1, <1>2, <1>3, <1>4, <1>5 DEF NodeNext, Loop

(* A behaviour of the sketch is one of its link layer. *)
LEMMA NodeIsLink == NodeSpec => Spec
<1>1. NodeInit => Init
      BY DEF NodeInit
<1> QED BY <1>1, NodeStepIsLinkStep, PTL DEF NodeSpec, Spec

(* The sketch before setup(). *)
LEMMA NodeInitEstablishes == NodeInit => NodeInv
<1> SUFFICES ASSUME NodeInit PROVE NodeInv
    OBVIOUS
<1>1. TypeOK
      BY InitEstablishes DEF NodeInit, IInv
<1> QED BY <1>1, BoundAssumption
        DEF NodeInit, NodeInv, NodeTypeOK, DanglingConfined, HeapKnown, RegKnown,
            Unread, TextsKnown, NothingOld, InOrder, HeadingRight, Unshown, Blank,
            Composing, Handling, Loading, Parts, Texts, Pointers, Packets

(* The steps of loop() outside the handler change neither the packets nor
   what is pending. *)
Outside == Setup \/ NotDue \/ SendError \/ SendDue \/ Sends \/ Sent

(* What the sketch does outside handle_received_packet() keeps its
   invariant. *)
LEMMA OutsidePreserves ==
    ASSUME NodeInv, Outside, TypeOK' PROVE NodeInv'
<1>1. /\ UNCHANGED <<pending, heap, damaged, reg, msg, screen, arrived>>
      /\ \/ hpc' = hpc
         \/ /\ hpc \in {"setup", "timer", "send"}
            /\ hpc' \in {"test", "send"}
      BY DEF Outside, Setup, NotDue, SendError, SendDue, Sends, Sent, nodeVars
<1>2. NodeTypeOK' /\ DanglingConfined' /\ HeapKnown' /\ RegKnown' /\ Unread'
      BY <1>1
      DEF NodeInv, NodeTypeOK, DanglingConfined, HeapKnown, RegKnown, Unread, Handling,
          Loading
<1>3. InOrder(msg)' /\ HeadingRight(msg)'
      BY <1>1 DEF NodeInv, TextsKnown, InOrder, HeadingRight
<1>4. TextsKnown'
  <2>1. hpc' = "clear" <=> hpc = "clear"
        BY <1>1
  <2> QED BY <1>1, <1>3, <2>1 DEF NodeInv, TextsKnown
<1>5. NothingOld'
  <2>1. \A i : Unshown(i)' <=> Unshown(i)
        BY <1>1 DEF Unshown
  <2>2. hpc' = hpc \/ hpc' \notin Composing \cup {"delete", "clear"}
        BY <1>1 DEF Composing, Handling, Loading
  <2>3. hpc' = hpc \/ hpc \notin {"delete", "clear"}
        BY <1>1
  <2>4. hpc' \notin {"delete", "clear"} /\ pending' # 0 => Unshown(pending)'
        BY <1>1, <2>1, <2>3 DEF NodeInv, NothingOld
  <2>5. ASSUME hpc' \in Composing
        PROVE  /\ reg' # 0 => Unshown(reg)'
               /\ \A part \in Parts : msg'[part] = 0 \/ Unshown(msg[part])'
    <3>1. hpc \in Composing /\ reg' = reg /\ msg' = msg
          BY <1>1, <2>2, <2>5
    <3>2. /\ reg # 0 => Unshown(reg)
          /\ \A part \in Parts : msg[part] = 0 \/ Unshown(msg[part])
          BY <3>1, Zenon DEF NodeInv, NothingOld
    <3> QED BY <2>1, <3>1, <3>2, Zenon
  <2> QED BY <2>4, <2>5 DEF NothingOld
<1> QED BY <1>2, <1>4, <1>5 DEF NodeInv

(* The steps of handle_received_packet(): the register holds a packet that
   arrived, and what is composed is newer than what is shown. *)
LEMMA HandlePreserves ==
    ASSUME NodeInv, Handle, TypeOK' PROVE NodeInv'
<1> USE BoundAssumption
        DEF NodeInv, NodeTypeOK, DanglingConfined, HeapKnown, RegKnown, Unread,
            TextsKnown, NothingOld, InOrder, HeadingRight, Unshown, Blank, Composing,
            Handling, Loading, Parts, Texts, Pointers, Packets
<1>1. CASE TestPending
      BY <1>1 DEF TestPending
<1>2. CASE LoadPointer
  <2>1. /\ hpc \in Loading /\ reg = 0 /\ reg' = pending
        /\ UNCHANGED <<vars, hpc, pending, heap, damaged, msg, screen, arrived>>
        BY <1>2 DEF LoadPointer
  <2>2. NodeTypeOK' /\ DanglingConfined' /\ HeapKnown' /\ RegKnown' /\ Unread'
        BY <2>1
  <2>3. TextsKnown' /\ NothingOld'
        BY <2>1
  <2> QED BY <2>2, <2>3
<1>3. CASE ReadFirst
      BY <1>3 DEF ReadFirst, ReadPart, MayKeep, Found
<1>4. CASE ReadSecond
      BY <1>4 DEF ReadSecond, ReadPart, Reloads, Found
<1>5. CASE TestErr
  <2>1. PICK i \in Found(reg), e \in BOOLEAN :
            /\ i # 0 => e = (i \in damaged)
            /\ msg' = [msg EXCEPT !.err = i, !.error = e]
            /\ hpc' = IF e THEN "number" ELSE "contents"
        BY <1>5 DEF TestErr
  <2>2. /\ hpc = "err" /\ reg # 0 /\ reg' \in {0, reg}
        /\ UNCHANGED <<vars, pending, heap, damaged, screen, arrived>>
        BY <1>5 DEF TestErr, MayKeep
  <2>3. /\ i = 0 \/ i = reg
        /\ i \in Pointers /\ hpc' \in {"number", "contents"} /\ msg' \in Texts
        BY <2>1, <2>2 DEF Found
  <2>4. /\ msg'.first = msg.first /\ msg'.second = msg.second /\ msg'.err = i
        /\ msg'.text = 0 /\ msg.text = 0 /\ msg.err = 0 /\ msg'.error = e
        BY <2>1, <2>2
  <2>5. NodeTypeOK' /\ DanglingConfined' /\ HeapKnown' /\ RegKnown' /\ Unread'
        BY <2>2, <2>3, <2>4
  <2>6. InOrder(msg)' /\ HeadingRight(msg)'
        BY <2>2, <2>3, <2>4
  <2>7. TextsKnown'
        BY <2>1, <2>2, <2>3, <2>4, <2>6
  <2>8. NothingOld'
        BY <2>2, <2>3, <2>4
  <2> QED BY <2>5, <2>7, <2>8
<1>6. CASE ReadNumber
      BY <1>6 DEF ReadNumber, ReadPart, Reloads, Found
<1>7. CASE ReadContents
      BY <1>7 DEF ReadContents, Found
<1>8. CASE CopyContents
  <2>1. PICK i \in Found(reg) : msg' = [msg EXCEPT !.text = i]
        BY <1>8 DEF CopyContents
  <2>2. /\ hpc = "copy" /\ hpc' = "display" /\ reg' = 0
        /\ UNCHANGED <<vars, pending, heap, damaged, screen, arrived>>
        BY <1>8 DEF CopyContents
  <2>3. (i = 0 \/ i = reg) /\ i \in Pointers
        BY <2>1 DEF Found
  <2>4. /\ msg'.first = msg.first /\ msg'.second = msg.second /\ msg'.err = msg.err
        /\ msg'.text = i /\ msg'.error = msg.error /\ msg' \in Texts
        BY <2>1, <2>3
  <2>5. NodeTypeOK' /\ DanglingConfined' /\ HeapKnown' /\ RegKnown' /\ Unread'
        BY <2>2, <2>3, <2>4
  <2>6. TextsKnown' /\ NothingOld'
        BY <2>2, <2>3, <2>4
  <2> QED BY <2>5, <2>6
<1>9. CASE Show
  <2>1. /\ hpc = "display" /\ hpc' = "delete" /\ screen' = msg
        /\ UNCHANGED <<vars, pending, heap, damaged, reg, msg, arrived>>
        BY <1>9 DEF Show
  <2>2. NodeTypeOK' /\ DanglingConfined' /\ HeapKnown' /\ RegKnown' /\ Unread'
        BY <2>1
  <2>3. TextsKnown' /\ NothingOld'
        BY <2>1
  <2> QED BY <2>2, <2>3
<1>10. CASE FreePacket
      BY <1>10 DEF FreePacket, Delete
<1>11. CASE ClearPending
      BY <1>11 DEF ClearPending
<1> QED BY <1>1, <1>2, <1>3, <1>4, <1>5, <1>6, <1>7, <1>8, <1>9, <1>10, <1>11
        DEF Handle

(* An arrival between any two of them. *)
LEMMA ArrivePreserves ==
    ASSUME NodeInv, Arrive, TypeOK' PROVE NodeInv'
<1> DEFINE new == arrived + 1
           h == [heap EXCEPT ![new] = "live"]
<1>1. /\ arrived < MaxPackets /\ arrived' = new /\ pending' = new
      /\ UNCHANGED <<hpc, reg, msg, screen>>
      /\ damaged' = damaged \/ damaged' = damaged \cup {new}
      /\ heap' = IF pending # 0 THEN Delete(h, pending) ELSE h
      BY DEF Arrive, MayArrive
<1>2. /\ NodeTypeOK /\ HeapKnown /\ RegKnown /\ Unread /\ TextsKnown /\ NothingOld
      /\ heap \in [Packets -> {"unused", "live", "freed", "twice"}]
      BY DEF NodeInv, NodeTypeOK
<1>3. /\ arrived \in Nat /\ new \in Nat /\ new > arrived /\ new # 0
      /\ new \in Packets /\ new \in Pointers
      /\ pending \in Nat /\ pending # new
      /\ pending # 0 => pending = arrived /\ pending \in Packets
      BY <1>1, <1>2, BoundAssumption DEF NodeTypeOK, HeapKnown, Pointers, Packets
<1> HIDE DEF new
<1>4. /\ h \in [Packets -> {"unused", "live", "freed", "twice"}]
      /\ h[new] = "live"
      /\ \A i \in Packets : i # new => h[i] = heap[i]
      BY <1>2, <1>3
<1> HIDE DEF h
<1>5. /\ heap' \in [Packets -> {"unused", "live", "freed", "twice"}]
      /\ heap'[new] = "live"
      /\ \A i \in Packets : i # new =>
             heap'[i] = heap[i] \/ (i = arrived /\ heap'[i] \in {"freed", "twice"})
  <2>1. CASE pending = 0
        BY <1>1, <1>4, <2>1
  <2>2. CASE pending # 0
        BY <1>1, <1>3, <1>4, <2>2 DEF Delete
  <2> QED BY <2>1, <2>2
<1>6. NodeTypeOK'
      BY <1>1, <1>2, <1>3, <1>5 DEF NodeTypeOK
<1>7. DanglingConfined'
      BY <1>1, <1>5 DEF DanglingConfined
<1>8. HeapKnown'
  <2>1. ASSUME NEW i \in Packets PROVE heap'[i] = "unused" <=> i > new
    <3>1. i \in Nat /\ (i # new => (i > arrived <=> i > new))
          BY <1>3 DEF Packets, new
    <3>2. heap[i] = "unused" <=> i > arrived
          BY <1>2 DEF HeapKnown
    <3> QED BY <1>3, <1>5, <3>1, <3>2
  <2>2. ASSUME NEW i \in damaged' PROVE i <= new
    <3>1. i \in damaged \/ i = new
          BY <1>1
    <3>2. CASE i \in damaged
      <4>1. i <= arrived /\ i \in Packets
            BY <1>2, <3>2 DEF HeapKnown, NodeTypeOK
      <4> QED BY <1>3, <4>1, BoundAssumption DEF Packets
    <3> QED BY <1>3, <3>1, <3>2
  <2> QED BY <1>1, <1>3, <2>1, <2>2 DEF HeapKnown
<1>9. RegKnown'
  <2>1. reg \in Pointers /\ (reg # 0 => reg \in Packets)
        BY <1>2 DEF NodeTypeOK, Pointers
  <2>2. reg <= arrived => reg <= new /\ reg # new
        BY <1>3, <2>1, BoundAssumption DEF Pointers, Packets
  <2> QED BY <1>1, <1>2, <1>5, <2>1, <2>2 DEF RegKnown
<1>10. /\ reg \in Nat /\ msg.err \in Nat /\ msg.text \in Nat
       /\ \A part \in Parts : screen[part] \in Nat /\ msg[part] \in Nat
  <2>1. Pointers \subseteq Nat
        BY BoundAssumption DEF Pointers, Packets
  <2>2. reg \in Pointers /\ msg \in Texts /\ screen \in Texts
        BY <1>2 DEF NodeTypeOK
  <2> QED BY <2>1, <2>2 DEF Texts, Parts
<1>11. \A i \in Nat : i <= arrived => (i \in damaged' <=> i \in damaged)
       BY <1>1, <1>3
<1>12. Unread'
       BY <1>1, <1>2 DEF Unread
<1>13. TextsKnown'
  <2>1. msg.err <= arrived /\ msg.text <= arrived
        BY <1>2 DEF TextsKnown, Parts
  <2>2. HeadingRight(msg)'
        BY <1>1, <1>2, <1>10, <1>11, <2>1 DEF TextsKnown, HeadingRight
  <2>3. (msg.err # 0 => msg.error = (msg.err \in damaged))'
        BY <1>1, <1>2, <1>10, <1>11, <2>1 DEF TextsKnown
  <2>4. InOrder(msg)'
        BY <1>1, <1>2 DEF TextsKnown, InOrder
  <2>5. \A part \in Parts : screen'[part] <= arrived' /\ msg'[part] <= arrived'
        BY <1>1, <1>2, <1>3, <1>10 DEF TextsKnown
  <2> QED BY <1>1, <1>2, <2>2, <2>3, <2>4, <2>5 DEF TextsKnown
<1>14. NothingOld'
  <2>1. \A part \in Parts : screen[part] < new
        BY <1>2, <1>3, <1>10 DEF TextsKnown
  <2> QED BY <1>1, <1>2, <2>1 DEF NothingOld, Unshown
<1> QED BY <1>6, <1>7, <1>8, <1>9, <1>12, <1>13, <1>14 DEF NodeInv

(* Every step of loop() and of the interrupt keeps the sketch's invariant. *)
LEMMA NodeStepPreserves ==
    ASSUME NodeInv, [NodeNext]_allVars, TypeOK' PROVE NodeInv'
<1>1. CASE UNCHANGED allVars
      BY <1>1 DEF allVars, nodeVars, NodeInv, NodeTypeOK, DanglingConfined, HeapKnown,
                  RegKnown, Unread, TextsKnown, NothingOld, InOrder, HeadingRight, Unshown
<1> QED BY <1>1, OutsidePreserves, HandlePreserves, ArrivePreserves
        DEF NodeNext, Loop, Outside

(* The invariant of the sketch, for arrivals between any two statements. *)
THEOREM NodeInvariance == NodeSpec => []NodeInv
<1>1. NodeInv /\ TypeOK' /\ [NodeNext]_allVars => NodeInv'
      BY NodeStepPreserves
<1> QED BY NodeInitEstablishes, NodeIsLink, TypeCorrect, <1>1, PTL DEF NodeSpec

(* The sketch keeps its types, and what pending_recv points to exists. *)
THEOREM NodeTypeCorrect == NodeSpec => []NodeTypeOK
<1>1. NodeInv => NodeTypeOK
      BY DEF NodeInv
<1> QED BY NodeInvariance, <1>1, PTL

(* pending_recv dangles only between "delete pending_recv" and
   "pending_recv = 0", however the interrupt interleaves. *)
THEOREM DanglingIsConfined == NodeSpec => []DanglingConfined
<1>1. NodeInv => DanglingConfined
      BY DEF NodeInv
<1> QED BY NodeInvariance, <1>1, PTL

(* A packet is leaked or deleted twice only when one arrives after
   "delete pending_recv" has loaded the pointer and before the assignment. *)
THEOREM FaultsAreConfined == NodeSpec => FaultsNeedTheWindow
<1> DEFINE Confined ==
        \A i \in Packets :
            /\ ~Leaked(i) /\ Leaked(i)' => hpc = "clear" /\ reg # i
            /\ heap[i] # "twice" /\ heap'[i] = "twice" => InWindow
<1>1. ASSUME NodeInv, NodeNext PROVE Confined
  <2> USE BoundAssumption
          DEF NodeInv, NodeTypeOK, DanglingConfined, HeapKnown, RegKnown, Leaked,
              InWindow, Handling, Loading, Pointers, Packets
  <2>1. CASE UNCHANGED <<heap, pending>>
        BY <2>1
  <2>2. CASE FreePacket
        BY <1>1, <2>2 DEF FreePacket, Delete
  <2>3. CASE ClearPending
        BY <1>1, <2>3 DEF ClearPending
  <2>4. CASE Arrive
        BY <1>1, <2>4 DEF Arrive, MayArrive, Delete
  <2> QED BY <1>1, <2>1, <2>2, <2>3, <2>4
          DEF NodeNext, Loop, Setup, NotDue, SendError, SendDue, Sends, Sent, Handle,
              TestPending, LoadPointer, ReadFirst, ReadSecond, ReadPart, TestErr,
              ReadNumber, ReadContents, CopyContents, Show, nodeVars
<1>2. NodeInv /\ [NodeNext]_allVars => [Confined]_allVars
      BY <1>1
<1> QED BY NodeInvariance, <1>2, PTL DEF NodeSpec, FaultsNeedTheWindow

(* The display never goes back, whatever the handler reads from which packet:
   no part of a text is older than what was shown unless it was read from a
   deleted packet, and only an arrival between the test of err and the text
   puts that under the wrong heading. *)
THEOREM DisplayGoesForward == NodeSpec => ShownInOrder
<1> DEFINE Forward ==
        screen' # screen =>
            /\ \A part \in Parts : screen'[part] = 0 \/ Unshown(screen'[part])
            /\ InOrder(screen') /\ HeadingRight(screen')
<1>1. ASSUME NodeInv, NodeNext PROVE Forward
  <2>1. CASE Show
    <3>1. screen' = msg /\ hpc = "display"
          BY <2>1 DEF Show
    <3>2. /\ InOrder(msg) /\ HeadingRight(msg)
          /\ \A part \in Parts : msg[part] = 0 \/ Unshown(msg[part])
          BY <1>1, <3>1 DEF NodeInv, TextsKnown, NothingOld, Composing, Handling
    <3> QED BY <3>1, <3>2
  <2>2. CASE screen' = screen
        BY <2>2
  <2> QED BY <1>1, <2>1, <2>2
          DEF NodeNext, Loop, Setup, NotDue, SendError, SendDue, Sends, Sent, Handle,
              TestPending, LoadPointer, ReadFirst, ReadSecond, ReadPart, TestErr,
              ReadNumber, ReadContents, CopyContents, FreePacket, ClearPending, Arrive,
              nodeVars
<1>2. NodeInv /\ [NodeNext]_allVars => [Forward]_allVars
      BY <1>1
<1> QED BY NodeInvariance, <1>2, PTL DEF NodeSpec, ShownInOrder

(* RecvObserver::recv() never calls send(), so on a board that runs the
   sketch the status test of send() is all lora_begin_packet() needs. *)
THEOREM SketchNeverRefused == NodeSpec => []BeginNeverRefused
<1>1. Spec => []BeginNeverRefused
      BY StatusProtects, BoardAssumption
<1> QED BY <1>1, NodeIsLink, PTL

------------------------------------------------------------------------------
(* The timer.                                                              *)

(* A sum that wraps once stays a number of the counter. *)
LEMMA WrapCloses ==
    ASSUME NEW x \in Nat, x < 2 * Modulus PROVE Wrap(x) \in Instants
BY TimerAssumption DEF Wrap, Instants

(* A number of the counter does not wrap, and no delay is empty. *)
LEMMA WrapKeeps == ASSUME NEW x \in Instants PROVE Wrap(x + 0) = x
BY TimerAssumption DEF Wrap, Instants

(* The sketch never asks for a delay of zero. *)
LEMMA DelayPositive == ASSUME NEW e \in Delays PROVE ~(e <= 0)
BY TimerAssumption DEF Delays

(* Of two sums from one instant, the shorter is the greater number only when
   it alone has not wrapped, so near the end of the period. *)
LEMMA WrapReversesAtTheEnd ==
    ASSUME NEW a \in Instants, NEW w \in Nat, NEW e \in Delays, w < e,
           ~(Wrap(a + w) < Wrap(a + e))
    PROVE  Wrap(a + w) > Modulus - 3 * Half
BY TimerAssumption DEF Wrap, Instants, Delays

(* Time that passes moves the clock as it moves the time since the timer was
   set, also when both wrap. *)
LEMMA ClockFollows ==
    ASSUME TimerTypeOK, TimeKnown, waited < Modulus,
           NEW d \in Nat, waited + d < Modulus
    PROVE  Wrap(clock + d) = Wrap(armed + waited + d)
BY TimerAssumption DEF TimerTypeOK, TimeKnown, Instants, Wrap

(* setup() sets the timer a known time ahead. *)
LEMMA TimerInitEstablishes == TimerInit => TimerInv
BY TimerAssumption
   DEF TimerInit, TimerInv, TimerTypeOK, TimeKnown, LateOnlyAcrossWrap, Instants,
       Delays, Wrap

(* What a test finds, due or not: if the time has come and the clock is still
   before next_send, then the clock wrapped after it. *)
LEMMA TestSteps ==
    ASSUME TimerInv, tpc = "test", NEW d \in 1 .. LoopTime,
           clock' = Wrap(clock + d), waited' = UpToPeriod(waited + d),
           UNCHANGED <<next_send, armed, delay>>
    PROVE  /\ clock' \in Instants /\ waited' \in 0 .. Modulus
           /\ waited' < Modulus => clock' = Wrap(armed + waited')
           /\ waited' >= delay /\ ~Due(clock') => next_send > Modulus - LoopTime
<1> USE TimerAssumption DEF TimerInv, TimerTypeOK
<1>1. clock' \in Instants /\ waited' \in 0 .. Modulus
      BY WrapCloses DEF UpToPeriod, Instants
<1>2. ASSUME waited' < Modulus
      PROVE  waited' = waited + d /\ clock' = Wrap(armed + waited')
  <2>1. waited' = waited + d /\ waited < Modulus /\ waited + d < Modulus
        BY <1>2 DEF UpToPeriod
  <2>2. Wrap(clock + d) = Wrap(armed + waited + d)
        BY <2>1, ClockFollows
  <2> QED BY <2>1, <2>2 DEF Wrap, Instants
<1>3. ASSUME waited < delay, waited' >= delay, ~Due(clock')
      PROVE  next_send > Modulus - LoopTime
  <2>1. waited' < Modulus
        BY <1>3 DEF UpToPeriod, Delays
  <2>2. waited' = waited + d /\ clock' = Wrap(armed + waited')
        BY <1>2, <2>1
  <2>3. next_send = Wrap(armed + delay)
        BY DEF TimeKnown
  <2>4. clock' < next_send
        BY <1>3 DEF Due
  <2> QED BY <1>3, <2>2, <2>3, <2>4 DEF Wrap, Instants, Delays
<1>4. ASSUME waited >= delay PROVE next_send > Modulus - LoopTime
      BY <1>4 DEF LateOnlyAcrossWrap
<1> QED BY <1>1, <1>2, <1>3, <1>4 DEF Delays

(* Every step keeps the invariant. *)
LEMMA TimerStepPreserves ==
    ASSUME TimerInv, [TimerNext]_timerVars PROVE TimerInv'
<1> USE TimerAssumption DEF TimerInv, TimerTypeOK
<1>1. CASE TestEarly
  <2>1. PICK d \in 1 .. LoopTime : /\ clock' = Wrap(clock + d)
                                   /\ ~Due(clock')
                                   /\ waited' = UpToPeriod(waited + d)
        BY <1>1 DEF TestEarly
  <2>2. tpc = "test" /\ UNCHANGED <<next_send, tpc, armed, delay>>
        BY <1>1 DEF TestEarly
  <2>3. TimerTypeOK' /\ LateOnlyAcrossWrap'
        BY <2>1, <2>2, TestSteps DEF LateOnlyAcrossWrap
  <2>4. TimeKnown'
        BY <2>1, <2>2, TestSteps DEF TimeKnown, Due, Instants
  <2> QED BY <2>3, <2>4
<1>2. CASE TestDue
  <2>1. PICK d \in 1 .. LoopTime : /\ clock' = Wrap(clock + d)
                                   /\ waited' = UpToPeriod(waited + d)
        BY <1>2 DEF TestDue
  <2>2. tpc = "test" /\ tpc' = "send" /\ UNCHANGED <<next_send, armed, delay>>
        BY <1>2 DEF TestDue
  <2> QED BY <2>1, <2>2, TestSteps DEF LateOnlyAcrossWrap, TimeKnown
<1>3. CASE Rearm
  <2>1. PICK d \in 0 .. SendTime : clock' = Wrap(clock + d)
        BY <1>3 DEF Rearm
  <2>2. clock' \in Instants
        BY <2>1, WrapCloses DEF Instants
  <2>3. delay' \in Delays /\ next_send' = Wrap(clock' + delay')
        BY <1>3 DEF Rearm
  <2>4. next_send' \in Instants
        BY <2>2, <2>3, WrapCloses DEF Instants, Delays
  <2>5. armed' = clock' /\ waited' = 0 /\ tpc' = "test"
        BY <1>3 DEF Rearm
  <2>6. TimerTypeOK'
        BY <2>2, <2>3, <2>4, <2>5
  <2>7. ~(delay' <= waited') /\ Wrap(armed' + waited') = clock'
        BY <2>2, <2>3, <2>5, WrapKeeps, DelayPositive
  <2>8. TimeKnown' /\ LateOnlyAcrossWrap'
        BY <2>3, <2>5, <2>7 DEF TimeKnown, LateOnlyAcrossWrap
  <2> QED BY <2>6, <2>8
<1>4. CASE UNCHANGED timerVars
      BY <1>4 DEF timerVars, TimeKnown, LateOnlyAcrossWrap
<1> QED BY <1>1, <1>2, <1>3, <1>4 DEF TimerNext

(* The invariant of the timer, through every wrap of the counter. *)
THEOREM TimerInvariance == TimerSpec => []TimerInv
<1>1. TimerInv /\ [TimerNext]_timerVars => TimerInv'
      BY TimerStepPreserves
<1> QED BY TimerInitEstablishes, <1>1, PTL DEF TimerSpec

(* The counter, next_send and the time between packets keep their ranges. *)
THEOREM TimerTypeCorrect == TimerSpec => []TimerTypeOK
<1>1. TimerInv => TimerTypeOK
      BY DEF TimerInv
<1> QED BY TimerInvariance, <1>1, PTL

(* A packet is late only when loop() jumped over the rest of the counter's
   period after next_send. *)
THEOREM LateOnlyByAJump == TimerSpec => []LateOnlyAcrossWrap
<1>1. TimerInv => LateOnlyAcrossWrap
      BY DEF TimerInv
<1> QED BY TimerInvariance, <1>1, PTL

(* Packets are early only in the last three half intervals of a period. *)
THEOREM EarlyOnlyInTheTail == TimerSpec => EarlyOnlyBeforeWrap
<1> DEFINE Spaced == TestDue => waited' >= Half \/ clock' > Modulus - 3 * Half
<1>1. ASSUME TimerInv, TestDue PROVE waited' >= Half \/ clock' > Modulus - 3 * Half
  <2> USE TimerAssumption DEF TimerInv, TimerTypeOK
  <2>1. PICK d \in 1 .. LoopTime : /\ clock' = Wrap(clock + d)
                                   /\ waited' = UpToPeriod(waited + d)
        BY <1>1 DEF TestDue
  <2>2. tpc = "test" /\ UNCHANGED <<next_send, armed, delay>> /\ Due(clock')
        BY <1>1 DEF TestDue
  <2>3. waited' \in Nat /\ clock' \in Nat
        BY <1>1, <2>1, <2>2, TestSteps DEF Instants
  <2>4. SUFFICES ASSUME waited' < Half PROVE clock' > Modulus - 3 * Half
        BY <2>3
  <2>5. clock' = Wrap(armed + waited')
        BY <1>1, <2>1, <2>2, <2>3, <2>4, TestSteps
  <2>6. next_send = Wrap(armed + delay) /\ armed \in Instants /\ delay \in Delays
        BY <1>1 DEF TimeKnown
  <2>7. ~(clock' < Wrap(armed + delay)) /\ waited' < delay
        BY <2>2, <2>4, <2>6, <2>3 DEF Due, Delays
  <2> QED BY <2>3, <2>5, <2>6, <2>7, WrapReversesAtTheEnd
<1>2. TimerInv /\ [TimerNext]_timerVars => [Spaced]_timerVars
      BY <1>1
<1> QED BY TimerInvariance, <1>2, PTL DEF TimerSpec, EarlyOnlyBeforeWrap

(* A packet that was missed waits for the counter to come round. *)
THEOREM MissedWaitsForThePeriod == TimerSpec => MissedForAPeriod
<1> DEFINE Round == TestDue /\ waited >= delay => waited' = Modulus
<1>1. ASSUME TimerInv, TestDue, waited >= delay PROVE waited' = Modulus
  <2> USE TimerAssumption DEF TimerInv, TimerTypeOK
  <2>1. PICK d \in 1 .. LoopTime : /\ clock' = Wrap(clock + d)
                                   /\ waited' = UpToPeriod(waited + d)
        BY <1>1 DEF TestDue
  <2>2. tpc = "test" /\ UNCHANGED <<next_send, armed, delay>> /\ Due(clock')
        BY <1>1 DEF TestDue
  <2>3. waited' \in 0 .. Modulus /\ clock' \in Instants
        BY <1>1, <2>1, <2>2, TestSteps
  <2>4. SUFFICES ASSUME waited' < Modulus PROVE FALSE
        BY <2>3
  <2>5. waited' = waited + d /\ waited < Modulus
        BY <1>1, <2>1, <2>4 DEF UpToPeriod
  <2>6. clock' = Wrap(armed + waited')
        BY <1>1, <2>1, <2>2, <2>4, TestSteps
  <2>7. clock < next_send /\ clock = Wrap(armed + waited)
        /\ next_send = Wrap(armed + delay)
        BY <1>1, <2>2, <2>5 DEF TimeKnown
  <2> QED BY <1>1, <2>2, <2>4, <2>5, <2>6, <2>7 DEF Due, Wrap, Instants, Delays
<1>2. TimerInv /\ [TimerNext]_timerVars => [Round]_timerVars
      BY <1>1
<1> QED BY TimerInvariance, <1>2, PTL DEF TimerSpec, MissedForAPeriod
==============================================================================
