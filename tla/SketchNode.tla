------------------------------ MODULE SketchNode ------------------------------
(***************************************************************************)
(* The example sketch (LoRaL2.ino) on one board: loop() alternates between *)
(* handle_received_packet() and send_packet(), and RecvObserver::recv(),   *)
(* called from the radio interrupt, leaves each received packet in the     *)
(* global pending_recv.  The global is neither volatile nor protected.     *)
(* The handler is cut at every access: each load of pending_recv is a step *)
(* and each read of the packet through the loaded pointer is another;      *)
(* send() below it is cut as in LinkLayer.                                 *)
(*                                                                         *)
(* A packet is named by its place in the order of arrival, 0 is the null   *)
(* pointer.  What the handler reads is written as the packet it was read   *)
(* from, or 0 for whatever the memory of a deleted packet holds, which may *)
(* be anything.  The heap says of every packet what became of it; that a   *)
(* freed block may be handed out again is otherwise left out.              *)
(***************************************************************************)
EXTENDS LinkLayer, Naturals

CONSTANTS
    Board,         \* the only station of this module
    MaxPackets     \* bound: how many packets are received

ASSUME BoardAssumption == Stations = {Board} /\ CallbackSends = FALSE
ASSUME BoundAssumption == MaxPackets \in Nat

VARIABLES
    hpc,       \* where loop() is
    pending,   \* pending_recv
    heap,      \* what became of the packet objects
    damaged,   \* the packets that came with an error code
    reg,       \* the pointer the handler has loaded, 0 when it has to load it
    msg,       \* what msg2 and msg are composed from
    screen,    \* the same, as last shown
    arrived    \* how many packets the interrupt has left

nodeVars == <<hpc, pending, heap, damaged, reg, msg, screen, arrived>>
allVars == <<vars, nodeVars>>

Packets == 1 .. MaxPackets
Pointers == Packets \cup {0}

(* The places of the handler that load pending_recv. *)
Loading == {"first", "second", "err", "number", "contents", "delete"}
Handling == Loading \cup {"copy", "display", "clear"}

(* rssi and len are the operands of a +, which the compiler may evaluate in
   either order: first is the one it evaluates first.  Then come the err that
   is tested, whether it was found set, and the error number or the contents. *)
Parts == {"first", "second", "err", "text"}
Texts == [first : Pointers, second : Pointers, err : Pointers, text : Pointers,
          error : BOOLEAN]
Blank == [first |-> 0, second |-> 0, err |-> 0, text |-> 0, error |-> FALSE]

NodeTypeOK ==
    /\ TypeOK
    /\ hpc \in Handling \cup {"setup", "test", "timer", "send"}
    /\ pending \in Pointers /\ reg \in Pointers /\ arrived \in Pointers
    /\ heap \in [Packets -> {"unused", "live", "freed", "twice"}]
    /\ damaged \in SUBSET Packets
    /\ msg \in Texts /\ screen \in Texts

NodeInit ==
    /\ Init
    /\ hpc = "setup" /\ pending = 0 /\ reg = 0 /\ arrived = 0
    /\ heap = [i \in Packets |-> "unused"] /\ damaged = {}
    /\ msg = Blank /\ screen = Blank

Delete(h, i) == [h EXCEPT ![i] = IF @ = "live" THEN "freed" ELSE "twice"]

------------------------------------------------------------------------------
(* setup() and the two branches of send_packet() that do not call send().   *)

(* The object is created once and used whether or not ok() says it works. *)
Setup == /\ hpc = "setup"
         /\ Construct(Board) \/ ConstructFailed(Board)
         /\ hpc' = "test"
         /\ UNCHANGED <<pending, heap, damaged, reg, msg, screen, arrived>>

NotDue == /\ hpc = "timer"
          /\ hpc' = "test"
          /\ UNCHANGED <<vars, pending, heap, damaged, reg, msg, screen, arrived>>

(* The timer has run out and send() returns false: the error is shown and
   the timer set again, there is no retry. *)
SendError == /\ hpc = "timer"
             /\ \E p \in Payloads \ Oversized : SendRefused(Board, p)
             /\ hpc' = "test"
             /\ UNCHANGED <<pending, heap, damaged, reg, msg, screen, arrived>>

(* random(6, max_payload() + 1) never asks for more than max_payload(). *)
SendDue == /\ hpc = "timer"
           /\ \E p \in Payloads \ Oversized : SendCall(Board, p)
           /\ hpc' = "send"
           /\ UNCHANGED <<pending, heap, damaged, reg, msg, screen, arrived>>

Sends == /\ hpc = "send"
         /\ SendStep(Board)
         /\ hpc' = IF pc'[Board] = "idle" THEN "test" ELSE "send"
         /\ UNCHANGED <<pending, heap, damaged, reg, msg, screen, arrived>>

------------------------------------------------------------------------------
(* handle_received_packet().                                                *)

(* Seeded fault: pending_recv is not volatile and the null that an earlier
   round loaded is tested again. *)
TestCached == /\ hpc = "test"
              /\ hpc' = "timer"
              /\ UNCHANGED <<vars, pending, heap, damaged, reg, msg, screen, arrived>>

TestPending == /\ hpc = "test"
               /\ hpc' = IF pending = 0 THEN "timer" ELSE "first"
               /\ UNCHANGED <<vars, pending, heap, damaged, reg, msg, screen, arrived>>

LoadPointer == /\ hpc \in Loading /\ reg = 0
               /\ reg' = pending
               /\ UNCHANGED <<vars, hpc, pending, heap, damaged, msg, screen, arrived>>

(* What a read through a pointer may find. *)
Found(i) == IF i # 0 /\ heap[i] = "live" THEN {i} ELSE {i, 0}

(* Where no call has to come between two reads the compiler may make one load
   serve both. *)
Reloads == reg' = 0
MayKeep == reg' \in {0, reg}

ReadPart(here, part, next) ==
    /\ hpc = here /\ reg # 0
    /\ hpc' = next
    /\ \E i \in Found(reg) : msg' = [msg EXCEPT ![part] = i]
    /\ UNCHANGED <<vars, pending, heap, damaged, screen, arrived>>

ReadFirst == ReadPart("first", "first", "second") /\ MayKeep
ReadSecond == ReadPart("second", "second", "err") /\ Reloads

(* The branch taken is that of the packet whose err is read. *)
TestErr == /\ hpc = "err" /\ reg # 0
           /\ \E i \in Found(reg), e \in BOOLEAN :
                 /\ i # 0 => e = (i \in damaged)
                 /\ msg' = [msg EXCEPT !.err = i, !.error = e]
                 /\ hpc' = IF e THEN "number" ELSE "contents"
           /\ MayKeep
           /\ UNCHANGED <<vars, pending, heap, damaged, screen, arrived>>

(* The error number is read again, from what is pending when it is loaded. *)
ReadNumber == ReadPart("number", "text", "display") /\ Reloads

(* The pointer to the contents, then the contents: a deleted packet may yield
   any pointer, and the contents are deleted with their packet. *)
ReadContents == /\ hpc = "contents" /\ reg # 0
                /\ hpc' = "copy"
                /\ reg' \in Found(reg)
                /\ UNCHANGED <<vars, pending, heap, damaged, msg, screen, arrived>>

CopyContents == /\ hpc = "copy"
                /\ hpc' = "display"
                /\ \E i \in Found(reg) : msg' = [msg EXCEPT !.text = i]
                /\ reg' = 0
                /\ UNCHANGED <<vars, pending, heap, damaged, screen, arrived>>

Show == /\ hpc = "display"
        /\ hpc' = "delete"
        /\ screen' = msg
        /\ UNCHANGED <<vars, pending, heap, damaged, reg, msg, arrived>>

(* The destructor frees the contents, then delete frees the packet: in one
   step, since an arrival between the two does what one before them does. *)
FreePacket == /\ hpc = "delete" /\ reg # 0
              /\ hpc' = "clear"
              /\ heap' = Delete(heap, reg)
              /\ UNCHANGED <<vars, pending, damaged, reg, msg, screen, arrived>>

(* Seeded fault: pending_recv keeps pointing to the deleted packet. *)
ClearForgotten == /\ hpc = "clear"
                  /\ hpc' = "timer"
                  /\ reg' = 0 /\ msg' = Blank
                  /\ UNCHANGED <<vars, pending, heap, damaged, screen, arrived>>

(* The strings end with the function. *)
ClearPending == /\ hpc = "clear"
                /\ hpc' = "timer"
                /\ pending' = 0
                /\ reg' = 0 /\ msg' = Blank
                /\ UNCHANGED <<vars, heap, damaged, screen, arrived>>

Handle == \/ TestPending \/ LoadPointer \/ ReadFirst \/ ReadSecond
          \/ TestErr \/ ReadNumber \/ ReadContents \/ CopyContents
          \/ Show \/ FreePacket \/ ClearPending

------------------------------------------------------------------------------
(* The interrupt.                                                           *)

MayArrive == arrived < MaxPackets

(* Seeded fault: the packet that was pending is not deleted. *)
ArriveLeaking ==
    /\ MayArrive
    /\ OnRecv(Board)
    /\ arrived' = arrived + 1
    /\ heap' = [heap EXCEPT ![arrived'] = "live"]
    /\ pending' = arrived'
    /\ \E d \in SUBSET {arrived'} : damaged' = damaged \cup d
    /\ UNCHANGED <<hpc, reg, msg, screen>>

(* on_recv() allocates the packet, with or without an error code, and
   RecvObserver::recv() deletes the one that is pending and leaves the new one
   in its place. *)
Arrive ==
    /\ MayArrive
    /\ OnRecv(Board)
    /\ arrived' = arrived + 1
    /\ LET h == [heap EXCEPT ![arrived'] = "live"]
       IN  heap' = IF pending # 0 THEN Delete(h, pending) ELSE h
    /\ pending' = arrived'
    /\ \E d \in SUBSET {arrived'} : damaged' = damaged \cup d
    /\ UNCHANGED <<hpc, reg, msg, screen>>

Sent == OnSent(Board) /\ UNCHANGED nodeVars

------------------------------------------------------------------------------
Loop == Setup \/ NotDue \/ SendError \/ SendDue \/ Sends \/ Handle

NodeNext == Loop \/ Arrive \/ Sent

NodeSpec == NodeInit /\ [][NodeNext]_allVars

(* loop() is called for ever and none of its steps waits; the chip ends
   every transmission.  Nothing makes packets arrive or the timer run out. *)
NodeFairSpec == NodeSpec /\ WF_allVars(Loop) /\ WF_allVars(Sent)

------------------------------------------------------------------------------
(* Properties.                                                              *)

(* Whatever the interrupt preempts, the dangling pointer is confined to the
   instant between "delete pending_recv" and "pending_recv = 0": everywhere
   else pending_recv is null or the newest packet, not deleted. *)
DanglingConfined ==
    hpc # "clear" => pending = 0 \/ (pending = arrived /\ heap[pending] = "live")

(* A packet is leaked (not deleted and not pending any more) or deleted
   twice only by an arrival between the two statements above, the delete
   beginning with its load of pending_recv. *)
Leaked(i) == heap[i] = "live" /\ pending # i
InWindow == hpc = "clear" \/ (hpc = "delete" /\ reg # 0)

FaultsNeedTheWindow ==
    [][\A i \in Packets :
        /\ ~Leaked(i) /\ Leaked(i)' => hpc = "clear" /\ reg # i
        /\ heap[i] # "twice" /\ heap'[i] = "twice" => InWindow]_allVars

(* Which of a text's parts may be newer than which: garbage aside, they come
   from packets in the order in which they are read. *)
InOrder(m) ==
    /\ m.second = 0 \/ m.first <= m.second
    /\ m.err = 0 \/ (m.first <= m.err /\ m.second <= m.err)
    /\ m.text = 0 \/ (m.first <= m.text /\ m.second <= m.text /\ m.err <= m.text)

(* A packet's text is shown under the wrong heading (an error number as if the
   packet had one, damaged contents as if they were sound) only if the packet
   whose err was tested is an older one or was deleted. *)
HeadingRight(m) ==
    m.text # 0 => m.error = (m.text \in damaged) \/ m.err < m.text

Unshown(i) == \A part \in Parts : screen[part] < i

(* The display goes forward, whatever the handler mixes up: every part of what
   is shown was read from a packet newer than all that was shown before, or
   from a deleted one; the parts are in order, and a wrong heading tells that
   a packet arrived between the test and the text. *)
ShownInOrder ==
    [][screen' # screen =>
        /\ \A part \in Parts : screen'[part] = 0 \/ Unshown(screen'[part])
        /\ InOrder(screen') /\ HeadingRight(screen')]_allVars

(* A packet that is pending while loop() is outside the handler is shown,
   whole and under its own heading, unless a newer one takes its place. *)
Whole(i) == [first |-> i, second |-> i, err |-> i, text |-> i, error |-> i \in damaged]

PendingShown ==
    \A i \in Packets :
        (pending = i /\ hpc \notin Handling) ~> (arrived > i \/ screen = Whole(i))

(* "leave the packet for handle_received_packet() to handle": a packet that
   stops being the pending one was shown or replaced by a newer one. *)
LeftPacketHandled ==
    [][pending' # pending /\ pending # 0 =>
           pending' # 0 \/ screen.text = pending]_allVars

(* The inductive strengthening: which packets exist, what the handler's
   register holds at each of its steps, and that everything composed is newer
   than what is shown. *)
HeapKnown == /\ \A i \in Packets : heap[i] = "unused" <=> i > arrived
             /\ \A i \in damaged : i <= arrived
             /\ pending = 0 \/ pending = arrived
             /\ hpc \in Handling => pending # 0

RegKnown == /\ reg <= arrived
            /\ hpc = "clear" => reg # 0 /\ heap[reg] # "live"
            /\ hpc \in {"setup", "test", "timer", "send", "display"} => reg = 0

(* The parts still to be read are blank. *)
Unread == /\ hpc \in {"setup", "test", "timer", "send"} => msg = Blank
          /\ hpc = "first" => msg.first = 0
          /\ hpc \in {"first", "second"} => msg.second = 0
          /\ hpc \in {"first", "second", "err"} => msg.err = 0
          /\ hpc \in Handling \ {"display", "delete", "clear"} => msg.text = 0

TextsKnown == /\ \A part \in Parts : screen[part] <= arrived /\ msg[part] <= arrived
              /\ reg # 0 /\ hpc # "clear" => \A part \in Parts : msg[part] <= reg
              /\ InOrder(msg) /\ HeadingRight(msg)
              /\ msg.err # 0 => msg.error = (msg.err \in damaged)

Composing == Handling \ {"delete", "clear"}

NothingOld ==
    /\ hpc \notin {"delete", "clear"} /\ pending # 0 => Unshown(pending)
    /\ hpc \in Composing =>
           /\ reg # 0 => Unshown(reg)
           /\ \A part \in Parts : msg[part] = 0 \/ Unshown(msg[part])

NodeInv == /\ NodeTypeOK /\ DanglingConfined /\ HeapKnown /\ RegKnown
           /\ Unread /\ TextsKnown /\ NothingOld
==============================================================================
