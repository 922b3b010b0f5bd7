----------------------------- MODULE LinkService -----------------------------
(***************************************************************************)
(* What the LoRaL2 API promises its application, without the status word,  *)
(* the radio modes and the interrupt handlers that implement it: a station *)
(* carries at most one packet at a time, a packet that send() accepts is   *)
(* carried unchanged until its transmission completes, and a station is    *)
(* listening exactly from the completion of one transmission until it      *)
(* takes the next packet.  A station that never transmitted is deaf: the   *)
(* constructor does not start reception.                                   *)
(***************************************************************************)
CONSTANTS Stations,   \* the radio boards
          Payloads,   \* what applications hand to send()
          NoPayload   \* "no packet"

VARIABLES up,         \* the station's object exists
          carrying,   \* the packet send() accepted and that is not yet sent
          listening   \* packets heard on the air reach the observer

serviceVars == <<up, carrying, listening>>

Init == /\ up = [s \in Stations |-> FALSE]
        /\ carrying = [s \in Stations |-> NoPayload]
        /\ listening = [s \in Stations |-> FALSE]

(* send() accepts p: from now on the station is busy and deaf. *)
Take(s, p) == /\ up[s]
              /\ carrying[s] = NoPayload
              /\ carrying' = [carrying EXCEPT ![s] = p]
              /\ listening' = [listening EXCEPT ![s] = FALSE]
              /\ UNCHANGED up

(* The transmission completes and reception starts. *)
Complete(s) == /\ up[s]
               /\ carrying[s] # NoPayload
               /\ carrying' = [carrying EXCEPT ![s] = NoPayload]
               /\ listening' = [listening EXCEPT ![s] = TRUE]
               /\ UNCHANGED up

(* The LoRaL2 object is constructed or deleted: the only way to lose what
   the station carries or to stop it from listening without a send(). *)
Renew(s) == /\ up' = [up EXCEPT ![s] = ~up[s]]
            /\ carrying' = [carrying EXCEPT ![s] = NoPayload]
            /\ listening' = [listening EXCEPT ![s] = FALSE]

Next == \E s \in Stations : \/ \E p \in Payloads : Take(s, p)
                            \/ Complete(s)
                            \/ Renew(s)

Spec == Init /\ [][Next]_serviceVars
==============================================================================
