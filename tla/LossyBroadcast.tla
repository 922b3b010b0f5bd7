---------------------------- MODULE LossyBroadcast ----------------------------
(***************************************************************************)
(* What a network of LoRaL2 stations promises its applications: packets    *)
(* are broadcast and may be lost or arrive as noise, but a station is told *)
(* of a packet once at most, of one sender's packets in the order they     *)
(* were sent, and what it is given whole is what was sent.                 *)
(***************************************************************************)
EXTENDS Sequences, Naturals

CONSTANTS Stations,   \* the radio boards
          Payloads,   \* what applications hand to send()
          Noise       \* a packet reported with an error, or garbled

VARIABLES sent,       \* what each station has put on the air, in order
          got         \* what each observer was given: source, number, packet

broadcastVars == <<sent, got>>

Init == /\ sent = [s \in Stations |-> <<>>]
        /\ got = [s \in Stations |-> <<>>]

Send(s, p) == /\ sent' = [sent EXCEPT ![s] = Append(@, p)]
              /\ UNCHANGED got

(* Everything the observer of t was given from s came before packet n. *)
NewerThanGot(t, s, n) ==
    \A i \in DOMAIN got[t] : got[t][i].src = s => got[t][i].n < n

(* The observer of t is told of packet n of s, whole or as noise. *)
Told(t, s, n, what) ==
    /\ s # t
    /\ NewerThanGot(t, s, n)
    /\ what \in {sent[s][n], Noise}
    /\ got' = [got EXCEPT ![t] = Append(@, [src |-> s, n |-> n, packet |-> what])]

Report(t, s, n, what) == Told(t, s, n, what) /\ UNCHANGED sent

(* An observer may answer from inside its recv(). *)
ReportAndSend(t, s, n, what, p) ==
    /\ Told(t, s, n, what)
    /\ sent' = [sent EXCEPT ![t] = Append(@, p)]

Next == \E s \in Stations :
            \/ \E p \in Payloads : Send(s, p)
            \/ \E t \in Stations, n \in DOMAIN sent[s] :
                   \E what \in {sent[s][n], Noise} :
                       \/ Report(t, s, n, what)
                       \/ \E p \in Payloads : ReportAndSend(t, s, n, what, p)

Spec == Init /\ [][Next]_broadcastVars
==============================================================================
