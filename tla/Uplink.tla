------------------------------- MODULE Uplink -------------------------------
(***************************************************************************)
(* What may be relied on between the mesh and process_envelope: messages    *)
(* get lost, but none is handed on twice, out of order or made up.          *)
(* MqttReader is shown to implement it.                                     *)
(***************************************************************************)
EXTENDS Naturals, SequencesExt

CONSTANT MaxSent

VARIABLES
  sent,      \* messages published; message n is the n-th
  inFlight,  \* the numbers of those that may still be handed on
  got        \* the numbers of those handed on, in that order

vars == <<sent, inFlight, got>>

Init == sent = 0 /\ inFlight = <<>> /\ got = <<>>

Send ==
  /\ sent < MaxSent /\ sent' = sent + 1
  /\ inFlight' \in {inFlight, Append(inFlight, sent')}
  /\ UNCHANGED got

\* The first ones in flight are lost, which may be all of them.
Lose ==
  /\ \E k \in 1..Len(inFlight) : inFlight' = SubSeq(inFlight, k + 1, Len(inFlight))
  /\ UNCHANGED <<sent, got>>

Deliver ==
  /\ inFlight # <<>>
  /\ got' = Append(got, Head(inFlight)) /\ inFlight' = Tail(inFlight)
  /\ UNCHANGED sent

Next == Send \/ Lose \/ Deliver

Spec == Init /\ [][Next]_vars
=============================================================================
