--------------------------- MODULE StreamDelivery ---------------------------
(***************************************************************************)
(* What the receive side of a QUIC socket promises the application, per   *)
(* stream (spec: "Stream: ordered reliable byte stream"): bytes become     *)
(* available in order, up to the stream's final size, and each read hands  *)
(* over the next bytes after those already read, never bytes that are not  *)
(* yet available. Bytes are their offsets, as in InboundStream.            *)
(***************************************************************************)
EXTENDS Integers, Sequences

CONSTANTS Streams, StreamLen

VARIABLES
  avail,  \* per stream: how many bytes have arrived in order
  out     \* per stream: the bytes the application has read

vars == <<avail, out>>

Init ==
  /\ avail = [s \in Streams |-> 0]
  /\ out = [s \in Streams |-> <<>>]

\* More of the stream arrives in order.
Arrive(s) ==
  /\ \E k \in avail[s] + 1..StreamLen : avail' = [avail EXCEPT ![s] = k]
  /\ UNCHANGED out

\* The application reads the next bytes of the stream, among those arrived.
ReadNext(s) ==
  /\ \E k \in Len(out[s]) + 1..avail[s] :
       out' = [out EXCEPT ![s] = @ \o [i \in 1..k - Len(@) |-> Len(@) + i - 1]]
  /\ UNCHANGED avail

Next == \E s \in Streams : Arrive(s) \/ ReadNext(s)

Spec == Init /\ [][Next]_vars
=============================================================================
