--------------------------- MODULE MCInboundStream ---------------------------
(* Instantiates InboundStream for TLC: a client-initiated bidirectional    *)
(* stream (id 0) and a client-initiated unidirectional one (id 2), three   *)
(* bytes each. Stream 0 has two bytes of credit, so MAX_STREAM_DATA must   *)
(* be re-opened mid-stream; stream 2 has credit for all of it, so its fin  *)
(* may arrive first. Connection credit of four bytes binds before both    *)
(* streams finish.                                                         *)
EXTENDS InboundStream

MCStreams == {0, 2}

\* initial_max_stream_data_bidi_remote = 2, initial_max_stream_data_uni = 3.
MCStreamWindow == [s \in MCStreams |-> IF s = 0 THEN 2 ELSE 3]

\* A sender that always cuts the stream at the same byte boundaries, so a
\* retransmission repeats an earlier frame exactly.
FixedSegments == {[off |-> 0, len |-> 1], [off |-> 1, len |-> 1], [off |-> 2, len |-> 1]}

\* Two cuts of the same stream: a retransmission may be re-packetized at
\* other boundaries, as RFC 9000 allows, so frames overlap.
ResegmentedSegments == {g \in [off : 0..2, len : 1..3] : g.off + g.len <= 3}
=============================================================================
