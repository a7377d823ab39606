--------------------------- MODULE MCVersionSelect ---------------------------
(* Lists of up to four versions drawn from v1, v2, a reserved greasing     *)
(* version (0x0a0a0a0a) and 0, the version field of a Version Negotiation  *)
(* packet.                                                                 *)
EXTENDS VersionSelect

MCWire == {0, QUIC_VERSION_V1, QUIC_VERSION_V2, 168430090}
=============================================================================
