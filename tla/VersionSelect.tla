---------------------------- MODULE VersionSelect ----------------------------
(***************************************************************************)
(* Version selection of src/net/quic/socket.c: quic_select_version walks   *)
(* the peer's version list against the quic_versions table and installs    *)
(* the largest supported version in the inqueue (quic_inq_set_version);    *)
(* with none supported it returns -1 and leaves the version as it was.     *)
(* quic_compatible_versions looks a version up in the same table.          *)
(* The loop is translated as a recursive operator and checked, over every  *)
(* list of up to MaxCount versions drawn from Wire, against a declarative  *)
(* reference.                                                              *)
(***************************************************************************)
EXTENDS Integers, Sequences, FiniteSetsExt

CONSTANTS
  Wire,      \* version numbers a peer may list (u32 values below 2^31)
  MaxCount   \* longest list enumerated (the u8 count of the call)

QUIC_VERSION_V1 == 1
QUIC_VERSION_V2 == 1798521807   \* 0x6b3343cf

\* quic_versions: { version, compatible versions } rows.
quic_versions == <<<<QUIC_VERSION_V1, 0>>, <<QUIC_VERSION_V2, 0>>>>

ASSUME Wire \subseteq 0..2147483647 /\ MaxCount \in 1..255

VARIABLES
  offered,   \* the versions argument of the last call
  ret,       \* its return value
  version    \* quic_inq(sk)->version

vars == <<offered, ret, version>>

\* quic_compatible_versions: the table row of a version, or NULL (<<>>).
CompatibleVersions(v) ==
  LET rows == {i \in DOMAIN quic_versions : quic_versions[i][1] = v}
  IN IF rows = {} THEN <<>> ELSE quic_versions[Min(rows)]

\* Mutant: the first supported version is kept, larger ones ignored.
MatchesFirst(v, best) ==
  \E j \in DOMAIN quic_versions : v = quic_versions[j][1] /\ best = 0

\* One pass of the inner loop: the first table row equal to versions[i]
\* raises best when it is larger.
Matches(v, best) ==
  \E j \in DOMAIN quic_versions : v = quic_versions[j][1] /\ best < v

\* The outer loop of quic_select_version from index i with best so far.
RECURSIVE SelectLoop(_, _, _)
SelectLoop(vs, i, best) ==
  IF i > Len(vs) THEN best
  ELSE SelectLoop(vs, i + 1, IF Matches(vs[i], best) THEN vs[i] ELSE best)

\* quic_select_version: the selected version, or 0 when none matched.
SelectVersion(vs) == SelectLoop(vs, 1, 0)

\* Mutant: the version is installed before the "if (!best)" check.
SelectUnchecked(vs) ==
  LET best == SelectVersion(vs)
  IN /\ offered' = vs
     /\ ret' = IF best = 0 THEN -1 ELSE 0
     /\ version' = best

\* A peer's call with a list vs: -1 leaves the inqueue version alone.
Select(vs) ==
  LET best == SelectVersion(vs)
  IN /\ offered' = vs
     /\ ret' = IF best = 0 THEN -1 ELSE 0
     /\ version' = IF best = 0 THEN version ELSE best

\* Every list of 0..MaxCount versions from Wire.
Lists == UNION {[1..n -> Wire] : n \in 0..MaxCount}

\* No call made yet; the inqueue holds some version of the table
\* (quic_inq_init is not in this source).
Init ==
  /\ offered = <<>>
  /\ ret = -1
  /\ version \in {quic_versions[i][1] : i \in DOMAIN quic_versions}

Next == \E vs \in Lists : Select(vs)

Spec == Init /\ [][Next]_vars

-----------------------------------------------------------------------------
Supported == {quic_versions[i][1] : i \in DOMAIN quic_versions}

TypeOK ==
  /\ offered \in Lists
  /\ ret \in {-1, 0}
  /\ version \in Supported

\* The reference: the call succeeds exactly when the peer lists a version
\* of the table, and then installs the largest one it lists, wherever it
\* stands in the list.
SelectMatchesReference ==
  LET common == {offered[i] : i \in DOMAIN offered} \cap Supported
  IN /\ (ret = 0) <=> common # {}
     /\ common # {} => version = Max(common)
=============================================================================
