--------------------------- MODULE PathValidation ---------------------------
(***************************************************************************)
(* Connection migration and path validation of a QUIC socket:              *)
(*   - quic_sock_change_saddr (src/net/quic/socket.c): the application     *)
(*     moves to a new local address and validates it;                      *)
(*   - quic_sock_change_daddr: the destination moves to the alternate      *)
(*     address at once and is validated there;                             *)
(*   - quic_timer_path_handler (src/modules/net/quic/timer.c): every 3 PTO *)
(*     a validation in progress re-sends PATH_CHALLENGE, up to 5 times,    *)
(*     after which it is abandoned (the destination reverts); with no      *)
(*     validation in progress the timer drives PLPMTUD probes.             *)
(* Each of the two path_addr structures has two address slots, one of them *)
(* active; a slot is abstracted to whether its address has been validated. *)
(***************************************************************************)
EXTENDS Integers

CONSTANTS
  MaxChallenges,  \* the "cnt >= 5" limit of quic_timer_path_handler
  Overlap         \* whether a local and a peer migration may run at once

ASSUME MaxChallenges \in Nat \ {0} /\ Overlap \in BOOLEAN

Paths == {"src", "dst"}   \* quic_src(sk) and quic_dst(sk)
Slots == {0, 1}

VARIABLES
  active,       \* path->active: the slot in use
  ok,           \* whether the address in each slot has been validated
  cnt,          \* quic_path_sent_cnt: challenges sent in this validation
  chal,         \* history: PATH_CHALLENGE frames queued in this validation
  timer,        \* QUIC_TIMER_PATH is pending
  established,  \* quic_is_established(sk)
  closed,       \* quic_is_closed(sk)
  noMigration   \* the peer's disable_active_migration transport parameter

vars == <<active, ok, cnt, chal, timer, established, closed, noMigration>>

Alt(p) == 1 - active[p]

\* A new validation of path p may start: sent_cnt is 0 (else -EINVAL),
\* and, when migrations are not to overlap, the other path is idle.
MayStart(p) ==
  /\ cnt[p] = 0
  /\ Overlap \/ \A q \in Paths : cnt[q] = 0

\* Mutant: the path timer is not reset when a validation starts.
StartValidationNoTimer(p) ==
  /\ cnt' = [cnt EXCEPT ![p] = 1]
  /\ chal' = [chal EXCEPT ![p] = 1]
  /\ UNCHANGED timer

\* The common tail of both change functions: one PATH_CHALLENGE queued,
\* sent_cnt = 1, and the path timer (re)armed by quic_timer_reset.
StartValidation(p) ==
  /\ cnt' = [cnt EXCEPT ![p] = 1]
  /\ chal' = [chal EXCEPT ![p] = 1]
  /\ timer' = TRUE

\* quic_sock_change_saddr with a new address on an established connection:
\* refused if the peer disabled active migration; the alternate slot takes
\* the new (unvalidated) address, NEW_CONNECTION_ID and PATH_CHALLENGE are
\* queued. With a NULL address the preferred address is dropped and the
\* existing alternate slot is validated.
ChangeSaddr(hasAddr) ==
  /\ ~closed
  /\ MayStart("src")
  /\ hasAddr => established /\ ~noMigration
  /\ ok' = IF hasAddr THEN [ok EXCEPT !["src"][Alt("src")] = FALSE] ELSE ok
  /\ StartValidation("src")
  /\ UNCHANGED <<active, established, closed, noMigration>>

\* quic_sock_change_saddr failing after the new address was stored: the
\* bind port, the UDP socket or the NEW_CONNECTION_ID frame could not be
\* had; quic_path_addr_free clears the alternate slot, no validation starts.
ChangeSaddrFail ==
  /\ ~closed
  /\ cnt["src"] = 0
  /\ established /\ ~noMigration
  /\ ok' = [ok EXCEPT !["src"][Alt("src")] = FALSE]
  /\ UNCHANGED <<active, cnt, chal, timer, established, closed, noMigration>>

\* quic_sock_change_saddr before the handshake completes (server): the
\* address is recorded as the preferred address in the alternate slot.
SetPreferredAddr ==
  /\ ~closed
  /\ ~established
  /\ cnt["src"] = 0
  /\ ok' = [ok EXCEPT !["src"][Alt("src")] = FALSE]
  /\ UNCHANGED <<active, cnt, chal, timer, established, closed, noMigration>>

\* quic_sock_change_daddr: refused while a validation is in progress;
\* the active index is swapped first, so the new address (when addr is
\* not NULL) is written by quic_path_addr_set(path, addr, 1) into the slot
\* that is now the alternate one, the previously active slot. With a NULL
\* address no slot changes. A PATH_CHALLENGE is sent on the new active
\* slot and the path timer is reset. No state check precedes it.
ChangeDaddr(hasAddr) ==
  /\ MayStart("dst")
  /\ active' = [active EXCEPT !["dst"] = Alt("dst")]
  /\ ok' = IF hasAddr THEN [ok EXCEPT !["dst"][active["dst"]] = FALSE] ELSE ok
  /\ StartValidation("dst")
  /\ UNCHANGED <<established, closed, noMigration>>

\* Mutant: the limit is tested with ">" instead of ">=".
RetryPastLimit(c, h, p) ==
  [cnt |-> [c EXCEPT ![p] = IF @ > MaxChallenges THEN 0 ELSE @ + 1],
   chal |-> [h EXCEPT ![p] = IF c[p] > MaxChallenges THEN @ ELSE @ + 1]]

\* One path's part of quic_timer_path_handler while it validates: at the
\* limit the validation is abandoned, else another challenge is queued.
Retry(c, h, p) ==
  [cnt |-> [c EXCEPT ![p] = IF @ >= MaxChallenges THEN 0 ELSE @ + 1],
   chal |-> [h EXCEPT ![p] = IF c[p] >= MaxChallenges THEN @ ELSE @ + 1]]

\* Mutant: the swap steps the active index instead of flipping it.
DstRevertStep ==
  IF cnt["dst"] >= MaxChallenges THEN [active EXCEPT !["dst"] = @ + 1] ELSE active

\* An abandoned destination validation swaps back to the previous address.
DstRevert ==
  IF cnt["dst"] >= MaxChallenges THEN [active EXCEPT !["dst"] = Alt("dst")] ELSE active

\* quic_timer_path_timeout -> quic_timer_path_handler. The source path is
\* handled first and its abandonment returns at once; the destination's
\* abandonment swaps back to the previous address; with neither path
\* validating, quic_outq_transmit_probe sends a PLPMTUD probe, which may
\* re-arm the timer.
PathTimeout ==
  /\ timer
  /\ IF closed
     THEN /\ timer' = FALSE
          /\ UNCHANGED <<active, ok, cnt, chal>>
     ELSE IF cnt["src"] >= MaxChallenges
     THEN /\ cnt' = [cnt EXCEPT !["src"] = 0]
          /\ timer' = FALSE
          /\ UNCHANGED <<active, ok, chal>>
     ELSE LET r1 == IF cnt["src"] > 0 THEN Retry(cnt, chal, "src")
                    ELSE [cnt |-> cnt, chal |-> chal]
              r2 == IF cnt["dst"] > 0 THEN Retry(r1.cnt, r1.chal, "dst") ELSE r1
          IN /\ cnt' = r2.cnt
             /\ chal' = r2.chal
             /\ active' = DstRevert
             /\ IF cnt["src"] = 0 /\ cnt["dst"] = 0
                THEN timer' \in BOOLEAN
                ELSE timer' = (cnt["dst"] \in 1..MaxChallenges - 1 \/ cnt["src"] > 0)
             /\ UNCHANGED ok
  /\ UNCHANGED <<established, closed, noMigration>>

\* A PATH_RESPONSE matching the challenge of path p (frame handling): the
\* validated source address becomes active; the destination, already
\* moved, is confirmed. The validation ends.
PathResponse(p) ==
  /\ ~closed
  /\ cnt[p] > 0
  /\ LET s == IF p = "src" THEN Alt(p) ELSE active[p]
     IN /\ active' = [active EXCEPT ![p] = s]
        /\ ok' = [ok EXCEPT ![p][s] = TRUE]
  /\ cnt' = [cnt EXCEPT ![p] = 0]
  /\ UNCHANGED <<chal, timer, established, closed, noMigration>>

\* quic_sock_set_crypto_secret, application receive key installed: the
\* connection is established and the path timer is re-armed as the
\* PLPMTUD probe timer.
Establish ==
  /\ ~closed
  /\ ~established
  /\ established' = TRUE
  /\ timer' = TRUE
  /\ UNCHANGED <<active, ok, cnt, chal, closed, noMigration>>

\* quic_close / quic_shutdown: the state becomes CLOSED; the path timer is
\* not stopped, its handler returns on a closed socket.
Close ==
  /\ ~closed
  /\ closed' = TRUE
  /\ UNCHANGED <<active, ok, cnt, chal, timer, established, noMigration>>

Init ==
  /\ active = [p \in Paths |-> 0]
  /\ ok = [p \in Paths |-> [i \in Slots |-> i = 0]]
  /\ cnt = [p \in Paths |-> 0]
  /\ chal = [p \in Paths |-> 0]
  /\ timer = FALSE
  /\ established = FALSE
  /\ closed = FALSE
  /\ noMigration \in BOOLEAN

Next ==
  \/ \E hasAddr \in BOOLEAN : ChangeSaddr(hasAddr)
  \/ ChangeSaddrFail
  \/ SetPreferredAddr
  \/ \E hasAddr \in BOOLEAN : ChangeDaddr(hasAddr)
  \/ PathTimeout
  \/ \E p \in Paths : PathResponse(p)
  \/ Establish
  \/ Close

\* Kernel timers fire; nothing forces the peer to answer a challenge.
Spec == Init /\ [][Next]_vars /\ WF_vars(PathTimeout)

-----------------------------------------------------------------------------
TypeOK ==
  /\ active \in [Paths -> Slots]
  /\ ok \in [Paths -> [Slots -> BOOLEAN]]
  /\ cnt \in [Paths -> 0..255]   \* u8 sent_cnt
  /\ chal \in [Paths -> Nat]
  /\ timer \in BOOLEAN /\ established \in BOOLEAN
  /\ closed \in BOOLEAN /\ noMigration \in BOOLEAN

\* Outside a validation the socket only uses validated addresses: a
\* successful validation activates the validated address, and an abandoned
\* destination validation (the swap back in quic_timer_path_handler)
\* returns to the address that was in use before quic_sock_change_daddr.
ActivePathValidated ==
  \A p \in Paths : cnt[p] = 0 => ok[p][active[p]]

\* A validation sends at most five PATH_CHALLENGE frames (spec 4.5: up to
\* 5 challenge attempts).
ChallengeLimit ==
  \A p \in Paths : chal[p] <= MaxChallenges

\* While a validation is in progress on an open socket the path timer is
\* pending: otherwise nothing would re-send the challenge or give up.
ValidationTimerArmed ==
  (~closed /\ \E p \in Paths : cnt[p] > 0) => timer
=============================================================================
