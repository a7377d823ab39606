----------------------------- MODULE TimerDefer -----------------------------
(***************************************************************************)
(* The socket timers of src/modules/net/quic/timer.c against the socket    *)
(* lock and the socket reference count:                                    *)
(*   - quic_timer_start / quic_timer_reset take a reference (sock_hold)    *)
(*     when they arm a timer that was not pending; quic_timer_stop drops   *)
(*     it when del_timer removes a pending one (the PACE hrtimer is never  *)
(*     stopped);                                                           *)
(*   - an expired timer's callback runs in softirq under bh_lock_sock: if  *)
(*     the user owns the socket it only sets a *_DEFERRED bit, taking one  *)
(*     reference for the bit; otherwise it runs the handler; either way it *)
(*     drops the timer's reference;                                        *)
(*   - release_sock processes the backlog and calls quic_release_cb,       *)
(*     which should run the handlers whose bits are set and drop their     *)
(*     references;                                                         *)
(*   - quic_close sets CLOSED, releases the lock and calls                 *)
(*     sk_common_release: quic_destroy_sock -> quic_timer_free stops the   *)
(*     timers, and the user's reference is dropped.                        *)
(* The socket is freed when the count reaches zero.                        *)
(***************************************************************************)
EXTENDS Integers, FiniteSets

CONSTANTS
  ServiceDeferred,  \* whether release_cb runs the timers' deferred handlers
  BacklogLimit      \* packets sk_add_backlog accepts before dropping

ASSUME ServiceDeferred \in BOOLEAN /\ BacklogLimit \in Nat \ {0}

\* QUIC_TIMER_IDLE shares the SACK timer: quic_timer_init sets up only
\* these four, and quic_timer_sack_handler performs the idle close.
Timers == {"LOSS", "SACK", "PATH", "PACE"}

VARIABLES
  pending,   \* timer_pending / hrtimer_is_queued
  running,   \* the callback of an expired timer is on its way in softirq
  deferred,  \* the timer's *_DEFERRED bit in sk_tsq_flags
  refs,      \* sk_refcnt
  owned,     \* sock_owned_by_user
  user,      \* the application: "idle", "in" a socket call holding the
             \* lock, "releasing" it, "destroying" (sk_common_release), "gone"
  closed,    \* sk_state = QUIC_SS_CLOSED
  closing,   \* the call in progress is quic_close
  backlog    \* packets on the socket backlog

vars == <<pending, running, deferred, refs, owned, user, closed, closing, backlog>>

\* The application's reference from socket creation until sk_common_release.
UserRef == IF user = "gone" THEN 0 ELSE 1

Count(f) == Cardinality({t \in Timers : f[t]})

-----------------------------------------------------------------------------
(* Arming and stopping. Both arm paths leave an already pending timer     *)
(* pending with no new reference (mod_timer returns 1, or the start is    *)
(* skipped); arming an idle one takes a reference.                         *)

\* Mutant: a reference is taken even when the timer was already pending.
TimerStartAlwaysHold(p, r, t) ==
  [p |-> [p EXCEPT ![t] = TRUE], r |-> r + 1]

\* quic_timer_start(sk, t, timeout) with a non-zero timeout.
TimerStart(p, r, t) ==
  IF p[t] THEN [p |-> p, r |-> r]
  ELSE [p |-> [p EXCEPT ![t] = TRUE], r |-> r + 1]

\* quic_timer_reset(sk, t, timeout) with a non-zero timeout: mod_timer
\* re-arms a pending timer and takes a reference for an idle one.
TimerReset(p, r, t) == TimerStart(p, r, t)

\* Mutant: sock_put whether or not del_timer found the timer pending.
TimerStopAlwaysPut(p, r, t) ==
  IF t = "PACE" THEN [p |-> p, r |-> r]
  ELSE [p |-> [p EXCEPT ![t] = FALSE], r |-> r - 1]

\* quic_timer_stop: del_timer drops the reference of a pending timer; the
\* PACE hrtimer is left queued.
TimerStop(p, r, t) ==
  IF t = "PACE" \/ ~p[t] THEN [p |-> p, r |-> r]
  ELSE [p |-> [p EXCEPT ![t] = FALSE], r |-> r - 1]

\* Arm every timer of a set, threading the reference count.
RECURSIVE ArmAll(_, _, _)
ArmAll(p, r, S) ==
  IF S = {} THEN [p |-> p, r |-> r]
  ELSE LET t == CHOOSE x \in S : TRUE
           a == TimerStart(p, r, t)
       IN ArmAll(a.p, a.r, S \ {t})

\* quic_timer_free: stop LOSS, SACK, PATH and PACE.
TimerFree(p, r) ==
  LET a == TimerStop(p, r, "LOSS")
      b == TimerStop(a.p, a.r, "SACK")
      c == TimerStop(b.p, b.r, "PATH")
  IN TimerStop(c.p, c.r, "PACE")

-----------------------------------------------------------------------------
\* Mutant: the handlers lack their quic_is_closed early return.
HandlerOutcomesNoClosedCheck(t) ==
  IF t = "SACK"
  THEN {[rearm |-> {"SACK"}, close |-> FALSE], [rearm |-> {}, close |-> TRUE]}
  ELSE {[rearm |-> R, close |-> FALSE] : R \in SUBSET {t}}

(* A handler's effect on an open socket, as the set of timers it re-arms  *)
(* and whether it closes the connection. On a closed socket every handler *)
(* returns at once.                                                        *)
(*   - sack: with an ACK due it transmits and restarts the idle timer      *)
(*     (the SACK timer); otherwise the idle timeout closes the socket;     *)
(*   - loss: quic_outq_transmit_pto, which re-arms the loss timer or not;  *)
(*   - path: a challenge retry re-arms it, a probe may (PathValidation);   *)
(*   - pace: quic_outq_transmit, which may queue the pacing timer again.   *)
HandlerOutcomes(t) ==
  IF closed THEN {[rearm |-> {}, close |-> FALSE]}
  ELSE IF t = "SACK"
  THEN {[rearm |-> {"SACK"}, close |-> FALSE], [rearm |-> {}, close |-> TRUE]}
  ELSE {[rearm |-> R, close |-> FALSE] : R \in SUBSET {t}}

\* Processing a packet (quic_packet_process, not in this source) may start
\* the delayed-ACK, loss and pacing timers; nothing on a closed socket.
ProcessArms == IF closed THEN {{}} ELSE SUBSET {"LOSS", "SACK", "PACE"}

-----------------------------------------------------------------------------
(* The timer side.                                                         *)

\* A pending timer expires; its reference passes to the callback.
Expire(t) ==
  /\ pending[t]
  /\ ~running[t]
  /\ pending' = [pending EXCEPT ![t] = FALSE]
  /\ running' = [running EXCEPT ![t] = TRUE]
  /\ UNCHANGED <<deferred, refs, owned, user, closed, closing, backlog>>

\* quic_timer_{loss,sack,path,pace}_timeout under bh_lock_sock: defer to
\* the owner (one reference for a newly set bit) or run the handler; then
\* sock_put for the timer's reference. bh_lock_sock spins while
\* release_sock holds the socket spinlock.
Timeout(t) ==
  /\ running[t]
  /\ user # "releasing"
  /\ running' = [running EXCEPT ![t] = FALSE]
  /\ IF owned
     THEN /\ deferred' = [deferred EXCEPT ![t] = TRUE]
          /\ refs' = refs + (IF deferred[t] THEN 0 ELSE 1) - 1
          /\ UNCHANGED <<pending, closed>>
     ELSE \E o \in HandlerOutcomes(t) :
            LET a == ArmAll(pending, refs, o.rearm)
            IN /\ pending' = a.p
               /\ refs' = a.r - 1
               /\ closed' = (closed \/ o.close)
               /\ UNCHANGED deferred
  /\ UNCHANGED <<owned, user, closing, backlog>>

\* quic_rcv for a packet of this socket: queued on the backlog while the
\* user owns the socket (dropped when it is full), else processed at once.
\* Once sk_common_release has unhashed the socket no packet finds it.
Rcv ==
  /\ user \notin {"releasing", "gone"}
  /\ IF owned
     THEN /\ backlog' = IF backlog < BacklogLimit THEN backlog + 1 ELSE backlog
          /\ UNCHANGED <<pending, refs>>
     ELSE \E S \in ProcessArms :
            LET a == ArmAll(pending, refs, S)
            IN /\ pending' = a.p /\ refs' = a.r /\ UNCHANGED backlog
  /\ UNCHANGED <<running, deferred, owned, user, closed, closing>>

-----------------------------------------------------------------------------
(* The application side: every socket call in socket.c takes lock_sock   *)
(* and ends in release_sock.                                               *)

\* lock_sock at the start of a socket call.
Lock ==
  /\ user = "idle"
  /\ owned' = TRUE
  /\ user' = "in"
  /\ UNCHANGED <<pending, running, deferred, refs, closed, closing, backlog>>

\* A call that arms a timer under the lock: quic_sock_change_saddr,
\* quic_sock_change_daddr and quic_sock_set_crypto_secret reset the path
\* timer; sendmsg starts the loss and pacing timers through the outqueue.
UserArm(t) ==
  /\ user = "in"
  /\ ~closed
  /\ LET a == IF t = "PATH" THEN TimerReset(pending, refs, t)
                            ELSE TimerStart(pending, refs, t)
     IN pending' = a.p /\ refs' = a.r
  /\ UNCHANGED <<running, deferred, owned, user, closed, closing, backlog>>

\* quic_close up to its release_sock: under the lock the state becomes
\* CLOSED and the queues, paths and connection IDs are freed.
Close ==
  /\ user = "idle"
  /\ owned' = TRUE
  /\ closed' = TRUE
  /\ closing' = TRUE
  /\ user' = "in"
  /\ UNCHANGED <<pending, running, deferred, refs, backlog>>

\* release_sock, first part: __release_sock hands every backlogged packet
\* to quic_do_rcv, which may start timers.
ReleaseBacklog ==
  /\ user = "in"
  /\ \E S \in (IF backlog = 0 THEN {{}} ELSE ProcessArms) :
       LET a == ArmAll(pending, refs, S)
       IN pending' = a.p /\ refs' = a.r
  /\ backlog' = 0
  /\ user' = "releasing"
  /\ UNCHANGED <<running, deferred, owned, closed, closing>>

\* The deferred bits quic_release_cb acts on. The release_cb of
\* src/net/quic/socket.c tests only QUIC_MTU_REDUCED_DEFERRED, none of
\* the timers' bits.
HandledBits == IF ServiceDeferred THEN Timers ELSE {}

\* release_cb running one deferred timer handler: the bit is cleared, the
\* handler runs and __sock_put drops the bit's reference.
ReleaseCb(t) ==
  /\ user = "releasing"
  /\ t \in HandledBits
  /\ deferred[t]
  /\ \E o \in HandlerOutcomes(t) :
       LET a == ArmAll(pending, refs, o.rearm)
       IN /\ pending' = a.p
          /\ refs' = a.r - 1
          /\ closed' = (closed \/ o.close)
  /\ deferred' = [deferred EXCEPT ![t] = FALSE]
  /\ UNCHANGED <<running, owned, user, closing, backlog>>

\* release_sock, last part: once release_cb is done ownership is dropped.
\* After quic_close, sk_common_release follows.
ReleaseDone ==
  /\ user = "releasing"
  /\ \A t \in HandledBits : ~deferred[t]
  /\ owned' = FALSE
  /\ user' = IF closing THEN "destroying" ELSE "idle"
  /\ UNCHANGED <<pending, running, deferred, refs, closed, closing, backlog>>

\* sk_common_release: quic_destroy_sock calls quic_timer_free, then the
\* application's reference is dropped.
Destroy ==
  /\ user = "destroying"
  /\ LET a == TimerFree(pending, refs)
     IN pending' = a.p /\ refs' = a.r - 1
  /\ user' = "gone"
  /\ UNCHANGED <<running, deferred, owned, closed, closing, backlog>>

-----------------------------------------------------------------------------
\* quic_init_sock: timers set up, nothing pending, one reference.
Init ==
  /\ pending = [t \in Timers |-> FALSE]
  /\ running = [t \in Timers |-> FALSE]
  /\ deferred = [t \in Timers |-> FALSE]
  /\ refs = 1
  /\ owned = FALSE
  /\ user = "idle"
  /\ closed = FALSE
  /\ closing = FALSE
  /\ backlog = 0

Next ==
  \/ \E t \in Timers : Expire(t) \/ Timeout(t) \/ UserArm(t) \/ ReleaseCb(t)
  \/ Rcv \/ Lock \/ Close \/ ReleaseBacklog \/ ReleaseDone \/ Destroy

\* Kernel timers expire and their softirq callbacks complete; every socket
\* call that holds the lock runs on to release_sock, and quic_close on to
\* sk_common_release. The application need not call anything, and no
\* packet need arrive.
Fairness ==
  /\ \A t \in Timers : WF_vars(Expire(t)) /\ WF_vars(Timeout(t)) /\ WF_vars(ReleaseCb(t))
  /\ WF_vars(ReleaseBacklog) /\ WF_vars(ReleaseDone) /\ WF_vars(Destroy)

Spec == Init /\ [][Next]_vars /\ Fairness

-----------------------------------------------------------------------------
TypeOK ==
  /\ pending \in [Timers -> BOOLEAN] /\ running \in [Timers -> BOOLEAN]
  /\ deferred \in [Timers -> BOOLEAN]
  /\ refs \in Nat
  /\ owned \in BOOLEAN /\ closed \in BOOLEAN /\ closing \in BOOLEAN
  /\ user \in {"idle", "in", "releasing", "destroying", "gone"}
  /\ backlog \in 0..BacklogLimit

\* sk_refcnt counts exactly the holders: the application until
\* sk_common_release, each pending timer, each callback on its way, and
\* each deferred bit. A miss either way is a leak or a use after free.
RefCountExact ==
  refs = UserRef + Count(pending) + Count(running) + Count(deferred)

\* After quic_close every reference is eventually dropped, so the socket
\* is freed.
SocketFreed ==
  (user = "gone") ~> (refs = 0)
=============================================================================
