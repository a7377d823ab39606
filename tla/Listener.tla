------------------------------ MODULE Listener ------------------------------
(***************************************************************************)
(* The server's accept path: quic_rcv (src/net/quic/input.c) looks up the  *)
(* socket of a datagram and delivers it under bh_lock_sock, or queues it   *)
(* on the socket backlog when the socket is owned by a task;               *)
(* quic_handshake_do_rcv turns a long-header packet from a new 4-tuple     *)
(* into a request on the listener; quic_accept (src/net/quic/socket.c)     *)
(* waits for a request, dequeues it and builds the connection socket,      *)
(* which quic_accept_sock_init hashes so later datagrams find it.          *)
(*                                                                         *)
(* A peer stands for the 4-tuple of its datagrams. A connection socket is  *)
(* named by its peer; nconn counts the hashed sockets of each 4-tuple.     *)
(***************************************************************************)
EXTENDS Integers, Sequences, FiniteSets

CONSTANTS
  Peers,          \* remote endpoints (4-tuples), model values
  MaxAckBacklog,  \* sk_max_ack_backlog of the listener (listen's backlog)
  BacklogLimit,   \* datagrams a socket backlog holds (sk_add_backlog)
  RcvbufPkts,     \* datagrams the listener's receive queue holds (sk_rcvbuf)
  MaxPackets,     \* datagrams the peers send in a behaviour
  StaleLookup,    \* TRUE: a socket may be hashed between lookup and lock
  TimeoFinite     \* TRUE: the accepting task's sk_rcvtimeo is finite

ASSUME /\ MaxAckBacklog \in Nat /\ BacklogLimit \in Nat /\ RcvbufPkts \in Nat
       /\ MaxPackets \in Nat /\ StaleLookup \in BOOLEAN /\ TimeoFinite \in BOOLEAN

Listen == "listener"   \* the listening socket, as a lookup result
NoPeer == "none"

Packet == [peer : Peers, long : BOOLEAN]

VARIABLES
  lowned,    \* sock_owned_by_user(listener): lock_sock held by quic_accept
  lbacklog,  \* the listener's socket backlog (QUIC_RCV_CB(skb)->backlog = 1)
  reqs,      \* quic_reqs(listener): the request list, in arrival order
  rqlen,     \* datagrams on the listener's sk_receive_queue
  inflight,  \* datagrams looked up in quic_rcv, before bh_lock_sock
  nconn,     \* per 4-tuple: connection sockets hashed (quic_hash)
  cowned,    \* connection sockets owned by quic_accept_sock_init
  cbacklog,  \* per connection socket: its socket backlog
  received,  \* per connection socket: datagrams handed to quic_do_rcv
  acc,       \* where the accepting task is in quic_accept
  req,       \* the request quic_accept dequeued
  sent       \* datagrams sent so far

vars == <<lowned, lbacklog, reqs, rqlen, inflight, nconn, cowned, cbacklog,
          received, acc, req, sent>>

AccStates == {"idle", "ready", "release_wait", "sleep", "nsk_release",
              "release_out"}

Init ==
  /\ lowned = FALSE
  /\ lbacklog = <<>>
  /\ reqs = <<>>
  /\ rqlen = 0
  /\ inflight = <<>>
  /\ nconn = [p \in Peers |-> 0]
  /\ cowned = {}
  /\ cbacklog = [p \in Peers |-> <<>>]
  /\ received = [p \in Peers |-> 0]
  /\ acc = "idle"
  /\ req = NoPeer
  /\ sent = 0

-----------------------------------------------------------------------------
(* Helpers                                                                 *)

\* quic_sock_lookup: a hashed connection socket of the 4-tuple first, else
\* the listener (every peer's datagrams reach the listening port).
Lookup(p) == IF nconn[p] > 0 THEN p ELSE Listen

\* quic_request_sock_exists: a request of the 4-tuple on the list.
RequestExists(p) == \E i \in DOMAIN reqs : reqs[i] = p

\* Mutant: the accept queue admits one more request than listen allows.
AcceptqFullLate == Len(reqs) > MaxAckBacklog + 1

\* sk_acceptq_is_full: sk_ack_backlog > sk_max_ack_backlog.
AcceptqFull == Len(reqs) > MaxAckBacklog

\* A datagram reaching a connection socket under bh_lock_sock: its backlog
\* while quic_accept_sock_init owns it (dropped when full), else
\* sk_backlog_rcv = quic_do_rcv.
ConnRcv(p, pkt) ==
  IF p \in cowned
  THEN /\ cbacklog' = [cbacklog EXCEPT ![p] =
                         IF Len(@) < BacklogLimit THEN Append(@, pkt) ELSE @]
       /\ UNCHANGED received
  ELSE /\ received' = [received EXCEPT ![p] = @ + 1]
       /\ UNCHANGED cbacklog

\* The tail of quic_handshake_do_rcv (label out): the datagram is queued on
\* the listener's receive queue unless sk_rmem_alloc would pass sk_rcvbuf.
ToRcvQueue == rqlen' = IF rqlen < RcvbufPkts THEN rqlen + 1 ELSE rqlen

\* quic_request_sock_enqueue once sk_acceptq_is_full has passed: the
\* GFP_ATOMIC allocation may fail (-ENOMEM, the datagram is freed).
RequestEnqueue(p) ==
  \/ reqs' = Append(reqs, p) /\ ToRcvQueue
  \/ UNCHANGED <<reqs, rqlen>>

\* Mutant: quic_new_sock_do_rcv never finds the just-accepted socket.
NewSockFoundNever(p) == FALSE

\* quic_new_sock_do_rcv: the lookup finds a socket other than the listener.
NewSockFound(p) == Lookup(p) # Listen

\* quic_handshake_do_rcv on the (always listening) listener; fromBacklog is
\* QUIC_RCV_CB(skb)->backlog. With the flag, quic_new_sock_do_rcv looks the
\* 4-tuple up again and hands the datagram to a connection socket hashed
\* since it was queued.
HandshakeDoRcv(pkt, fromBacklog) ==
  LET p == pkt.peer IN
  \/ /\ RequestExists(p)
     /\ ToRcvQueue
     /\ UNCHANGED <<reqs, cbacklog, received>>
  \/ /\ ~RequestExists(p)
     /\ fromBacklog /\ NewSockFound(p)
     /\ ConnRcv(p, pkt)
     /\ UNCHANGED <<reqs, rqlen>>
  \/ /\ ~RequestExists(p)
     /\ ~(fromBacklog /\ NewSockFound(p))
     /\ \/ /\ ~pkt.long \/ AcceptqFull
           /\ UNCHANGED <<reqs, rqlen>>
        \/ /\ pkt.long /\ ~AcceptqFull
           /\ RequestEnqueue(p)
     /\ UNCHANGED <<cbacklog, received>>

\* bh_lock_sock on the looked-up socket in quic_rcv: the socket backlog
\* when owned (dropped when sk_add_backlog fails), else sk_backlog_rcv.
SockRcv(sk, pkt) ==
  IF sk = Listen
  THEN IF lowned
       THEN /\ lbacklog' = IF Len(lbacklog) < BacklogLimit
                           THEN Append(lbacklog, pkt) ELSE lbacklog
            /\ UNCHANGED <<reqs, rqlen, cbacklog, received>>
       ELSE /\ HandshakeDoRcv(pkt, FALSE)
            /\ UNCHANGED lbacklog
  ELSE /\ ConnRcv(sk, pkt)
       /\ UNCHANGED <<lbacklog, reqs, rqlen>>

-----------------------------------------------------------------------------
(* Softirq receive: quic_rcv                                               *)

\* A peer sends a datagram; quic_rcv looks its socket up (quic_sock_lookup)
\* and the datagram waits in inflight until bh_lock_sock on that socket.
Rcv(p, long) ==
  LET pkt == [peer |-> p, long |-> long] IN
  /\ sent < MaxPackets
  /\ sent' = sent + 1
  /\ inflight' = Append(inflight, [pkt |-> pkt, sk |-> Lookup(p)])
  /\ UNCHANGED <<lowned, lbacklog, reqs, rqlen, nconn, cowned, cbacklog,
                 received, acc, req>>

\* The lookup result of datagram i is still what a lookup would return now.
LookupCurrent(i) == inflight[i].sk = Lookup(inflight[i].pkt.peer)

\* bh_lock_sock on the socket found by an earlier lookup; datagrams on
\* different CPUs reach their sockets in any order. Without StaleLookup
\* only schedules in which no socket was hashed between the lookup and
\* the lock are considered.
Deliver(i) ==
  /\ i \in DOMAIN inflight
  /\ StaleLookup \/ LookupCurrent(i)
  /\ SockRcv(inflight[i].sk, inflight[i].pkt)
  /\ inflight' = [j \in 1..Len(inflight) - 1 |->
                    IF j < i THEN inflight[j] ELSE inflight[j + 1]]
  /\ UNCHANGED <<lowned, nconn, cowned, acc, req, sent>>

-----------------------------------------------------------------------------
(* The accepting task: quic_accept and quic_wait_for_accept                *)

\* lock_sock(listener); quic_wait_for_accept finds the list empty and
\* releases the lock before sleeping.
AcceptLock ==
  /\ acc = "idle" /\ ~lowned
  /\ lowned' = TRUE
  /\ acc' = IF reqs # <<>> THEN "ready" ELSE "release_wait"
  /\ UNCHANGED <<lbacklog, reqs, rqlen, inflight, nconn, cowned, cbacklog,
                 received, req, sent>>

\* release_sock(listener): __release_sock hands each backlogged datagram to
\* sk_backlog_rcv with the lock still owned, then the owner is cleared.
ReleaseStep ==
  /\ acc \in {"release_wait", "release_out"}
  /\ IF lbacklog # <<>>
     THEN /\ HandshakeDoRcv(Head(lbacklog), TRUE)
          /\ lbacklog' = Tail(lbacklog)
          /\ UNCHANGED <<lowned, acc>>
     ELSE /\ lowned' = FALSE
          /\ acc' = IF acc = "release_wait" THEN "sleep" ELSE "idle"
          /\ UNCHANGED <<lbacklog, reqs, rqlen, cbacklog, received>>
  /\ UNCHANGED <<inflight, nconn, cowned, req, sent>>

\* schedule_timeout returns and lock_sock is taken again: a request is
\* queued, or the finite timeout expired (-EAGAIN), or a spurious wakeup
\* (sk_data_ready of a queued datagram) goes round the loop again.
WakeOutcome ==
  IF reqs # <<>> THEN "ready"
  ELSE IF TimeoFinite THEN "release_out" ELSE "release_wait"

Wake ==
  /\ acc = "sleep" /\ ~lowned
  /\ reqs # <<>> \/ TimeoFinite
  /\ lowned' = TRUE
  /\ acc' = WakeOutcome
  /\ UNCHANGED <<lbacklog, reqs, rqlen, inflight, nconn, cowned, cbacklog,
                 received, req, sent>>

SpuriousWake ==
  /\ acc = "sleep" /\ ~lowned /\ reqs = <<>>
  /\ lowned' = TRUE
  /\ acc' = WakeOutcome
  /\ UNCHANGED <<lbacklog, reqs, rqlen, inflight, nconn, cowned, cbacklog,
                 received, req, sent>>

\* signal_pending: -EINTR unless a request is already queued.
Signal ==
  /\ acc = "sleep" /\ ~lowned
  /\ lowned' = TRUE
  /\ acc' = IF reqs # <<>> THEN "ready" ELSE "release_out"
  /\ UNCHANGED <<lbacklog, reqs, rqlen, inflight, nconn, cowned, cbacklog,
                 received, req, sent>>

\* quic_hash of a connection socket: -EADDRINUSE when a socket with the
\* same 4-tuple is hashed already.
Hash(p) ==
  IF nconn[p] > 0 THEN "EADDRINUSE"
  ELSE "ok"

\* quic_request_sock_dequeue, then sk_alloc, init, quic_copy_sock, bind and
\* quic_accept_sock_init under lock_sock(nsk): each may fail (the request
\* is freed, the socket closed); quic_hash makes the socket visible to
\* lookups while quic_accept_sock_init still owns it.
AcceptDequeue ==
  LET p == Head(reqs) IN
  /\ acc = "ready"
  /\ reqs' = Tail(reqs)
  /\ \/ /\ acc' = "release_out"
        /\ UNCHANGED <<nconn, cowned, req>>
     \/ /\ Hash(p) = "ok"
        /\ nconn' = [nconn EXCEPT ![p] = @ + 1]
        /\ cowned' = cowned \cup {p}
        /\ req' = p
        /\ acc' = "nsk_release"
     \/ /\ Hash(p) = "EADDRINUSE"
        /\ acc' = "release_out"
        /\ UNCHANGED <<nconn, cowned, req>>
  /\ UNCHANGED <<lowned, lbacklog, rqlen, inflight, cbacklog, received, sent>>

\* release_sock(nsk) at the end of quic_accept_sock_init: its backlog goes
\* to quic_do_rcv, then the socket is no longer owned.
NskRelease ==
  /\ acc = "nsk_release"
  /\ IF cbacklog[req] # <<>>
     THEN /\ cbacklog' = [cbacklog EXCEPT ![req] = Tail(@)]
          /\ received' = [received EXCEPT ![req] = @ + 1]
          /\ UNCHANGED <<cowned, acc, req>>
     ELSE /\ cowned' = cowned \ {req}
          /\ acc' = "release_out"
          /\ req' = NoPeer
          /\ UNCHANGED <<cbacklog, received>>
  /\ UNCHANGED <<lowned, lbacklog, reqs, rqlen, inflight, nconn, sent>>

Next ==
  \/ \E p \in Peers, long \in BOOLEAN : Rcv(p, long)
  \/ \E i \in DOMAIN inflight : Deliver(i)
  \/ AcceptLock \/ ReleaseStep \/ Wake \/ SpuriousWake \/ Signal
  \/ AcceptDequeue \/ NskRelease

\* The kernel runs softirqs and the woken accepting task: delivery, the
\* release of a held lock and the accept steps are weakly fair; calling
\* accept, spurious wakeups and signals are not.
Fairness ==
  /\ \A i \in 1..MaxPackets : WF_vars(Deliver(i))
  /\ WF_vars(ReleaseStep) /\ WF_vars(Wake)
  /\ WF_vars(AcceptDequeue) /\ WF_vars(NskRelease)

Spec == Init /\ [][Next]_vars /\ Fairness

-----------------------------------------------------------------------------
(* Properties                                                              *)

TypeOK ==
  /\ lowned \in BOOLEAN
  /\ lbacklog \in Seq(Packet) /\ Len(lbacklog) <= BacklogLimit
  /\ reqs \in Seq(Peers) /\ Len(reqs) <= MaxAckBacklog + 1
  /\ rqlen \in 0..RcvbufPkts
  /\ inflight \in Seq([pkt : Packet, sk : Peers \cup {Listen}])
  /\ nconn \in [Peers -> Nat]
  /\ cowned \subseteq Peers
  /\ cbacklog \in [Peers -> Seq(Packet)]
  /\ received \in [Peers -> 0..MaxPackets]
  /\ acc \in AccStates
  /\ req \in Peers \cup {NoPeer}
  /\ sent \in 0..MaxPackets

\* Requests queued for a 4-tuple.
CountReqs(p) == Len(SelectSeq(reqs, LAMBDA q : q = p))

\* A 4-tuple has at most one connection in the making: one queued request
\* or one hashed socket, never both and never two. quic_rcv's lookup,
\* quic_request_sock_exists and the backlog flag of quic_handshake_do_rcv
\* (the re-lookup in quic_new_sock_do_rcv) together are meant to ensure
\* that a datagram of an accepted connection never opens another.
RequestUnique == \A p \in Peers : CountReqs(p) + nconn[p] <= 1

=============================================================================
