---------------------------- MODULE ConnLifecycle ----------------------------
(***************************************************************************)
(* The application-driven life of a connection socket in                  *)
(* src/net/quic/socket.c: quic_connect (client) or quic_accept_sock_init   *)
(* (server) makes it ESTABLISHING; the handshake library installs keys     *)
(* with setsockopt(QUIC_SOCKOPT_CRYPTO_SECRET), handled by                 *)
(* quic_sock_set_crypto_secret, whose 1-RTT receive key makes it           *)
(* ESTABLISHED and whose 1-RTT send key pre-issues source connection IDs;  *)
(* setsockopt(QUIC_SOCKOPT_RETIRE_CONNECTION_ID) issues or retires         *)
(* connection IDs; quic_shutdown and quic_close end it. Application       *)
(* threads send on the socket's first bidirectional stream with           *)
(* quic_sendmsg, open it with getsockopt(QUIC_SOCKOPT_STREAM_OPEN) and     *)
(* reset it or stop its receive side with setsockopt. Every call runs     *)
(* under lock_sock, so a call is an atomic step up to the point where     *)
(* quic_wait_for_send sleeps with the lock released; the rest of the call *)
(* is another step, after which the stream may have changed.              *)
(*                                                                         *)
(* Connection IDs are their sequence numbers. Frames queued on the         *)
(* outqueue's control list are recorded in `ctrl`, in order.               *)
(***************************************************************************)
EXTENDS Integers, Sequences, FiniteSetsExt

CONSTANTS
  MaxCount,   \* quic_connection_id_max_count(source): the peer's CID limit
  MaxDest,    \* highest destination CID number the peer issues
  MaxCalls,   \* setsockopt, connect and shutdown calls in a behaviour
  Threads,    \* application threads calling into the socket
  SndBuf,     \* sk_sndbuf, in STREAM frames of one message each
  RcvQ        \* skbs on sk_receive_queue at once (a bound of the model)

ASSUME MaxCount \in 1..5 /\ MaxDest \in 1..5 /\ MaxCalls \in Nat
       /\ Threads # {} /\ SndBuf \in Nat /\ RcvQ \in Nat

\* Crypto levels, numbered as QUIC_CRYPTO_APP, INITIAL, HANDSHAKE, EARLY.
APP == 0
INITIAL == 1
HANDSHAKE == 2
EARLY == 3
Levels == {APP, INITIAL, HANDSHAKE, EARLY}
NoLevel == -1   \* data_level not yet set by a send-key install

Frame == [type : {"NEW_TOKEN", "HANDSHAKE_DONE", "NEW_CONNECTION_ID",
                  "RETIRE_CONNECTION_ID", "CONNECTION_CLOSE", "STREAMS_BLOCKED",
                  "RESET_STREAM", "STOP_SENDING", "CRYPTO"},
          seq : 0..MaxCount + MaxCalls]

VARIABLES
  state,      \* sk_state: "closed", "establishing", "established"
  released,   \* quic_close ran: the socket is gone
  serv,       \* quic_is_serv
  secrets,    \* keys installed: <<level, send>> pairs
  dataLevel,  \* quic_outq(sk)->data_level once set (NoLevel before)
  source,     \* quic_source(sk): numbers of the issued source CIDs
  destFirst,  \* quic_connection_id_first_number(quic_dest(sk))
  destLast,   \* quic_connection_id_last_number(quic_dest(sk))
  ctrl,       \* frames queued on the control list, in order (a history:
              \* transmission and acknowledgement are not modelled)
  acked,      \* the server acknowledged Initial and Handshake manually
  pathTimer,  \* QUIC_TIMER_PATH reset as the PLPMTUD probe timer
  calls,      \* application calls and peer frames so far
  thread,     \* per thread: where its call is and what it does
  sstate,     \* stream->send.state of the stream ("none": not opened)
  peerStreams,\* the peer's max_streams_bidi: 0, or room for the stream
  wmem,       \* sk_wmem_queued, by kind: STREAM and DATAGRAM frames not acked
  slog,       \* history: "data", "fin" and "reset" of the stream, in order
  sleepq,     \* sk_sleep(sk): the calls asleep in quic_wait_for_send, in order
  peerDgram,  \* the peer's max_datagram_frame_size is not zero
  rq          \* skbs on sk_receive_queue

streamVars == <<thread, sstate, peerStreams, wmem, slog, sleepq, peerDgram, rq>>

vars == <<state, released, serv, secrets, dataLevel, source, destFirst,
          destLast, ctrl, acked, pathTimer, calls, streamVars>>

\* A client socket starts closed with no connection IDs; a server socket
\* comes out of quic_accept_sock_init ESTABLISHING with source and
\* destination CID 0.
Init ==
  /\ serv \in BOOLEAN
  /\ state = IF serv THEN "establishing" ELSE "closed"
  /\ source = IF serv THEN {0} ELSE {}
  /\ destFirst = 0
  /\ destLast = 0
  /\ released = FALSE
  /\ secrets = {}
  /\ dataLevel = NoLevel
  /\ ctrl = <<>>
  /\ acked = FALSE
  /\ pathTimer = FALSE
  /\ calls = 0
  /\ thread = [t \in Threads |-> [pc |-> "idle", op |-> "open"]]
  /\ sstate = "none"
  /\ peerStreams = 0
  /\ wmem = [stream |-> 0, dgram |-> 0]
  /\ slog = <<>>
  /\ sleepq = <<>>
  /\ peerDgram = FALSE
  /\ rq = 0

-----------------------------------------------------------------------------
(* Helpers                                                                 *)

\* quic_connection_id_last_number / first_number of the source set.
SrcLast == IF source = {} THEN 0 ELSE Max(source)
SrcFirst == IF source = {} THEN 0 ELSE Min(source)

\* quic_frame_create(NEW_CONNECTION_ID): a new source CID numbered after
\* the last one is added to the set and announced in the frame.
NewConnIdFrame(n) == [type |-> "NEW_CONNECTION_ID", seq |-> n]

\* A call made under lock_sock from the application, or a peer frame
\* handled under bh_lock_sock; the budget bounds both.
Call == /\ ~released /\ calls < MaxCalls /\ calls' = calls + 1

\* An application call: it needs a thread that is not asleep inside
\* another call.
AppCall == Call /\ \E t \in Threads : thread[t].pc = "idle"

-----------------------------------------------------------------------------
(* quic_connect                                                            *)

\* A closed socket connects: route, bind, CIDs, hash and Initial keys; a
\* failure after the CIDs were added frees both sets and unhashes. Only a
\* socket without CIDs is modelled connecting: quic_connect after
\* quic_shutdown re-adds CID 0 to the live sets and re-hashes, whose
\* effect lies in code not in src/.
Connect ==
  /\ AppCall /\ state = "closed" /\ ~serv /\ source = {}
  /\ \/ /\ state' = "establishing"
        /\ source' = {0}
        /\ destFirst' = 0 /\ destLast' = 0
     \/ /\ source' = {}
        /\ UNCHANGED <<state, destFirst, destLast>>
  /\ UNCHANGED <<released, serv, secrets, dataLevel, ctrl, acked, pathTimer,
                 streamVars>>

-----------------------------------------------------------------------------
(* quic_sock_set_crypto_secret                                             *)

\* The receive-key branch once the key is set: a server installing the
\* 1-RTT receive key first prepares NEW_TOKEN and HANDSHAKE_DONE (either
\* allocation, or the preferred-address bind, may fail and return with the
\* key installed); the inq backlog_list is then replayed; the 1-RTT key
\* acknowledges Initial and Handshake, queues the frames, makes the socket
\* ESTABLISHED and re-arms the path timer.
\* Mutant: a failed NEW_TOKEN or HANDSHAKE_DONE allocation does not return
\* and the socket goes on to ESTABLISHED without the frames.
RecvKeyReadyNoFailReturn(level) ==
  \/ /\ level = APP /\ serv
     /\ acked' = TRUE /\ state' = "established" /\ pathTimer' = TRUE
     /\ UNCHANGED ctrl
  \/ /\ level # APP
     /\ UNCHANGED <<state, ctrl, acked, pathTimer>>
  \/ /\ level = APP
     /\ ctrl' = IF serv
                THEN ctrl \o <<[type |-> "NEW_TOKEN", seq |-> 0],
                               [type |-> "HANDSHAKE_DONE", seq |-> 0]>>
                ELSE ctrl
     /\ acked' = (acked \/ serv)
     /\ state' = "established"
     /\ pathTimer' = TRUE

RecvKeyReady(level) ==
  \/ /\ level = APP /\ serv
     /\ UNCHANGED <<state, ctrl, acked, pathTimer>>
  \/ /\ level # APP
     /\ UNCHANGED <<state, ctrl, acked, pathTimer>>
  \/ /\ level = APP
     /\ ctrl' = IF serv
                THEN ctrl \o <<[type |-> "NEW_TOKEN", seq |-> 0],
                               [type |-> "HANDSHAKE_DONE", seq |-> 0]>>
                ELSE ctrl
     /\ acked' = (acked \/ serv)
     /\ state' = "established"
     /\ pathTimer' = TRUE

\* Mutant: the removal loop on -ENOMEM is missing.
RemoveIssuedNone(s, k) == s

\* while (seqno) quic_connection_id_remove(quic_source(sk), seqno--):
\* the loop failed at number k and removes k, k - 1, ..., 1.
RemoveIssued(s, k) == s \ (1..k)

\* The app send key: data_level becomes APP, then NEW_CONNECTION_ID frames
\* are created for SrcLast + 1 .. MaxCount into a local list. If the frame
\* for k cannot be allocated, the loop removes k .. 1 from the source set,
\* purges the list and returns -ENOMEM; otherwise the list is queued.
IssueConnIds ==
  LET seqs == SrcLast + 1..MaxCount
      frames == [i \in 1..Cardinality(seqs) |-> NewConnIdFrame(SrcLast + i)]
  IN \/ /\ source' = source \cup seqs
        /\ ctrl' = ctrl \o frames
     \/ \E k \in seqs :
          /\ source' = RemoveIssued(source \cup (SrcLast + 1..k - 1), k)
          /\ UNCHANGED ctrl

\* Mutant: the level check is dropped and any send level becomes the data
\* level.
SendKeyDataLevelAny(level) == level

\* A send key other than 1-RTT: only the 0-RTT key moves the data level.
SendKeyDataLevel(level) == IF level = EARLY THEN EARLY ELSE dataLevel

\* setsockopt(QUIC_SOCKOPT_CRYPTO_SECRET): only while ESTABLISHING;
\* quic_crypto_set_secret may refuse the secret; then the receive or the
\* send branch.
SetSecret(level, send) ==
  /\ AppCall
  /\ \/ /\ state # "establishing"
        /\ UNCHANGED <<state, secrets, dataLevel, source, ctrl, acked, pathTimer>>
     \/ /\ state = "establishing"
        /\ UNCHANGED <<state, secrets, dataLevel, source, ctrl, acked, pathTimer>>
     \/ /\ state = "establishing"
        /\ secrets' = secrets \cup {<<level, send>>}
        /\ \/ /\ ~send
              /\ RecvKeyReady(level)
              /\ UNCHANGED <<dataLevel, source>>
           \/ /\ send /\ level # APP
              /\ dataLevel' = SendKeyDataLevel(level)
              /\ UNCHANGED <<state, source, ctrl, acked, pathTimer>>
           \/ /\ send /\ level = APP
              /\ dataLevel' = APP
              /\ IssueConnIds
              /\ UNCHANGED <<state, acked, pathTimer>>
  /\ UNCHANGED <<released, serv, destFirst, destLast, streamVars>>

-----------------------------------------------------------------------------
(* quic_sock_retire_connection_id                                          *)

\* info->dest = n is accepted when first < n <= last.
DestRetirable(n) == n <= destLast /\ n > destFirst

\* info->source = n (first < n <= last): one NEW_CONNECTION_ID frame, with
\* retire_prior_to n, issues the next source CID.
RetireSource(n) ==
  /\ AppCall /\ state = "established"
  /\ n > SrcFirst /\ n <= SrcLast
  /\ \/ /\ source' = source \cup {SrcLast + 1}
        /\ ctrl' = Append(ctrl, NewConnIdFrame(SrcLast + 1))
     \/ UNCHANGED <<source, ctrl>>
  /\ UNCHANGED <<state, released, serv, secrets, dataLevel, destFirst,
                 destLast, acked, pathTimer, streamVars>>

\* info->dest = n: RETIRE_CONNECTION_ID frames for first .. n - 1, queued
\* one by one; an allocation failure returns -ENOMEM after those queued.
RetireDest(n) ==
  /\ AppCall /\ state = "established"
  /\ DestRetirable(n)
  /\ \E stop \in destFirst - 1..n - 1 :
       ctrl' = ctrl \o [i \in 1..stop - destFirst + 1 |->
                          [type |-> "RETIRE_CONNECTION_ID", seq |-> destFirst + i - 1]]
  /\ UNCHANGED <<state, released, serv, secrets, dataLevel, source, destFirst,
                 destLast, acked, pathTimer, streamVars>>

-----------------------------------------------------------------------------
(* The peer's connection-ID frames (the frame handlers are not in src/)    *)

\* NEW_CONNECTION_ID from the peer adds the next destination CID.
PeerNewConnId ==
  /\ Call /\ state # "closed" /\ destLast < MaxDest
  /\ destLast' = destLast + 1
  /\ UNCHANGED <<state, released, serv, secrets, dataLevel, source, destFirst,
                 ctrl, acked, pathTimer, streamVars>>

\* A RETIRE_CONNECTION_ID we queued for the first destination CID is
\* acknowledged: the first number advances.
DestRetired ==
  /\ Call /\ state # "closed"
  /\ \E i \in DOMAIN ctrl : ctrl[i] = [type |-> "RETIRE_CONNECTION_ID", seq |-> destFirst]
  /\ destFirst < destLast
  /\ destFirst' = destFirst + 1
  /\ UNCHANGED <<state, released, serv, secrets, dataLevel, source, destLast,
                 ctrl, acked, pathTimer, streamVars>>

\* RETIRE_CONNECTION_ID from the peer for our first source CID: it is
\* removed and a replacement is issued (spec: "remove and issue
\* replacement").
PeerRetireSource ==
  /\ Call /\ state = "established" /\ Cardinality(source) > 1
  /\ source' = (source \ {SrcFirst}) \cup {SrcLast + 1}
  /\ ctrl' = Append(ctrl, NewConnIdFrame(SrcLast + 1))
  /\ UNCHANGED <<state, released, serv, secrets, dataLevel, destFirst,
                 destLast, acked, pathTimer, streamVars>>

-----------------------------------------------------------------------------
(* The send path: quic_sendmsg, quic_sock_send_stream, quic_wait_for_send  *)
(* and the stream options. A call that sleeps in quic_wait_for_send is an  *)
(* exclusive waiter on sk_sleep(sk): prepare_to_wait_exclusive queues it   *)
(* at the tail, and a wake-one wakeup (wake_up_interruptible_sync_poll in  *)
(* quic_write_space) takes the waiter at the head off the queue, whatever  *)
(* it waits for. The woken call takes the lock again and re-checks; if it  *)
(* must wait on, it queues itself at the tail again.                       *)

\* What a call does: getsockopt(QUIC_SOCKOPT_STREAM_OPEN), or quic_sendmsg
\* of one message on the stream, without or with MSG_FIN, or MSG_DATAGRAM.
Ops == {"open", "data", "fin", "dgram"}

\* The stream the calls name, (quic_stream_send_bidi << 2) | quic_is_serv:
\* the first bidirectional stream, 0 for a client, 1 for a server.
StreamId == IF serv THEN 1 ELSE 0

\* quic_stream_id_send_exceeds: the peer's max_streams_bidi has no room.
Exceeds == peerStreams = 0

\* The frames charged to sk_wmem_queued.
QueuedFrames == wmem.stream + wmem.dgram

\* sk_stream_wspace.
Wspace == SndBuf - QueuedFrames

Set(t, pc, op) == thread' = [thread EXCEPT ![t] = [pc |-> pc, op |-> op]]

\* prepare_to_wait_exclusive, then schedule_timeout with the lock released.
Sleep(t, pc, op) == Set(t, pc, op) /\ sleepq' = Append(sleepq, t)

\* A call in quic_wait_for_send that is off the wait queue: it was woken
\* and is taking the lock again.
Woken(t) == thread[t].pc # "idle" /\ t \notin {sleepq[i] : i \in DOMAIN sleepq}

\* A wake-one wakeup: the first exclusive waiter leaves the queue.
WakeOne == sleepq' = IF sleepq = <<>> THEN sleepq ELSE Tail(sleepq)

\* The frame loop of quic_sendmsg for a message of one frame: if
\* quic_frame_create fails the call returns 0 bytes written; otherwise a
\* STREAM frame moves a READY stream to SEND and a fin to SENT (frame.c,
\* from the spec's send state machine), and quic_outq_stream_tail or
\* quic_outq_dgram_tail charges the frame to sk_wmem_queued.
WriteFrame(op, st) ==
  \/ /\ sstate' = st
     /\ UNCHANGED <<wmem, slog>>
  \/ /\ op = "dgram"
     /\ sstate' = st /\ wmem' = [wmem EXCEPT !.dgram = @ + 1]
     /\ UNCHANGED slog
  \/ /\ op # "dgram"
     /\ sstate' = IF op = "fin" THEN "sent" ELSE IF st = "ready" THEN "send" ELSE st
     /\ wmem' = [wmem EXCEPT !.stream = @ + 1]
     /\ slog' = Append(slog, op)

\* quic_sendmsg once it has the stream, in state st (or, for a datagram,
\* once the peer's limit was checked): a stream open returns; with no room
\* in the send buffer quic_wait_for_send fails at once (-EAGAIN for
\* MSG_DONTWAIT, a signal, -EPIPE when closed) or sleeps; else the frames.
SendOnStream(t, op, st) ==
  \/ /\ op = "open"
     /\ Set(t, "idle", op) /\ sstate' = st /\ UNCHANGED <<wmem, slog, sleepq>>
  \/ /\ op # "open" /\ Wspace <= 0
     /\ \/ Set(t, "idle", op) /\ UNCHANGED sleepq
        \/ state # "closed" /\ Sleep(t, "wait_space", op)
     /\ sstate' = st /\ UNCHANGED <<wmem, slog>>
  \/ /\ op # "open" /\ Wspace > 0
     /\ Set(t, "idle", op) /\ WriteFrame(op, st) /\ UNCHANGED sleepq

\* The stream limit is reached: without the 1-RTT send key -EINVAL, or a
\* STREAMS_BLOCKED frame that cannot be allocated, -ENOMEM; else the frame
\* is queued and quic_wait_for_send fails at once or sleeps until the limit
\* grows. For stream id 0 the wait tests the send buffer instead
\* ("if (stream_id)"), has room for 0 bytes and returns 0; the second
\* quic_stream_send_get then fails with -EAGAIN.
StreamsBlocked(t, op) ==
  \/ UNCHANGED <<thread, ctrl, sleepq>>
  \/ /\ <<APP, TRUE>> \in secrets
     /\ ctrl' = Append(ctrl, [type |-> "STREAMS_BLOCKED", seq |-> 0])
     /\ \/ Set(t, "idle", op) /\ UNCHANGED sleepq
        \/ StreamId # 0 /\ state # "closed" /\ Sleep(t, "wait_streams", op)

\* quic_sock_send_stream: a stream already opened is refused with -EINVAL
\* once its send state is SENT or beyond.
StreamUsable(st) == st \in {"ready", "send"}

\* quic_sendmsg (or the stream open) of thread t, under lock_sock:
\* quic_stream_send_get finds the stream, opens it within the peer's
\* limit (READY), or reports the limit reached.
StartSend(t, op) ==
  /\ Call /\ thread[t].pc = "idle"
  /\ \/ /\ sstate # "none" /\ ~StreamUsable(sstate)
        /\ UNCHANGED <<thread, sstate, wmem, slog, ctrl, sleepq>>
     \/ /\ StreamUsable(sstate)
        /\ SendOnStream(t, op, sstate) /\ UNCHANGED ctrl
     \/ /\ sstate = "none" /\ ~Exceeds
        /\ SendOnStream(t, op, "ready") /\ UNCHANGED ctrl
     \/ /\ sstate = "none" /\ Exceeds
        /\ StreamsBlocked(t, op) /\ UNCHANGED <<sstate, wmem, slog>>
  /\ UNCHANGED <<state, released, serv, secrets, dataLevel, source, destFirst,
                 destLast, acked, pathTimer, peerStreams, peerDgram, rq>>

\* getsockopt(QUIC_SOCKOPT_STREAM_OPEN): the next bidirectional stream id,
\* QUIC_STREAM_FLAG_NEW, then quic_sock_send_stream as for a message.
StreamOpen(t) == StartSend(t, "open")

Conn == <<state, released, serv, secrets, dataLevel, source, destFirst,
         destLast, acked, pathTimer, peerStreams, peerDgram>>

Others == <<Conn, calls, rq>>

\* quic_sendmsg with MSG_DATAGRAM: -EINVAL unless the peer's
\* max_datagram_frame_size is set; then the same wait for room, with
\* stream id 0, and the same frame loop as on a stream.
SendDatagram(t) ==
  /\ Call /\ thread[t].pc = "idle"
  /\ \/ /\ ~peerDgram
        /\ UNCHANGED <<thread, sstate, wmem, slog, sleepq>>
     \/ /\ peerDgram
        /\ SendOnStream(t, "dgram", sstate)
  /\ UNCHANGED <<ctrl, state, released, serv, secrets, dataLevel, source,
                 destFirst, destLast, acked, pathTimer, peerStreams, peerDgram, rq>>

\* quic_sendmsg with a QUIC_HANDSHAKE_INFO cmsg: CRYPTO frames at that
\* level, -EINVAL unless its send key is installed; an allocation failure
\* ends the loop with what was queued. It never waits.
SendCrypto(level) ==
  /\ AppCall
  /\ \/ UNCHANGED ctrl
     \/ /\ <<level, TRUE>> \in secrets
        /\ ctrl' = Append(ctrl, [type |-> "CRYPTO", seq |-> level])
  /\ UNCHANGED <<state, released, serv, secrets, dataLevel, source, destFirst,
                 destLast, acked, pathTimer, streamVars>>

\* A woken call back in quic_wait_for_send on a socket closed meanwhile:
\* -EPIPE.
WaitClosed(t) ==
  /\ Woken(t) /\ thread[t].pc \in {"wait_streams", "wait_space"}
  /\ state = "closed"
  /\ Set(t, "idle", thread[t].op)
  /\ UNCHANGED <<sstate, wmem, slog, ctrl, sleepq, Others>>

\* A woken call waiting for the stream limit: once the limit has grown the
\* second quic_stream_send_get returns the stream, opened meanwhile by
\* another thread or now, with no look at its send state, and quic_sendmsg
\* goes on; otherwise it waits again.
WakeStreams(t) ==
  /\ Woken(t) /\ thread[t].pc = "wait_streams" /\ state # "closed"
  /\ \/ /\ ~Exceeds
        /\ SendOnStream(t, thread[t].op, IF sstate = "none" THEN "ready" ELSE sstate)
     \/ /\ Exceeds
        /\ Sleep(t, "wait_streams", thread[t].op)
        /\ UNCHANGED <<sstate, wmem, slog>>
  /\ UNCHANGED <<ctrl, Others>>

\* Mutant: the wait asks for more room than the message needs
\* ("msg_len < sk_stream_wspace").
WakeSpaceStrict(t) ==
  /\ Woken(t) /\ thread[t].pc = "wait_space" /\ state # "closed"
  /\ \/ /\ Wspace > 1
        /\ Set(t, "idle", thread[t].op)
        /\ WriteFrame(thread[t].op, sstate)
        /\ UNCHANGED sleepq
     \/ /\ Wspace <= 1
        /\ Sleep(t, "wait_space", thread[t].op)
        /\ UNCHANGED <<sstate, wmem, slog>>
  /\ UNCHANGED <<ctrl, Others>>

\* A woken call waiting for room: room for the message ends the wait and
\* the frame loop runs on the stream it had before it slept; otherwise it
\* waits again.
WakeSpace(t) ==
  /\ Woken(t) /\ thread[t].pc = "wait_space" /\ state # "closed"
  /\ \/ /\ Wspace >= 1
        /\ Set(t, "idle", thread[t].op)
        /\ WriteFrame(thread[t].op, sstate)
        /\ UNCHANGED sleepq
     \/ /\ Wspace < 1
        /\ Sleep(t, "wait_space", thread[t].op)
        /\ UNCHANGED <<sstate, wmem, slog>>
  /\ UNCHANGED <<ctrl, Others>>

\* A waiting call leaves the wait for its timeout, sk_err or a signal, and
\* finish_wait takes it off the queue if still there. A sender returns the
\* error; a reader looks at the receive queue first and reads what is on
\* it.
WaitAbort(t) ==
  /\ thread[t].pc # "idle"
  /\ Set(t, "idle", thread[t].op)
  /\ sleepq' = SelectSeq(sleepq, LAMBDA u : u # t)
  /\ IF thread[t].pc = "wait_packet" /\ rq > 0
     THEN \E n \in 1..rq : rq' = rq - n
     ELSE UNCHANGED rq
  /\ UNCHANGED <<sstate, wmem, slog, ctrl, Conn, calls>>

\* quic_wait_for_packet and the read of quic_recvmsg, with the receive
\* queue abstracted to its length: an skb on sk_receive_queue ends the wait
\* and the call reads one skb or several of one stream; otherwise, in the
\* order of the checks, -ENOTCONN on a closed socket, -EAGAIN without a
\* timeout, or sleep on sk_sleep(sk). sk_err and signals are WaitAbort.
ReadOrWait(t) ==
  \/ /\ rq > 0
     /\ \E n \in 1..rq : rq' = rq - n
     /\ Set(t, "idle", "recv") /\ UNCHANGED sleepq
  \/ /\ rq = 0
     /\ Set(t, "idle", "recv") /\ UNCHANGED <<rq, sleepq>>
  \/ /\ rq = 0 /\ state # "closed"
     /\ Sleep(t, "wait_packet", "recv") /\ UNCHANGED rq

\* quic_recvmsg of thread t, under lock_sock.
RecvMsg(t) ==
  /\ Call /\ thread[t].pc = "idle"
  /\ ReadOrWait(t)
  /\ UNCHANGED <<sstate, wmem, slog, ctrl, Conn>>

\* A woken reader back in quic_wait_for_packet, with the lock taken again:
\* the same checks in the same order.
WakeRecv(t) ==
  /\ Woken(t) /\ thread[t].pc = "wait_packet"
  /\ ReadOrWait(t)
  /\ UNCHANGED <<sstate, wmem, slog, ctrl, Conn, calls>>

\* A packet of the peer puts an skb on sk_receive_queue (stream data in
\* order by quic_inq_recv_tail, an event by quic_inq_event_recv, or a
\* handshake or datagram skb) and calls sk_data_ready, sock_def_readable,
\* which wakes one exclusive waiter on sk_sleep(sk). quic_do_rcv drops the
\* packets of a socket that is not connected.
DataArrive ==
  /\ Call /\ state # "closed" /\ rq < RcvQ
  /\ rq' = rq + 1
  /\ WakeOne
  /\ UNCHANGED <<thread, sstate, wmem, slog, ctrl, Conn>>

\* setsockopt(QUIC_SOCKOPT_STREAM_RESET): on an established socket, for an
\* opened stream not beyond SENT, RESET_STREAM is queued, the state becomes
\* RESET_SENT and the stream's queued STREAM frames are purged, which
\* uncharges them and calls sk_write_space (outqueue, from the spec);
\* queued DATAGRAM frames stay charged; otherwise
\* -EINVAL or -ENOMEM and nothing changes.
ResetStream ==
  /\ AppCall
  /\ \/ UNCHANGED <<sstate, wmem, slog, ctrl, sleepq>>
     \/ /\ state = "established" /\ sstate \in {"ready", "send", "sent"}
        /\ sstate' = "reset_sent"
        /\ wmem' = [wmem EXCEPT !.stream = 0]
        /\ IF wmem.stream > 0 THEN WakeOne ELSE UNCHANGED sleepq
        /\ ctrl' = Append(ctrl, [type |-> "RESET_STREAM", seq |-> 0])
        /\ slog' = Append(slog, "reset")
  /\ UNCHANGED <<thread, state, released, serv, secrets, dataLevel, source,
                 destFirst, destLast, acked, pathTimer, peerStreams, peerDgram, rq>>

\* setsockopt(QUIC_SOCKOPT_TOKEN), quic_sock_set_token: a server queues a
\* NEW_TOKEN frame in any state (-ENOMEM when it cannot be created); a
\* client keeps the token for its next connection, which no modelled
\* state records, or fails with -EINVAL or -ENOMEM.
SetToken ==
  /\ AppCall
  /\ \/ /\ serv
        /\ ctrl' = Append(ctrl, [type |-> "NEW_TOKEN", seq |-> 0])
     \/ UNCHANGED ctrl
  /\ UNCHANGED <<streamVars, state, released, serv, secrets, dataLevel,
                 source, destFirst, destLast, acked, pathTimer>>

\* setsockopt(QUIC_SOCKOPT_STREAM_STOP_SENDING): on an established socket
\* with the stream opened, STOP_SENDING is queued (or -ENOMEM).
StopSending ==
  /\ AppCall
  /\ \/ UNCHANGED ctrl
     \/ /\ state = "established" /\ sstate # "none"
        /\ ctrl' = Append(ctrl, [type |-> "STOP_SENDING", seq |-> 0])
  /\ UNCHANGED <<streamVars, state, released, serv, secrets, dataLevel,
                 source, destFirst, destLast, acked, pathTimer>>

\* setsockopt(QUIC_SOCKOPT_TRANSPORT_PARAM) with the peer's parameters,
\* refused once established: max_streams_bidi (room for the stream) and
\* max_datagram_frame_size replace the stored ones only where not zero.
SetRemoteTransportParam ==
  /\ AppCall
  /\ \/ UNCHANGED <<peerStreams, peerDgram>>
     \/ /\ state # "established"
        /\ \E ms \in {peerStreams, 1}, dg \in {peerDgram, TRUE} :
             peerStreams' = ms /\ peerDgram' = dg
  /\ UNCHANGED <<thread, sstate, wmem, slog, sleepq, ctrl, state, released,
                 serv, secrets, dataLevel, source, destFirst, destLast, acked,
                 pathTimer, rq>>

\* setsockopt(QUIC_SOCKOPT_TRANSPORT_PARAM_EXT), only while ESTABLISHING:
\* the peer's transport parameters extension from the handshake. If it does
\* not decode, quic_outq_transmit_close sends CONNECTION_CLOSE with
\* TRANSPORT_PARAMETER_ERROR and closes the connection, waking its waiters
\* (from the spec), and the call fails with -EINVAL; otherwise the decoded
\* limits become the peer's.
SetTransportParamsExt ==
  /\ AppCall /\ state = "establishing"
  /\ \/ /\ ctrl' = Append(ctrl, [type |-> "CONNECTION_CLOSE", seq |-> 0])
        /\ state' = "closed" /\ sleepq' = <<>>
        /\ UNCHANGED <<peerStreams, peerDgram>>
     \/ /\ \E ms \in {0, 1}, dg \in BOOLEAN : peerStreams' = ms /\ peerDgram' = dg
        /\ UNCHANGED <<ctrl, state, sleepq>>
  /\ UNCHANGED <<thread, sstate, wmem, slog, released, serv, secrets, dataLevel,
                 source, destFirst, destLast, acked, pathTimer, rq>>

\* MAX_STREAMS from the peer raises the limit and wakes a waiter (frame
\* handler, from the spec).
PeerMaxStreams ==
  /\ Call /\ state # "closed" /\ Exceeds
  /\ peerStreams' = 1
  /\ WakeOne
  /\ UNCHANGED <<thread, sstate, wmem, slog, peerDgram, ctrl, state, released,
                 serv, secrets, dataLevel, source, destFirst, destLast, acked,
                 pathTimer, rq>>

\* The peer acknowledges a frame of an open connection: it leaves
\* sk_wmem_queued and the outqueue calls sk_write_space, quic_write_space,
\* which wakes one exclusive waiter.
StreamAcked ==
  /\ ~released /\ state # "closed"
  /\ \E k \in {"stream", "dgram"} : wmem[k] > 0 /\ wmem' = [wmem EXCEPT ![k] = @ - 1]
  /\ WakeOne
  /\ UNCHANGED <<thread, sstate, slog, ctrl, Others>>

-----------------------------------------------------------------------------
(* quic_shutdown, the idle timeout and quic_close. Setting CLOSED wakes    *)
(* every waiter (spec: pending waiters are woken with the error).          *)

\* quic_timer_sack_handler with no ACK due: the idle timeout queues the
\* CONNECTION_CLOSE event and makes the socket CLOSED, without a frame to
\* the peer; on a socket already closed it returns at once.
IdleClose ==
  /\ ~released /\ state # "closed"
  /\ state' = "closed"
  /\ sleepq' = <<>>
  /\ UNCHANGED <<released, serv, secrets, dataLevel, source, destFirst,
                 destLast, ctrl, acked, pathTimer, calls, thread, sstate,
                 peerStreams, peerDgram, wmem, slog, rq>>

\* quic_shutdown: with SEND_SHUTDOWN an application close is sent; the
\* socket becomes CLOSED, its CIDs and hash entry stay.
Shutdown(sendShutdown) ==
  /\ AppCall /\ state # "closed"
  /\ state' = "closed"
  /\ sleepq' = <<>>
  /\ ctrl' = IF sendShutdown
             THEN Append(ctrl, [type |-> "CONNECTION_CLOSE", seq |-> 0])
             ELSE ctrl
  /\ UNCHANGED <<released, serv, secrets, dataLevel, source, destFirst,
                 destLast, acked, pathTimer, thread, sstate, peerStreams,
                 peerDgram, wmem, slog, rq>>

\* quic_close, on the last close of the file, so no thread is inside a
\* call: application close, CLOSED, queues (and their sk_wmem_queued),
\* paths and both CID sets freed; sk_common_release drops the socket.
Close ==
  /\ ~released
  /\ \A t \in Threads : thread[t].pc = "idle"
  /\ released' = TRUE
  /\ state' = "closed"
  /\ source' = {}
  /\ ctrl' = Append(ctrl, [type |-> "CONNECTION_CLOSE", seq |-> 0])
  /\ wmem' = [stream |-> 0, dgram |-> 0] /\ rq' = 0
  /\ UNCHANGED <<serv, secrets, dataLevel, destFirst, destLast, acked,
                 pathTimer, calls, thread, sstate, peerStreams, peerDgram,
                 sleepq, slog>>

Next ==
  \/ Connect
  \/ \E level \in Levels, send \in BOOLEAN : SetSecret(level, send)
  \/ \E n \in 0..MaxCount + MaxCalls : RetireSource(n)
  \/ \E n \in 0..MaxDest + 1 : RetireDest(n)
  \/ PeerNewConnId \/ DestRetired \/ PeerRetireSource
  \/ \E sendShutdown \in BOOLEAN : Shutdown(sendShutdown)
  \/ Close \/ IdleClose
  \/ \E t \in Threads, op \in {"data", "fin"} : StartSend(t, op)
  \/ \E t \in Threads : StreamOpen(t) \/ SendDatagram(t)
  \/ \E level \in Levels : SendCrypto(level)
  \/ \E t \in Threads : WakeStreams(t) \/ WakeSpace(t) \/ WaitAbort(t) \/ WaitClosed(t)
  \/ \E t \in Threads : RecvMsg(t) \/ WakeRecv(t)
  \/ DataArrive
  \/ ResetStream \/ StopSending \/ SetToken \/ SetRemoteTransportParam \/ SetTransportParamsExt
  \/ PeerMaxStreams \/ StreamAcked

\* Queued data is eventually acknowledged, or the idle timer closes the
\* connection: the loss timer retransmits what is not acknowledged, and a
\* peer that stays silent lets the idle timeout fire.
AckOrIdle == QueuedFrames > 0 /\ (StreamAcked \/ IdleClose)

\* A woken call gets the CPU and the lock again and re-checks.
Fairness ==
  /\ WF_vars(AckOrIdle)
  /\ \A t \in Threads : /\ WF_vars(WakeSpace(t)) /\ WF_vars(WakeStreams(t))
                        /\ WF_vars(WaitClosed(t)) /\ WF_vars(WakeRecv(t))

Spec == Init /\ [][Next]_vars /\ Fairness

-----------------------------------------------------------------------------
(* Properties                                                              *)

TypeOK ==
  /\ state \in {"closed", "establishing", "established"}
  /\ released \in BOOLEAN /\ serv \in BOOLEAN
  /\ secrets \subseteq Levels \X BOOLEAN
  /\ dataLevel \in {NoLevel, EARLY, APP}
  /\ source \subseteq 0..MaxCount + MaxCalls
  /\ destFirst \in 0..MaxDest /\ destLast \in destFirst..MaxDest
  /\ ctrl \in Seq(Frame)
  /\ acked \in BOOLEAN /\ pathTimer \in BOOLEAN
  /\ calls \in 0..MaxCalls
  /\ thread \in [Threads -> [pc : {"idle", "wait_streams", "wait_space", "wait_packet"},
                             op : Ops \cup {"recv"}]]
  /\ sstate \in {"none", "ready", "send", "sent", "reset_sent"}
  /\ peerStreams \in {0, 1} /\ wmem \in [{"stream", "dgram"} -> 0..SndBuf]
  /\ slog \in Seq({"data", "fin", "reset"})
  /\ sleepq \in Seq(Threads) /\ peerDgram \in BOOLEAN /\ rq \in 0..RcvQ

\* The frames of a type queued for number n.
Queued(type, n) ==
  Cardinality({i \in DOMAIN ctrl : ctrl[i] = [type |-> type, seq |-> n]})

\* Every source CID but the handshake's CID 0 has been announced to the
\* peer by exactly one NEW_CONNECTION_ID frame, and no number is announced
\* twice: the pre-issue loop of quic_sock_set_crypto_secret, its removal
\* loop on -ENOMEM and a retried install keep the set and the frames
\* in step.
IssuedCidsAnnounced ==
  /\ \A n \in source \ {0} : Queued("NEW_CONNECTION_ID", n) = 1
  /\ \A n \in 0..MaxCount + MaxCalls : Queued("NEW_CONNECTION_ID", n) <= 1

\* HANDSHAKE_DONE is queued by a server only, at most once, and a server
\* that is ESTABLISHED has queued it: the 1-RTT receive-key install may
\* fail half way (NEW_TOKEN allocated, HANDSHAKE_DONE not) and be retried,
\* and only the install that queues the frames may make the socket
\* ESTABLISHED. NEW_TOKEN is not counted: quic_sock_set_token queues more.
HandshakeDoneOnce ==
  LET done == Cardinality({i \in DOMAIN ctrl : ctrl[i].type = "HANDSHAKE_DONE"})
  IN /\ done <= (IF serv THEN 1 ELSE 0)
     /\ serv /\ state = "established" => done = 1

\* Nothing follows the end of the stream: no STREAM frame is queued after
\* the one carrying the fin or after RESET_STREAM, and RESET_STREAM only
\* follows data or the fin (spec 4.4: the fin moves Send to DataSent, a
\* reset moves Ready, Send or DataSent to ResetSent). quic_sock_send_stream
\* refuses a stream at SENT or beyond, but before quic_sendmsg may sleep
\* and before the second quic_stream_send_get.
StreamEndsOnce ==
  \A i, j \in DOMAIN slog :
    i < j => slog[i] = "data" \/ (slog[i] = "fin" /\ slog[j] = "reset")

\* A thread asleep in quic_wait_for_send for send-buffer room returns:
\* acknowledgements free room and quic_write_space wakes it, and the wait
\* accepts room for exactly its message ("msg_len <= sk_stream_wspace");
\* or the connection closes and the wait ends with -EPIPE. The wakeup is
\* wake-one on an exclusive queue that calls waiting for the stream limit
\* share.
SendWaitEnds ==
  \A t \in Threads : thread[t].pc = "wait_space" ~> thread[t].pc = "idle"

\* A reader is never left asleep in quic_wait_for_packet for good while an
\* skb waits on sk_receive_queue: every skb queued comes with a
\* sk_data_ready wakeup, and a woken reader looks at the queue before it
\* looks at the socket state. The wakeup is wake-one on the queue that
\* senders share.
RecvWaitEnds ==
  \A t \in Threads : []<>(thread[t].pc # "wait_packet" \/ rq = 0)

=============================================================================
