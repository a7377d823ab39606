---------------------------- MODULE InboundStream ----------------------------
(***************************************************************************)
(* The receive side of a QUIC socket (src/net/quic/input.c and the reading *)
(* half of src/net/quic/socket.c):                                         *)
(*   - quic_inq_reasm_tail: a STREAM frame is dropped, buffered on the     *)
(*     reassemble_list (ordered by stream id, then offset), or delivered   *)
(*     to sk_receive_queue followed by every buffered fragment it unblocks;*)
(*   - quic_inq_event_recv: STREAM_UPDATE events are inserted after the    *)
(*     last queued event, i.e. ahead of all data;                          *)
(*   - quic_recvmsg: the application reads one event or a run of data of   *)
(*     one stream, and quic_inq_flow_control re-opens receive credit.      *)
(* Stream bytes are abstracted to their offsets: the data of a frame       *)
(* [off, len] is the sequence off, off+1, ..., off+len-1, so what the      *)
(* application reads can be compared with the stream the peer sent.        *)
(***************************************************************************)
EXTENDS Integers, Sequences, SequencesExt, Functions, FiniteSetsExt

CONSTANTS
  Streams,       \* stream ids (numbers: the reassemble_list is sorted by id)
  StreamLen,     \* final size of every stream the peer sends
  Segments,      \* the STREAM frames the peer may send, as [off, len] records
  ConnWindow,    \* inq->window = initial_max_data
  StreamWindow,  \* per stream: stream->recv.window, the initial_max_stream_data
                 \* of its type (bidi remote, uni)
  RcvBuf,        \* sk->sk_rcvbuf
  EventLen,      \* length of a STREAM_UPDATE event skb, in the model's bytes
  ReadLens       \* buffer sizes the application passes to recvmsg

ASSUME Streams \subseteq Nat /\ StreamLen \in Nat \ {0}
ASSUME \A g \in Segments : g.off \in 0..StreamLen-1 /\ g.len \in 1..StreamLen-g.off
ASSUME RcvBuf >= 2 * ConnWindow   \* quic_inq_set_param raises sk_rcvbuf to this
ASSUME ReadLens \subseteq Nat \ {0} /\ EventLen \in Nat \ {0}

VARIABLES
  stream,     \* stream->recv of each stream
  inq,        \* the quic_inqueue counters, event mask and last_event
  reasm,      \* inq->reassemble_list
  rcvq,       \* sk->sk_receive_queue
  delivered,  \* history: the bytes the application has read, per stream
  evGen,      \* history: the events queued, in the order they were queued
  evRead      \* history: the events the application has read

vars == <<stream, inq, reasm, rcvq, delivered, evGen, evRead>>

RecvStates == {"RECV", "SIZE_KNOWN", "RECVD", "READ", "RESET_RECVD", "RESET_READ"}

Frag == [sid : Streams, off : Nat, len : Nat, fin : BOOLEAN]

\* An skb on sk_receive_queue: stream data (ev = FALSE) or an event skb.
\* rd is QUIC_RCV_CB(skb)->read_offset; id identifies an event skb for
\* inq->last_event (0 for data, which last_event never points to).
Skb == [ev : BOOLEAN, sid : Streams, off : Nat, len : Nat, fin : BOOLEAN,
        rd : Nat, st : RecvStates, id : Nat]

Event == [sid : Streams, st : RecvStates]

FrameOf(s, g) == [sid |-> s, off |-> g.off, len |-> g.len,
                  fin |-> g.off + g.len = StreamLen]

DataSkb(f) == [ev |-> FALSE, sid |-> f.sid, off |-> f.off, len |-> f.len,
               fin |-> f.fin, rd |-> 0, st |-> "RECV", id |-> 0]

\* sk_rmem_alloc: quic_inq_set_owner_r charges a data skb, quic_inq_rfree
\* releases it when recvmsg frees the skb; event skbs are not charged.
Rmem(q) == FoldLeft(LAMBDA a, b : a + (IF b.ev THEN 0 ELSE b.len), 0, q)

Lesser(a, b) == IF a < b THEN a ELSE b

\* "a - b < x" on u64 operands: when a < b the difference wraps to at
\* least 2^64 - b, which is below no window.
U64DiffBelow(a, b, x) == a >= b /\ a - b < x

-----------------------------------------------------------------------------
(* The state the handlers pass around: one record, so that the helpers     *)
(* below compose the way the C calls do.                                   *)
Ctx == [stream |-> stream, inq |-> inq, reasm |-> reasm, rcvq |-> rcvq,
        evGen |-> evGen]

Apply(c) == /\ stream' = c.stream /\ inq' = c.inq /\ reasm' = c.reasm
            /\ rcvq' = c.rcvq /\ evGen' = c.evGen

\* quic_inq_event_recv(QUIC_EVENT_STREAM_UPDATE): nothing when the event is
\* disabled; otherwise a new skb goes right after inq->last_event (or at
\* the head of the queue when last_event is NULL) and becomes last_event.
EventRecv(c, s, st) ==
  IF ~c.inq.events THEN c
  ELSE LET ids == {c.rcvq[i].id : i \in DOMAIN c.rcvq}
           id  == Min({i \in 1..Len(c.rcvq) + 1 : i \notin ids})
           pos == IF c.inq.lastEvent = 0 THEN 0
                  ELSE SelectInSeq(c.rcvq, LAMBDA q : q.ev /\ q.id = c.inq.lastEvent)
           e   == [ev |-> TRUE, sid |-> s, off |-> 0, len |-> EventLen,
                   fin |-> FALSE, rd |-> 0, st |-> st, id |-> id]
       IN [c EXCEPT !.rcvq = InsertAt(@, pos + 1, e),
                    !.inq.lastEvent = id,
                    !.evGen = Append(@, [sid |-> s, st |-> st])]

\* Mutant: the state moves to RECVD only when the event is enabled.
RecvTailStateWithEvent(c, f) ==
  LET c1 == IF f.fin /\ c.inq.events
            THEN [EventRecv(c, f.sid, "RECVD") EXCEPT !.stream[f.sid].state = "RECVD"]
            ELSE c
  IN [c1 EXCEPT !.stream[f.sid].offset = @ + f.len, !.rcvq = Append(@, DataSkb(f))]

\* Mutant: recv_tail does the drain's frags-- itself, also for the frame
\* of the fast path, which was never buffered.
RecvTailDropsFrag(c, f) ==
  LET c1 == IF f.fin
            THEN [EventRecv(c, f.sid, "RECVD") EXCEPT !.stream[f.sid].state = "RECVD"]
            ELSE c
  IN [c1 EXCEPT !.stream[f.sid].offset = @ + f.len, !.stream[f.sid].frags = @ - 1,
                !.rcvq = Append(@, DataSkb(f))]

\* Mutant: recv.offset advanced by one byte less than the skb holds.
RecvTailOffByOne(c, f) ==
  LET c1 == IF f.fin
            THEN [EventRecv(c, f.sid, "RECVD") EXCEPT !.stream[f.sid].state = "RECVD"]
            ELSE c
  IN [c1 EXCEPT !.stream[f.sid].offset = @ + f.len - 1, !.rcvq = Append(@, DataSkb(f))]

\* quic_inq_recv_tail: a fin frame announces RECVD and moves the receive
\* state there; the data is appended to sk_receive_queue.
RecvTail(c, f) ==
  LET c1 == IF f.fin
            THEN [EventRecv(c, f.sid, "RECVD") EXCEPT !.stream[f.sid].state = "RECVD"]
            ELSE c
  IN [c1 EXCEPT !.stream[f.sid].offset = @ + f.len, !.rcvq = Append(@, DataSkb(f))]

\* The fast path's walk of the reassemble_list: every fragment of the
\* stream that starts at or before recv.offset is unlinked and delivered.
RECURSIVE Drain(_, _)
Drain(c, s) ==
  LET i == SelectInSeq(c.reasm, LAMBDA g : g.sid = s)
  IN IF i = 0 \/ c.reasm[i].off > c.stream[s].offset THEN c
     ELSE Drain(RecvTail([c EXCEPT !.reasm = RemoveAt(@, i),
                                   !.stream[s].frags = @ - 1], c.reasm[i]), s)

-----------------------------------------------------------------------------
(* quic_inq_reasm_tail for a frame g of stream s.                          *)

\* How far the frame raises the highest offset seen on the stream.
Grow(s, g) == IF g.off + g.len > stream[s].highest
              THEN g.off + g.len - stream[s].highest ELSE 0

\* The early returns: a frame starting before recv.offset is freed, and
\* one that overflows sk_rcvbuf or the connection or stream receive credit
\* is refused with -ENOBUFS; all of them leave the state unchanged.
Admit(s, g) ==
  /\ stream[s].offset <= g.off
  /\ Rmem(rcvq) + g.len <= RcvBuf
  /\ inq.highest + Grow(s, g) <= inq.maxBytes
  /\ stream[s].highest + Grow(s, g) <= stream[s].maxBytes

\* The first data of a stream (highest still 0) announces state RECV,
\* unless that frame carries the fin.
FirstData(c, s, f) ==
  IF c.stream[s].highest = 0 /\ ~f.fin THEN EventRecv(c, s, "RECV") ELSE c

\* Mutant: the walk has no duplicate branch.
IsDupNever(s, g) == FALSE

\* The walk of the out-of-order path: a buffered fragment of the same
\* stream at the same offset makes the frame a duplicate; otherwise it is
\* linked before the first entry of a larger id, or of the same id and a
\* larger offset.

IsDup(s, g) == \E i \in DOMAIN reasm : reasm[i].sid = s /\ reasm[i].off = g.off

InsertPos(q, s, off) ==
  LET after == {i \in DOMAIN q : q[i].sid > s \/ (q[i].sid = s /\ q[i].off > off)}
  IN IF after = {} THEN Len(q) + 1 ELSE Min(after)

\* Mutant: the out-of-order path forgets the connection's highest offset.
RaiseHighestStreamOnly(c, s, g) ==
  [c EXCEPT !.stream[s].highest = @ + Grow(s, g)]

\* Both paths raise the stream's and the connection's highest offset by the
\* same amount once the frame is kept.
RaiseHighest(c, s, g) ==
  [c EXCEPT !.inq.highest = @ + Grow(s, g), !.stream[s].highest = @ + Grow(s, g)]

RecvOutOfOrder(s, g) ==
  LET f  == FrameOf(s, g)
      c0 == FirstData(Ctx, s, f)
      c1 == IF f.fin
            THEN [EventRecv(c0, s, "SIZE_KNOWN") EXCEPT !.stream[s].state = "SIZE_KNOWN"]
            ELSE c0
  IN /\ Admit(s, g)
     /\ stream[s].offset < g.off
     /\ ~IsDup(s, g)
     /\ Apply(RaiseHighest([c1 EXCEPT !.reasm = InsertAt(@, InsertPos(@, s, g.off), f),
                                      !.stream[s].frags = @ + 1], s, g))
     /\ UNCHANGED <<delivered, evRead>>

RecvInOrder(s, g) ==
  LET f  == FrameOf(s, g)
      c2 == RecvTail(RaiseHighest(FirstData(Ctx, s, f), s, g), f)
  IN /\ Admit(s, g)
     /\ stream[s].offset = g.off
     /\ Apply(IF c2.stream[s].frags = 0 THEN c2 ELSE Drain(c2, s))
     /\ UNCHANGED <<delivered, evRead>>

-----------------------------------------------------------------------------
(* The application side.                                                   *)

\* Mutant: only the connection credit is re-opened.
FlowControlConnOnly(c, s, len) ==
  IF len = 0 THEN c
  ELSE LET b == c.inq.bytes + len
       IN [c EXCEPT
             !.inq.bytes = b,
             !.inq.maxBytes = IF U64DiffBelow(@, b, ConnWindow \div 2)
                              THEN b + ConnWindow ELSE @,
             !.stream[s].bytes = @ + len]

\* quic_inq_flow_control after recvmsg freed len bytes of stream s: credit
\* is re-opened to bytes + window once less than half a window is left
\* (the MAX_DATA / MAX_STREAM_DATA frames go to the outqueue).
FlowControl(c, s, len) ==
  IF len = 0 THEN c
  ELSE LET b  == c.inq.bytes + len
           sb == c.stream[s].bytes + len
       IN [c EXCEPT
             !.inq.bytes = b,
             !.inq.maxBytes = IF U64DiffBelow(@, b, ConnWindow \div 2)
                              THEN b + ConnWindow ELSE @,
             !.stream[s].bytes = sb,
             !.stream[s].maxBytes = IF U64DiffBelow(@, sb, StreamWindow[s] \div 2)
                                    THEN sb + StreamWindow[s] ELSE @]

\* The copy loop of quic_recvmsg over the data skbs at the head of the
\* queue: it stops at a partially copied skb, at a fin, when the buffer is
\* full, or before an skb that is an event or belongs to another stream.
RECURSIVE ReadData(_, _)
ReadData(q, n) ==
  LET h    == Head(q)
      copy == Lesser(h.len - h.rd, n)
      got  == [i \in 1..copy |-> h.off + h.rd + i - 1]
      more == Len(q) > 1 /\ ~q[2].ev /\ q[2].sid = h.sid
  IN IF copy # h.len - h.rd
     THEN [q |-> [q EXCEPT ![1].rd = @ + copy], got |-> got, freed |-> 0, fin |-> FALSE]
     ELSE IF h.fin \/ ~more \/ copy = n
          THEN [q |-> Tail(q), got |-> got, freed |-> h.len, fin |-> h.fin]
          ELSE LET r == ReadData(Tail(q), n - copy)
               IN [r EXCEPT !.got = got \o @, !.freed = @ + h.len]

\* Mutant: last_event is cleared whenever an event is read.
ClearLastAlways(id, last) == 0

\* recvmsg drops last_event only when the freed event skb is last_event.
ClearLast(id, last) == IF id = last THEN 0 ELSE last

\* recvmsg with an event skb at the head: a short buffer advances
\* read_offset; otherwise the event is freed, last_event is cleared when it
\* was this skb, and a RESET_RECVD stream moves to RESET_READ.
RecvEvent(n) ==
  LET h == Head(rcvq)
  IN /\ rcvq # <<>>
     /\ h.ev
     /\ IF n < h.len - h.rd
        THEN /\ rcvq' = [rcvq EXCEPT ![1].rd = @ + n]
             /\ UNCHANGED <<stream, inq, evRead>>
        ELSE /\ rcvq' = Tail(rcvq)
             /\ inq' = [inq EXCEPT !.lastEvent = ClearLast(h.id, @)]
             /\ stream' = IF stream[h.sid].state = "RESET_RECVD"
                          THEN [stream EXCEPT ![h.sid].state = "RESET_READ"]
                          ELSE stream
             /\ evRead' = Append(evRead, [sid |-> h.sid, st |-> h.st])
     /\ UNCHANGED <<reasm, delivered, evGen>>

\* recvmsg with stream data at the head: the bytes copied, READ once the
\* fin skb is consumed, then flow control for the bytes of freed skbs.
RecvData(n) ==
  LET s == Head(rcvq).sid
      r == ReadData(rcvq, n)
      c == [Ctx EXCEPT !.rcvq = r.q,
                       !.stream[s].state = IF r.fin THEN "READ" ELSE @]
  IN /\ rcvq # <<>>
     /\ ~Head(rcvq).ev
     /\ Apply(FlowControl(c, s, r.freed))
     /\ delivered' = [delivered EXCEPT ![s] = @ \o r.got]
     /\ UNCHANGED evRead

\* setsockopt(QUIC_SOCKOPT_EVENT) for QUIC_EVENT_STREAM_UPDATE.
SetEvent(on) ==
  /\ inq' = [inq EXCEPT !.events = on]
  /\ UNCHANGED <<stream, reasm, rcvq, delivered, evGen, evRead>>

-----------------------------------------------------------------------------
\* quic_inq_set_param with the local transport parameters: receive credit
\* starts at one window; events start disabled.
Init ==
  /\ stream = [s \in Streams |-> [offset |-> 0, highest |-> 0, bytes |-> 0,
                                  maxBytes |-> StreamWindow[s], frags |-> 0,
                                  state |-> "RECV"]]
  /\ inq = [highest |-> 0, bytes |-> 0, maxBytes |-> ConnWindow,
            events |-> FALSE, lastEvent |-> 0]
  /\ reasm = <<>>
  /\ rcvq = <<>>
  /\ delivered = [s \in Streams |-> <<>>]
  /\ evGen = <<>>
  /\ evRead = <<>>

Receive == \E s \in Streams, g \in Segments :
             RecvOutOfOrder(s, g) \/ RecvInOrder(s, g)

Read == \E n \in ReadLens : RecvEvent(n) \/ RecvData(n)

Next == Receive \/ Read \/ \E on \in BOOLEAN : SetEvent(on)

\* The application keeps reading, and the peer retransmits the STREAM frame
\* at a stream's read offset until it is accepted (a refused frame is not
\* acknowledged).
InOrderAdmissible(s) ==
  \E g \in Segments : Admit(s, g) /\ stream[s].offset = g.off

Fairness ==
  /\ WF_vars(Read)
  /\ \A s \in Streams :
       []<>InOrderAdmissible(s) => []<><<\E g \in Segments : RecvInOrder(s, g)>>_vars

Spec == Init /\ [][Next]_vars /\ Fairness

-----------------------------------------------------------------------------
TypeOK ==
  /\ stream \in [Streams -> [offset : Nat, highest : Nat, bytes : Nat,
                             maxBytes : Nat, frags : Nat, state : RecvStates]]
  /\ inq \in [highest : Nat, bytes : Nat, maxBytes : Nat, events : BOOLEAN,
              lastEvent : Nat]
  /\ reasm \in Seq(Frag)
  /\ rcvq \in Seq(Skb)
  /\ delivered \in [Streams -> Seq(Nat)]
  /\ evGen \in Seq(Event) /\ evRead \in Seq(Event)

\* What the application reads of a stream is a prefix of what the peer
\* sent: no byte is skipped and none is read twice, however the peer's
\* frames are reordered or duplicated (reasm_tail, the drain walk and the
\* recvmsg copy loop together).
InOrderDelivery ==
  \A s \in Streams : delivered[s] = [i \in 1..Len(delivered[s]) |-> i - 1]

\* Events reach the application in the order quic_inq_event_recv queued
\* them: the events read, followed by those still queued, are exactly the
\* events generated (last_event bookkeeping in event_recv and recvmsg).
EventsInOrder ==
  LET q == SelectSeq(rcvq, LAMBDA b : b.ev)
  IN evRead \o [i \in DOMAIN q |-> [sid |-> q[i].sid, st |-> q[i].st]] = evGen

\* The connection's highest offset is the sum over its streams, each
\* stream's highest is the end of the data it holds or has delivered, and
\* neither exceeds the credit the receiver has granted.
CreditAccounting ==
  /\ inq.highest = SumFunction([s \in Streams |-> stream[s].highest])
  /\ inq.highest <= inq.maxBytes
  /\ \A s \in Streams :
       /\ stream[s].highest =
            Max({stream[s].offset} \cup
                {reasm[i].off + reasm[i].len : i \in {j \in DOMAIN reasm : reasm[j].sid = s}})
       /\ stream[s].highest <= stream[s].maxBytes

\* The receive state says where the final size is: SIZE_KNOWN exactly
\* while the fin fragment is buffered, RECVD exactly while the fin data is
\* queued for the application, READ exactly when every byte has been read.
RecvStateConsistent ==
  \A s \in Streams :
    /\ (stream[s].state = "SIZE_KNOWN") <=> \E i \in DOMAIN reasm : reasm[i].sid = s /\ reasm[i].fin
    /\ (stream[s].state = "RECVD") <=> \E i \in DOMAIN rcvq : ~rcvq[i].ev /\ rcvq[i].sid = s /\ rcvq[i].fin
    /\ (stream[s].state = "READ") <=> Len(delivered[s]) = StreamLen

\* The receive path implements StreamDelivery: recv.offset is how much of
\* the stream has arrived in order, and every recvmsg of stream data is
\* one read of the next bytes among those (reasm_tail, the drain walk,
\* recv_tail and the recvmsg copy loop together).
Delivery == INSTANCE StreamDelivery WITH
              avail <- [s \in Streams |-> stream[s].offset],
              out <- delivered

DeliverySpec == Delivery!Spec

\* Receive flow control never wedges the stream: with a reading
\* application and a retransmitting peer, every stream is read to its end.
AllDataRead == <>(\A s \in Streams : Len(delivered[s]) = StreamLen)
=============================================================================
