# TLA+ models of the QUIC kernel socket

These TLA+ modules model the in-kernel QUIC implementation in `src/`. TLC
checks them. The source comes in two trees of slightly different versions:

- `src/net/quic/` holds `socket.c`, `input.c` and `packet.h`;
- `src/modules/net/quic/` holds `timer.c`, `input.h`, `output.h` and
  `protocol.h`.

Frame, packet, stream, crypto, congestion and outqueue code (`frame.c`,
`output.c`, …) is not in `src/`. Where a model needs what that code does, the
definition is modelled from `spec.md` and marked `spec_modelled` in
`PROJECT.json`.

## 1. The system

| Part | State it keeps | Operations | Interacts with |
|---|---|---|---|
| Socket lock and backlog (`quic_rcv`, `input.c` 101-149) | `sock_owned_by_user`, the socket backlog | softirq receive: run `quic_do_rcv` now, or queue to the backlog while the user owns the socket | every user call (`lock_sock`/`release_sock`), the timers |
| Stream receive path (`input.c` 151-281, `socket.c` 724-827) | per stream `recv.{offset, highest, bytes, max_bytes, frags, state}`; `inq->{highest, bytes, max_bytes, events, last_event}`; `reassemble_list`; `sk_receive_queue` | `quic_inq_reasm_tail` (drop, buffer, or deliver and drain), `quic_inq_recv_tail`, `quic_inq_event_recv`, `quic_recvmsg`, `quic_inq_flow_control` | frame parser (calls reasm_tail), application (recvmsg, setsockopt EVENT), outqueue (MAX_DATA frames) |
| Path validation (`socket.c` 1093-1186, `timer.c` 86-148) | `quic_src`/`quic_dst` path_addr: active slot, two addresses, `sent_cnt`; the path timer | `change_saddr`, `change_daddr`, path timer handler, PATH_RESPONSE | setsockopt (CONNECTION_MIGRATION), frame handler, crypto-secret install (re-arms the timer for PLPMTUD) |
| Timers (`timer.c`) | four timers (LOSS, SACK/IDLE, PATH, PACE), `*_DEFERRED` bits, `sk_refcnt` | start/reset/stop, timeout wrappers, handlers | socket lock, `release_cb` |
| Connection lifecycle (`socket.c` 289-351, 1072-1091, 1235-1340) | `sk_state`, crypto levels, the inq backlog_list | connect, set_crypto_secret, close, shutdown, idle close | listener/accept, path timer, CID sets |
| Listener and accept (`socket.c` 66-104, 829-1070) | request list, accept queue length | request enqueue/dequeue, wait_for_accept, accept, copy_sock | packet input (`quic_new_sock_do_rcv`, `quic_handshake_do_rcv`) |
| Connection IDs (`socket.c` 1316-1375) | source/dest CID sets: first and last numbers | NEW_CONNECTION_ID issue, retire | outqueue |
| Version selection (`socket.c` 36-64) | none (a pure function) | `quic_compatible_version`, `quic_select_version` | handshake |
| Send path (`socket.c` 160-169, 470-677) | stream send state, `sk_wmem_queued`, the `sk_sleep` wait queue | `quic_sendmsg` (CRYPTO, datagram, stream), `quic_wait_for_send`, stream options, `quic_write_space` | outqueue acknowledgements (not in `src/`), close |
| Options, getters, bind, hash | copies of parameters; hash tables | copy in/out, lookups | outqueue (not in `src/`) |

### What is hard

- **Reassembly.** Frames arrive reordered and duplicated, and retransmissions
  may be cut at other boundaries. `reasm_tail` recognises duplicates by
  offset only and drains by start offset only.
- **Event ordering.** Events are linked after `last_event`, ahead of data.
  That pointer is cleared in a different function (`recvmsg`).
- **Flow control.** Credit is accounted in two places (connection and
  stream), on two paths (in order and out of order). It is re-opened only
  once half a window has been read.
- **Path validation.** Two validations (local and peer) share one timer.
  The handler has early returns, and the abandonment path swaps the
  destination back.
- **Timers and the socket lock.** A timer that fires while the user owns
  the socket defers its work with a bit and a reference. The work is done
  only if `release_cb` handles that bit.
- **Partial failures.** Frame allocation can fail in the middle of a
  multi-frame step (CID loops, flow-control updates, `change_saddr`).
- **Sleeping senders.** `quic_wait_for_send` releases the lock while it
  sleeps, so the stream may change under it. Its waiters share one
  exclusive wait queue with the readers of `quic_wait_for_packet`. The
  queue is woken one waiter at a time, and its waiters wait for different
  conditions.

## 2. Modules

### `InboundStream` (with `MCInboundStream`)

This module models the stream receive path.

- **State.** `stream` holds each stream's `recv` fields; `inq` holds the
  connection counters, the event mask and `last_event`. `reasm` is the
  `reassemble_list`, a sequence of fragments `[sid, off, len, fin]`. `rcvq` is
  `sk_receive_queue`, holding data and event skbs. A `read_offset` is `rd`.
  Event skbs carry an `id` that `last_event` refers to.
- **Bytes are offsets.** The data of frame `[off, len]` is the sequence
  `off .. off+len-1`. The history variable `delivered` is therefore the exact
  sequence of bytes the application read.
- **Reading is abstracted.** A copy to user space always succeeds.
- **Actions:**
  - `RecvOutOfOrder` and `RecvInOrder` are the two outcomes of
    `quic_inq_reasm_tail`. The early returns (drop, `-ENOBUFS`) are the
    guards in `Admit`. The drain walk, `Drain`, is part of `RecvInOrder`.
  - `RecvEvent` and `RecvData` are the two branches of `quic_recvmsg`.
    `RecvData` includes the copy loop (`ReadData`) and the trailing
    `quic_inq_flow_control`.
  - `SetEvent` is `QUIC_SOCKOPT_EVENT`.
- **Fairness.**
  - Weak fairness on `Read`: the application keeps calling recvmsg.
  - Strong fairness, per stream, on receiving the frame at the stream's
    read offset: a refused frame is not acknowledged, so the peer
    retransmits it until it is accepted. It may be refused again and again
    while credit is closed; strong fairness says it is eventually accepted
    once it is admissible infinitely often. The condition is written out as
    `[]<>InOrderAdmissible(s) => []<><<RecvInOrder(s, _)>>_vars`, where
    `InOrderAdmissible` is the guard of `RecvInOrder` (`Admit` plus the
    offset test). This is the definition of `SF`, with the enabledness
    stated directly, so TLC need not evaluate `ENABLED` of the drain walk.
  - No fairness on out-of-order arrivals or on `SetEvent`.

### `StreamDelivery`

This module is the abstract specification of the receive side: a reliable,
in-order byte stream per stream. Bytes arrive in order up to the final size
(`Arrive`). A read (`ReadNext`) hands over the next bytes after those already
read, and only bytes that have arrived.

`InboundStream` instantiates it with two mappings:

- `avail` ← `recv.offset`;
- `out` ← the bytes read.

TLC checks `Delivery!Spec` as the property `DeliverySpec`. Every
`RecvInOrder` step is an `Arrive` (or a stutter when it drops the frame).
Every `RecvData` step is a `ReadNext`. Every other step is a stutter.

### `PathValidation`

This module models connection migration and path validation.

- **State.**
  - `active`, `ok` and `cnt` are the two `quic_path_addr` structures,
    abstracted to the active slot, whether each slot's address has been
    validated, and `sent_cnt`.
  - `timer` is whether `QUIC_TIMER_PATH` is pending.
  - `chal` counts the PATH_CHALLENGE frames of the current validation.
- **Actions:**
  - `ChangeSaddr(hasAddr)`: the setsockopt path, including the NULL
    address of `optlen == 0`.
  - `ChangeSaddrFail`: the error exits after the address is stored.
  - `SetPreferredAddr`: the server, before the handshake.
  - `ChangeDaddr(hasAddr)`: `quic_sock_change_daddr` in its order. It
    refuses a second validation, swaps the active slot, and only then
    writes the new address (when there is one) with
    `quic_path_addr_set(path, addr, 1)`. Index 1 is relative to the active
    slot, as `ChangeSaddr` reads it at line 1154, so the write lands in
    the slot that was active and validated. No state check precedes it.
  - `PathTimeout`: all of `quic_timer_path_handler`, including the
    PLPMTUD probe branch, which may or may not re-arm the timer.
  - `PathResponse`: from the spec, because `frame.c` is not in `src/`.
  - `Establish`: the timer re-arm in `set_crypto_secret`.
  - `Close`.
- **Fairness.** Weak fairness on `PathTimeout`: a pending kernel timer fires.
  A PATH_RESPONSE is never assumed to arrive.

### `TimerDefer`

This module models the four socket timers against the socket lock and
`sk_refcnt`.

- **State.**
  - Per timer: `pending`; `running` (expired, callback in softirq);
    `deferred` (its `*_DEFERRED` bit).
  - `refs`, `owned` (`sock_owned_by_user`), the application's phase `user`,
    `closed` (`QUIC_SS_CLOSED`), and the backlog length.
  - `QUIC_TIMER_IDLE` is the SACK timer: `quic_timer_init` sets up only
    LOSS, SACK, PATH and PACE, and the SACK handler does the idle close.
- **Actions:**
  - `Expire` and `Timeout`: the kernel fires the timer, then the
    `quic_timer_*_timeout` wrapper runs. It defers with one reference per
    new bit, or runs the handler, then does `sock_put`.
  - `HandlerOutcomes` abstracts each handler to the timers it re-arms and
    whether it closes (the idle close). On a closed socket nothing happens.
  - `Rcv`: `quic_rcv`. The packet goes to the backlog while the socket is
    owned, and is dropped when the backlog is full.
  - `Lock`, `UserArm`, `Close`: the user side. `UserArm` is a call that
    arms a timer under the lock, such as the path-timer reset at the end
    of `quic_sock_change_daddr` (`quic_timer_reset`), or
    `quic_timer_start` from the send path.
  - `ReleaseBacklog`, `ReleaseCb`, `ReleaseDone`: `release_sock`.
  - `Destroy`: `sk_common_release`, which calls `quic_destroy_sock`, which
    calls `quic_timer_free`, followed by the final `sock_put`.
  - The timer callback spins on the socket spinlock while `release_sock`
    holds it.
- **Two `release_cb`s.** The constant `ServiceDeferred` selects between
  them:
  - the one in `src/net/quic/socket.c`, which handles only the MTU bit
    (`ServiceDeferred = FALSE`); with it, a timer that expires inside
    `quic_close`'s locked section keeps its bit and reference for good, and
    `SocketFreed` is violated;
  - the deferral handling that the spec requires. It runs each deferred
    handler and drops its reference. It is spec-modelled: the `release_cb`
    that goes with `timer.c` is not in `src/`. `timer_pass` uses it.
- **Fairness.**
  - Weak fairness on timer expiry and on callback completion.
  - Weak fairness on the release steps and on destroy: every locked call in
    `socket.c` ends in `release_sock`, and `quic_close` ends in
    `sk_common_release`.
  - None on user calls or on packet arrival.

### `ConnLifecycle`

This module models the application-driven life of one connection socket in
`socket.c`. Every call runs under `lock_sock`, so each is one atomic step.

- **State.** `state` is `sk_state`. `released` says `quic_close` ran.
  `secrets` holds the installed (level, direction) keys, and `dataLevel` is
  the outqueue's data level. `source` is the set of source CID numbers;
  `destFirst`..`destLast` is the destination set. `ctrl` is the history of
  frames queued on the control list. `pathTimer` says the path timer is
  armed. `calls` counts the calls, up to `MaxCalls`.
- **Init.** A server socket starts ESTABLISHING with CID 0, as left by
  `quic_accept_sock_init`. A client starts CLOSED with no CID.
- **Actions:**
  - `Connect`: `quic_connect`, which succeeds or fails with the socket left
    closed.
  - `SetSecret(level, send)`: all of `quic_sock_set_crypto_secret`. The
    1-RTT receive key sets ESTABLISHED. A server then queues NEW_TOKEN and
    HANDSHAKE_DONE. The 1-RTT send key sets the data level and runs the
    NEW_CONNECTION_ID loop (`IssueConnIds`). On an allocation failure at
    number `k`, the loop removes numbers 1..k.
  - `RetireSource(n)` and `RetireDest(n)`: the two branches of
    `quic_sock_retire_connection_id`. The RETIRE loop may stop early on a
    failed allocation.
  - `Shutdown` and `Close`: `quic_shutdown` and `quic_close`. `IdleClose`
    is the idle close of `quic_timer_sack_handler` (`timer.c`). Setting
    CLOSED wakes every waiter, as the spec says.
  - `PeerNewConnId`, `DestRetired` and `PeerRetireSource` are the peer's
    frames, modelled from the spec, because `frame.c` is not in `src/`.
- **The send path.** `Threads` application threads share the socket.
  `thread[t]` is where thread `t` is in `quic_sendmsg` (`idle`, or asleep
  in `quic_wait_for_send` for a stream or for buffer room) and which send
  it does (`open`, `data`, `fin`, `dgram`). `sstate` is the send state of
  the one stream, `peerStreams` the peer's remaining stream credit,
  `peerDgram` whether the peer accepts datagrams, `wmem` the queued
  STREAM and DATAGRAM frames, counted apart, against `SndBuf`, and `slog` the stream frames queued, in order, with
  `reset` for RESET_STREAM. `rq` is the number of skbs on
  `sk_receive_queue`, bounded by `RcvQ`. `sleepq` is `sk_sleep(sk)`: the
  sleeping calls, senders and readers alike, in FIFO order.
  - The wait queue. `quic_wait_for_send` sleeps with
    `prepare_to_wait_exclusive`, whether it waits for the stream limit or
    for room, so `Sleep` appends the thread to `sleepq`. `quic_write_space`
    wakes with `wake_up_interruptible_sync_poll`, which wakes one exclusive
    waiter: `WakeOne` removes the head. A thread off the queue but not idle
    is `Woken`: it takes the lock again and re-checks. If it must go on
    waiting, it queues itself at the tail again.
  - `StartSend(t, op)`: `quic_sock_send_stream` and the first half of
    `quic_sendmsg`. An existing stream is refused unless READY or SEND. A
    new one is created, or, at the stream limit, STREAMS_BLOCKED is queued
    and the thread sleeps (a client's stream 0 returns `-EAGAIN`, see the
    hazards). `StreamOpen` is the `QUIC_SOCKOPT_STREAM_OPEN` path.
  - `SendOnStream` and `WriteFrame`: the wait for buffer room, then the
    frame write, with its allocation failure.
  - `SendDatagram`: the MSG_DATAGRAM branch. It gives `-EINVAL` unless the
    peer accepts datagrams, then does the same wait for room and frame loop
    as a stream. `SendCrypto(level)`: the handshake-info branch. It queues a
    CRYPTO frame at a level whose send key is installed, and never waits.
  - `WakeStreams` and `WakeSpace`: a woken thread re-checks its condition.
    It goes on *without re-checking the stream state*, or sleeps again.
    `WaitClosed` is the `-EPIPE` return on a closed socket. `WaitAbort` is
    a signal, timeout or `sk_err`, asleep or woken. A reader checks the
    receive queue first, so it still reads what is queued.
  - `RecvMsg` and `WakeRecv`: `quic_recvmsg` through `quic_wait_for_packet`
    (`ReadOrWait`), in the order of its checks. A queued skb is read, then
    come `-ENOTCONN` on a closed socket and `-EAGAIN`, else the reader
    sleeps. What is read, and how, is the business of `InboundStream`.
  - `DataArrive`: a packet puts an skb on the receive queue and calls
    `sk_data_ready`. That is `sock_def_readable`, which wakes one exclusive
    waiter (`WakeOne`), reader or sender.
  - `ResetStream`, `StopSending`, `SetToken`, `SetRemoteTransportParam`,
    `SetTransportParamsExt`: the socket options. A reset purges the
    stream's STREAM frames; queued DATAGRAM frames stay charged.
    `SetToken` is `quic_sock_set_token`: a server queues NEW_TOKEN in any
    state, or fails with `-ENOMEM`; a client only stores the token.
    `SetTransportParamsExt` is allowed only
    while ESTABLISHING. If the extension does not decode, it sends
    CONNECTION_CLOSE and closes the connection; that close is taken from
    the spec. `PeerMaxStreams` and `StreamAcked` are the peer's MAX_STREAMS
    and acknowledgements, spec-modelled.
  - Every user call (`AppCall`) needs an idle thread to make it.
  - `sk_wmem_schedule` is taken to succeed; only the `sk_stream_wspace`
    test decides the wait.
- **Fairness.**
  - Weak fairness on `AckOrIdle`: queued frames are acknowledged or the
    connection idles out. The loss timer retransmits until an
    acknowledgement arrives, and a silent peer lets the idle timer fire.
  - Weak fairness, per thread, on `WakeSpace`, `WakeStreams`, `WaitClosed`
    and `WakeRecv`: a woken task is scheduled and gets the lock back.
  - None on user calls, peer frames, packet arrival or signals.

### `VersionSelect` (with `MCVersionSelect`)

This module models `quic_select_version` as the recursive operator
`SelectLoop`, a translation of its two loops over the `quic_versions` table,
together with its effect on the inqueue version. `quic_compatible_versions`
is the operator `CompatibleVersions`.

The state records only the last call: the list, the return value and the
version. `SelectMatchesReference` compares the loop with a declarative
reference: the largest listed version of the table, or failure with the
version unchanged. The comparison covers every list of up to 4 entries drawn
from:

- v1;
- v2 (0x6b3343cf);
- a greasing version (0x0a0a0a0a);
- 0.

All these values are below 2^31, which is the range TLC integers cover.

### `Listener` (with `MCListener`)

This module models the server side of connection setup, across three
actors:

- the softirq receive path, `quic_rcv`: lookup, then `bh_lock_sock`;
- `quic_handshake_do_rcv` on the listener, with the backlog-flag re-lookup
  of `quic_new_sock_do_rcv`;
- the accepting task, `quic_accept` and `quic_wait_for_accept`.

A peer stands for the 4-tuple of its datagrams. The variables are:

- `reqs`: the request list;
- `lowned` and `lbacklog`: the listener's lock and backlog;
- `rqlen`: its receive queue;
- per connection socket: `nconn` (sockets hashed), `cowned` (owned by
  `quic_accept_sock_init`), `cbacklog` and `received`.

`acc` is the accepting task's position. `Rcv` is the lookup: the datagram
waits in `inflight` with the socket found until `Deliver` takes
`bh_lock_sock`. With `StaleLookup` any datagram may be delivered, as when
another CPU runs `quic_accept` between the two. Without it, only a datagram
whose lookup is still current (`LookupCurrent`) is delivered: the schedules
in which no socket is hashed between lookup and lock.

`AcceptDequeue` is one step. It spans the dequeue, allocation, `copy_sock`,
bind and `quic_accept_sock_init` up to `quic_hash`: all of it runs under the
listener lock, before the new socket is visible. Every failure there frees
the request. `ReleaseStep` is `__release_sock`: backlogged datagrams go
through `quic_handshake_do_rcv` with the flag set while the lock is still
owned.

The listener's `sk_backlog_rcv` is `quic_do_rcv`, which hands datagrams to
`quic_packet_process`. That function is not in `src/`. The model assumes it
calls `quic_handshake_do_rcv` for a listening socket, as the spec's accept
path describes.

Properties:

- `RequestUnique`: a 4-tuple never has both a request and a hashed socket,
  or two of either. With current lookups it rests on the backlog flag: a
  datagram backlogged on the listener during an accept is processed after
  `quic_hash`, and only the re-lookup of `quic_new_sock_do_rcv` keeps it
  from opening a second request.

Fairness covers delivery, lock release, the wakeup of a queued request or of
a finite timeout, and the accept steps. Calling `accept`, spurious wakeups
and signals are not fair.

## 3. Runs

| Run | Expect | What it shows |
|---|---|---|
| `inbound_pass` | pass | Two streams of 3 bytes; frames cut at fixed boundaries may arrive in any order, any number of times. The bidirectional stream's credit (2) is below its length; the unidirectional one has credit for all of it, so its fin may arrive first and RECV, SIZE_KNOWN and RECVD events pile up unread. TLC checks four invariants: bytes are delivered in order exactly once (`InOrderDelivery`); connection and stream `highest` are accounted exactly and stay within credit (`CreditAccounting`); events are read in the order queued (`EventsInOrder`); the receive state agrees with where the fin is (`RecvStateConsistent`). It also checks one liveness property: every stream is eventually read to the end (`AllDataRead`). Finally, the receive path refines `StreamDelivery` (`DeliverySpec`). |
| `inbound_resegment` | violation | A peer that re-cuts retransmissions makes the drain walk deliver an overlapping fragment. The application reads `0,1,1` and `recv.offset` passes a byte that never arrived. This is a code bug at `input.c:274`. |
| `path_pass` | pass | With migrations not overlapping: at most 5 challenges are sent per validation (`ChallengeLimit`), and the timer is pending while a validation runs (`ValidationTimerArmed`). |
| `path_daddr_swap` | violation | `quic_sock_change_daddr` with an address swaps the active slot and then writes the address into the slot it has just left, which was active and validated. The 5 challenges go out on the old alternate slot and go unanswered; the handler swaps back, to the slot now holding the new, never validated address (`ActivePathValidated`). This is a code bug at `socket.c:1107`. |
| `path_overlap` | violation | A local migration is abandoned while a peer migration runs. `timer.c:101-104` returns before the destination is handled, which leaves it validating with no timer. Every later `change_daddr` then fails. This is a code bug. |
| `timer_pass` | pass | The reference count always equals the application's reference plus the pending timers, the callbacks in flight and the deferred bits (`RefCountExact`). A closed socket is eventually freed (`SocketFreed`), although timers keep expiring during `quic_close` and are re-armed by deferred handlers and backlogged packets. |
| `listener_pass` | pass | Lookups still current when the socket is locked. Datagrams are backlogged on the listener while `quic_accept` holds it and are processed after `quic_hash`; the backlog flag and the re-lookup of `quic_new_sock_do_rcv` route them to the new socket, so a 4-tuple never has two requests, or a request and a socket (`RequestUnique`). The request list stays within `sk_acceptq_is_full` (`TypeOK`). |
| `listener_stale` | violation | A client's retransmitted Initial is looked up before `quic_accept` hashes the socket. It takes `bh_lock_sock` only after the listener is released, and becomes a second request for the accepted 4-tuple. That request's accept fails with `-EADDRINUSE`. This is a code bug at `input.c:129`. |
| `conn_pass` | pass | Every call order of connect, key installs at every level and direction (each may fail), CID issue and retire on both sides, peer frames, token, stream and transport-parameter options, shutdown and close. Every pre-issued or replacement source CID is announced by exactly one NEW_CONNECTION_ID, also when the issue loop fails half-way (`IssuedCidsAnnounced`). Only a server queues HANDSHAKE_DONE, at most once, and an ESTABLISHED server has queued it, even when the install fails half-way and is retried (`HandshakeDoneOnce`). A send asleep for buffer room always returns (`SendWaitEnds`). |
| `conn_lost_wakeup` | violation | With two threads, a send asleep for buffer room never returns although the buffer is empty and nothing is in flight (`SendWaitEnds`). The acknowledgement's one wakeup went to the other thread at the head of the exclusive queue. In TLC's trace that thread fails to allocate its frame. With allocation failures and aborts removed, it is a server call still blocked on the stream limit, which queues itself again. The head can also be a reader. The receive side is exposed the same way: with `RecvWaitEnds` in place of `SendWaitEnds`, the same configuration leaves a reader asleep with an skb queued, because `sk_data_ready`'s wakeup went to a sender waiting for the stream limit. This is a code bug at `socket.c:508` with `socket.c:167`. |
| `conn_send_race` | violation | With two threads, one sleeps in `quic_wait_for_send` for buffer room after `quic_sock_send_stream` accepted the stream; the other resets the stream or sends its fin; the first wakes and queues a STREAM frame after RESET_STREAM or after the fin (`StreamEndsOnce`). This is a code bug at `socket.c:655`, and the re-get at `socket.c:585` has the same gap. |
| `version_select` | pass | The loop selects the numerically largest supported version, wherever it stands in the peer's list. It fails exactly when no listed version is supported. |

### Bounds

`inbound_pass` uses:

- streams 0 (bidirectional, window 2) and 2 (unidirectional, window 3):
  `stream->recv.window` is per stream, from the transport parameter of
  its type;
- 3 bytes per stream, so reordering, duplication and a fin all occur;
- stream 0's window is smaller than the stream, so MAX_STREAM_DATA must
  re-open credit mid-stream;
- connection window 4, less than the 6 bytes of both streams, so the
  connection credit binds too;
- read sizes 1 and 3, so both partial and multi-skb reads occur;
- events toggled freely.

Events sit ahead of data, so the application reads every queued event before
any data. With a stream window of 2, at most two events can be pending, and
the fin cannot arrive before the data it follows. Stream 2 therefore has a
window of 3. Then three events can be queued at once (a second stream's
RECV, then SIZE_KNOWN) and the `last_event` bookkeeping is exercised.

`timer_pass` uses a backlog of 2 packets. That is enough to reach a full
backlog and a drop; every interleaving of the four timers with a locked call,
`quic_close` and destroy is explored (37,068 states).

`path_pass` uses the code's limit of 5 challenges. TLC explores every order of
migrations, timeouts, responses, establishment and close. The runs disable the
deadlock check because a closed socket whose timer has fired stops for good.

`conn_pass` uses a peer limit of 3 CIDs (`MaxCount`), destination CIDs up
to 2, and 5 calls. That is enough for the issue loop to fail at each number,
for a server's failed receive-key install followed by a retry, and for a
RETIRE loop over two destination CIDs. The deadlock check is off: a released socket stops.
It has one thread and a send buffer of one frame (`SndBuf`), so a send
waits for room and is woken by an acknowledgement. A receive queue of one
skb (`RcvQ`) lets a reader sleep, be woken by an arrival and read
(270,019 states).
`conn_send_race` adds a second thread, the least that can interleave with
a sleeping send. `conn_lost_wakeup` has two threads too, and limits the CIDs
to 1 and the calls to 5 to keep the liveness check short. Two waiters are the least for one to
take another's wakeup.

`listener_*` use:

- two peers and three datagrams, enough for two Initials of one peer plus a
  datagram of the other;
- an accept backlog of 0, which admits one request (`>` in
  `sk_acceptq_is_full`), so a full accept queue happens;
- backlogs and a receive queue of 2.

`listener_pass` reaches 2,846 states, `path_pass` 24,460.

### Mutants

Each property of a passing run is broken by a plausible fault of the code it
is about. The fault is an operator defined just before the definition it
replaces, and `PROJECT.json` lists them:

- the duplicate branch of the walk is dropped;
- `last_event` is always cleared;
- the connection `highest` is forgotten;
- the RECVD state is set only when events are enabled;
- the stream credit is never re-opened;
- `frags--` is done in `recv_tail`;
- the swap-back is done as an increment;
- `>` is used for `>=`;
- the timer reset is missing;
- the accept queue admits one extra request;
- `quic_new_sock_do_rcv` never finds the socket hashed since the datagram
  was backlogged;
- the issue loop's failure path removes nothing;
- a failed NEW_TOKEN or HANDSHAKE_DONE allocation goes on to ESTABLISHED;
- an early-data send key sets any level as the data level;
- the wait for room asks for more room than the message needs.

## 4. Plan

The most important behaviour comes first.

1. **`TimerDefer`: done.** A remaining extension: the MTU_REDUCED bit,
   set by the ICMP path, which is not in `src/`.
2. **`ConnLifecycle`: partly done.** Connect, `set_crypto_secret`, CID
   issue and retire, shutdown and close are modelled. Remaining:
   - the replay of the inqueue `backlog_list` on a receive-key install;
   - composition with `PathValidation` through the path timer and the
     closed state.
   - the RECVD send state and `quic_stream_send_active`.
3. **`Listener`: done.** Remaining:
   - closing the listener while the accept waits (`-EINVAL`);
   - closing an accepted socket (unhash);
   - reuseport selection;
   - the `copy_sock` move of the inqueue backlog list, which nothing in
     `src/` fills.
4. **Connection IDs: in `ConnLifecycle`.** The NEW_CONNECTION_ID and
   RETIRE_CONNECTION_ID loops, with allocation failure, are modelled there.
5. **`VersionSelect`: done.**
6. **`StreamDelivery`: done, for the data.** Events could be added to the
   abstract spec. The refinement fails for re-cut frames until the
   `inbound_resegment` finding is fixed.
7. **`InboundStream` extensions.** Frame allocation failure in flow control,
   event allocation failure, stream reset, and datagrams.

## 5. Not modelled

- Packet building and parsing, crypto, congestion control and the outqueue:
  that code is not in `src/`.
- Bind, hash and lookup: hash tables and address matching. `Listener`
  abstracts a lookup to whether a socket of the 4-tuple is hashed.
- The socket options not named in `ConnLifecycle` (session ticket, ALPN,
  the local transport parameters, events): they copy data into the socket
  and queue no frame. `QUIC_SOCKOPT_TOKEN` does queue one on a server and
  is modelled (`SetToken`).
- Getters: formatting only.
- Transport parameters other than the peer's `max_streams_bidi` and
  `max_datagram_frame_size`, and the
  local-parameter branch of `quic_sock_set_transport_param`: they set
  limits with no protocol step in `src/`.
- That all timers are cancelled on destroy: `quic_timer_free` leaves the
  PACE hrtimer queued (the held reference keeps the memory alive). It is
  recorded in the hazards and not checked by a run.
- Reconnecting a socket after `quic_shutdown`: `quic_shutdown` does not
  unhash the socket or reset its CID sets; what a second `quic_connect`
  then does depends on `quic_conn_id_set_*` code that is not in `src/`.
  `Connect` is therefore enabled only on a fresh client.
