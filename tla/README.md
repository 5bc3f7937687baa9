# TLA+ models of the zeromq4-x socket core

These modules model the socket-pattern core of this repository
(`src/src/`). They cover:

- the indexed array;
- the `lb` output strategy as DEALER drives it;
- ROUTER over the `fq` input strategy;
- REQ over a DEALER (`fq` + `lb`), in strict and relaxed mode;
- the proxy loop;
- `zmq_poll`'s timeout loop;
- the conflation buffer `dbuffer_t`, shown to refine a one-slot specification;
- REP over ROUTER;
- the kqueue I/O reactor with its retired list.

The models are checked with TLC. `PROJECT.json` lists every component, run,
mutant, finding and hazard, and maps each definition to the source lines it
models.

## The system

| Part | Source | State | Operations |
|---|---|---|---|
| indexed array | `array.hpp` | vector of item pointers; each item caches its own index | `push_back`, `erase(i)`, `erase(item)`, `swap`, `index` |
| `fq` (fair queue) | not in this repository; spec §4.2 | array of pipes, `active` prefix, `current` cursor, `more` | `attach`, `activated`, `pipe_terminated`, `recvpipe`, `has_in` |
| `lb` (load balancer) | `lb.cpp` | array of pipes, `active`, `current`, `more`, `dropping` | `attach`, `activated`, `pipe_terminated`, `sendpipe`, `has_out` |
| pipe | not in this repository; spec §3 | frames, flush point, `out_active`, messages written and acknowledged, reader asleep or awake | `write`, `check_write`, `flush`, `read`, `rollback`, `activate_read`/`activate_write` commands, termination |
| DEALER | `dealer.cpp` | `fq` + `lb`, `probe_router` | attach (probe, `fq.attach`, `lb.attach`), send = `lb`, recv = `fq`, the activation and termination callbacks |
| ROUTER | `router.cpp` | `fq`, anonymous set, `outpipes` map from identity to `{pipe, active}`, `prefetched`, `identity_sent`, `more_in`, prefetched id and message, `current_out`, `more_out`, `next_peer_id`, options | `xattach_pipe`, `identify_peer`, `xread_activated`, `xwrite_activated`, `xpipe_terminated`, `xsend`, `xrecv`, `xhas_in`, `rollback` |
| REQ | `req.cpp` | dealer + `receiving_reply`, `message_begins`, `reply_pipe`, `strict`; `req_session_t` state `{bottom, body}` | `xsend`, `xrecv`, `recv_reply_pipe`, `xpipe_terminated`, `push_msg` |
| REP | `rep.cpp` | router + `sending_reply`, `request_begins` | `xsend`, `xrecv` (copies the traceback, with `rollback` on malformed input) |
| proxy | `proxy.cpp` | poll items, loop state | the poll / request / reply loop |
| `zmq_poll` | `zmq.cpp` | `first_pass`, `now`, `end`, `nevents` | the timeout loop |
| conflation buffer | `dbuffer.hpp` | two slots `front`/`back`, `has_msg`, a mutex | `write` (try_lock), `read`, `check_read` |
| kqueue reactor | `kqueue.cpp`, `i_poll_events.hpp` | poll entries, the retired list, kernel registrations; timers are in `poller_base_t`, which is not in this repository | `add_fd`, `rm_fd`, `set/reset_pollin/pollout`, `loop` |

### How the parts interact

- **Threads.** Each socket runs on one application thread. Peers and I/O
  threads reach the socket only through pipes.
  - A writer's flush wakes a sleeping reader with `activate_read`. The socket
    receives this as `xread_activated`.
  - A reader's acknowledgement reactivates a writer that hit the high-water
    mark with `activate_write`. The socket receives this as `xwrite_activated`.
  - A peer's disconnect arrives as `xpipe_terminated`.
- **Interleavings.** These callbacks interleave with the application's
  `send` and `recv`. The models let every one of them happen at any point
  between two socket calls.
- **DEALER** combines `fq` and `lb`. **REQ** extends DEALER.
- **ROUTER** combines `fq` with its own identity routing. **REP** extends
  ROUTER.
- **Proxy** drives two sockets through `zmq_poll`.

## Modules

- **`IndexedArray`** — `array_t` as operators on a record `[items, idx]`.
  - `idx` is the per-item cached index.
  - `Swap` and `EraseAt` transcribe the code's updates of the cached index.
  - `Consistent(a)` states spec §8.4.
- **`LB`** — `lb_t` driven through `dealer_t`'s callbacks, with the writer
  side of each pipe.
  - The `while (active > 0)` loops of `sendpipe` and `has_out` are the
    RECURSIVE operators `SendLoop` and `HasOutLoop` over a record of the
    fields they rewrite. Each `lb_t` call is therefore one atomic action, as
    it is one call on the socket thread.
  - Actions:
    - `AttachPipe`, `Send` and `SendDropping` (`sendpipe`), `HasOut`;
    - `ActivateWrite` (the acknowledgement and `xwrite_activated`);
    - `TerminatePipe` (`xpipe_terminated`);
    - `PeerRecv` (the peer reads a flushed frame).
  - `Send` keeps the code's EAGAIN behaviour: when every pipe refuses, the
    demotions stay and the frame is not taken.
  - A refusal while `more` is set is `zmq_assert (!more)` (`lb.cpp:117`):
    `Send` then sets `aborted`, and `Next` takes no further step, as the
    process is gone. Under `MC_LB.cfg` this is reachable: the cursor reset
    of `pipe_terminated` (`lb.cpp:61-62`) can put a full pipe under a
    message in progress.
- **`FQ`** — `fq_t` and the reader side of the pipes as state transformers
  on one record. It has no actions of its own: Router embeds it.
  - `fq.cpp` is not in this repository, so FQ is modelled from spec §4.2.
  - On `pipe_terminated`, the cursor follows the pipe that is swapped into
    the freed slot. This is the mid-message affinity of spec §5.
- **`Router`** — `router_t` over `FQ`. Its actions:
  - the socket calls `AttachPipe`, `ReadActivated`, `WriteActivated`,
    `TerminatePipe`, `Recv`, `RecvPrefetched`, `RecvAgain`, `HasIn`,
    `SendIdentity` (the first frame of `xsend`) and `SendBody` (later frames);
  - the environment steps `PeerHello` (the identity frame the peer's session
    delivers), `PeerSend`, `PeerRecv`, `PeerClose` (the peer starts
    terminating the pipe; `check_write` refuses from then on), and
    `AppFrame`/`AppNext` (which frame the application sends next).

  `IdentifyPeer` is the whole of `identify_peer` as an operator, so
  attach and read-activation apply it atomically. `next_peer_id` starts
  anywhere in `AutoIds` (the constructor seeds it at random) and
  `NextPeerId` wraps it on `PeerIdBits` bits. `mandatory` is chosen at
  `Init` from `MandatoryModes`, as `xsetsockopt (ZMQ_ROUTER_MANDATORY)`
  before the pipes attach; it selects the EAGAIN and EHOSTUNREACH returns
  of `SendIdentity`.
- **`Proxy`** — the loop of `zmq::proxy`. `zmq_poll` with timeout -1 is one
  step that returns when a requested event is pending and reports only
  requested events (zmq.cpp 667-672).
- **`Req`** — `req_t` over `dealer_t`: `fq` (module `FQ`) for input, `lb_t`
  for output, and REP-like peers.
  - `lb_t` is restated over pipes whose writes refuse once the peer has
    disconnected (`LbLoop`, `LbSendPipe`, `LbTerminated`). `LbAborts` is the
    condition under which `zmq_assert (!more)` fires.
  - The receive loops are RECURSIVE operators: `Drain` (the loop of `xsend`
    that eats stale input), `RecvReplyPipe`, `SkipRest` (the skip of a
    malformed message) and `SeekBottom` (the `while (message_begins)` loop).
  - `SendOutcome` and `RecvOutcome` are the whole of `xsend` and `xrecv` as
    the values they leave in the variables. `AppSend` and `AppRecv` take
    those steps.
    - `xsend` covers the relaxed terminate of `reply_pipe`
      (`TermReplyPipe`), the bottom frame and its EAGAIN return, the drain
      and the request frame.
    - An outcome with `ok = FALSE` is an assertion that fires, and `assert`
      names it: `zmq_assert (!more)` of `lb_t::sendpipe`,
      `assert (reply_pipe)`, or the `errno_assert` of the skip loop of
      `xrecv`. `AppSend` and `AppRecv` then set `aborted` to that name and
      `Next` takes no further step. None fires under `MC_Req.cfg`.
  - Socket callbacks: `AttachPipe`, `ReadActivated`, and `TerminatePipe` /
    `TermAck` (`xpipe_terminated` after a peer disconnect, or after REQ's
    own `terminate (false)`).
  - Environment: `PeerServe` (a peer reads one request and answers it with
    the bottom frame and `RLen` body frames), `PeerJunk` (a malformed
    two-frame message) and `PeerClose`.
  - The pipe follows spec §3. A disconnected pipe refuses writes, but its
    queued frames stay readable until the delimiter. A pipe REQ has
    terminated refuses reads.
- **`ZmqPoll`** — one `zmq_poll` call over a 0MQ socket item and a raw fd.
  - `Pass` is the top of the loop: it computes the int timeout for poll(2)
    (`ToInt` is the conversion to an `IntBits`-wide int).
  - `Check` is poll(2) returning and the collection of `revents` and
    `nevents`, with the decision to return or go round again.
  - `Tick` advances the clock while the thread is blocked. `Flip` changes
    readiness from the outside.
- **`DBuffer`** — `dbuffer_t` with a writer and a reader thread.
  - The writer's move into `*back` happens outside the lock (`WriteBegin`).
    Its `try_lock`, swap and `has_msg` happen in `WriteEnd`.
  - The reader's `read` is `ReadLock`, `ReadCheck`, `ReadCopy`, and
    `check_read` is `CheckReadLock`, `CheckReadUnlock`.
  - Values are the numbers 1..`MaxWrites` in the order written, so
    "fresher" is `>`.
- **`ConflateSlot`** — the abstract one-slot contract: `Publish` puts a
  fresher value in the slot, and `Take` empties it into the reader's last
  value. `DBuffer` instantiates it with the refinement mapping
  `slot <- IF hasMsg THEN storage[front] ELSE 0`, `got <- lastRead`.
- **`Rep`** — `rep_t` over `router_t`.
  - `router_t` is restated as operators on one record `r`: `RouterRecv`
    (`xrecv` with the prefetch of a message's first frame behind the
    identity), `RouterSend` (`xsend`: the identity frame picks
    `current_out` through `check_write`, later frames go to it or are
    dropped), `RouterRollback`, and `fq_t` from module `FQ`.
  - `TraceLoop` is the RECURSIVE `while (true)` loop of `rep_t::xrecv`. It
    copies frames to the reply pipe up to the bottom frame, rolls back a
    message without one, and stops with `ok = FALSE` on EAGAIN.
  - `RecvOutcome` is the whole of `xrecv` as the values it leaves in
    `r`, `rb` (`request_begins`), `sr` (`sending_reply`) and `body`.
    `RepRecv` takes that step. `RepSend` is `xsend` of a one-frame reply.
  - Socket callbacks: `ReadActivated` and `WriteActivated`.
  - Environment: clients `ClientSend` (bottom and a request),
    `ClientJunk` (two frames without a bottom) and `ClientRead`.
  - The writer side of each pipe follows spec §3, with `rollback`
    discarding unflushed frames. A reader's acknowledgement can lag its
    reads, as `activate_write` does in the code.
  - Pipes are attached and identified at the start, and clients stay
    connected. Attachment, identification and termination are checked in
    `Router`.
- **`Kqueue`** — `kqueue_t` and the kernel's side of `kevent`.
  - The kernel state is the set `kq` of registrations `[fd, filter, udata]`
    keyed by `(fd, filter)` (`KAdd`, `KDel`), and the readiness of each fd.
  - Poll entries live at addresses in `Entries`. `alloc` is what has been
    `new`ed and not yet deleted, so address reuse is modelled.
  - `AddFd`, `RmFd`, `SetPollin`, `ResetPollin`, `SetPollout`,
    `ResetPollout` and `Stop` are the reactor's calls. `HandlerOp` is what a
    handler does inside `in_event`/`out_event`: nothing, or one of those
    calls.
  - `loop()` is `Exit` (the `while` test), `Wait` (`kevent` fills `ev_buf`
    with the pending events, in any order), then per event `Skip` (the
    three retired tests), `EofEvent`, `OutEvent`, `InEvent`, and finally
    `EndIteration` (the retired list is deleted).
  - The history variables `removed` (entries `rm_fd`'d since their
    allocation) and `cb` (the callback just delivered) let properties talk
    about past steps.
- **`ReqSession`** — `req_session_t` between the engine and the pipe
  towards `req_t`.
  - `PushMsg` is `req_session_t::push_msg`'s `{bottom, body}` FSM. It
    returns the new state and whether the frame goes on to
    `session_base_t::push_msg`. The state changes before that push, which
    may still fail.
  - `Push` is the engine pushing its decoded frame. On EAGAIN (the pipe's
    `CheckWrite` refuses) the engine stops input (`stalled`) and retries
    the same frame once `Ack` (`activate_write`) has reactivated the pipe.
    On EFAULT it takes `EngineError`.
  - `EngineError` (also `Disconnect`) drops the connection. It rolls the
    incomplete message out of the pipe and `reset ()` returns the FSM to
    bottom.
  - `Connect` and `Decode` are the wire: a peer is either a REP that sends
    well-formed replies (`ReplyFrames`) or one that sends any frames.
    `ReaderRead` is `req_t` taking a whole message.
  - The engine, `session_base_t` and `pipe_t` are not in this repository
    and follow spec §3, §5 and §6. The pipe's HWM counts whole messages.
- **`MC_LB`, `MC_Router`, `MC_Req`, `MC_Rep`, `MC_Kqueue`, `MC_ZmqPoll`** — model values for pipes,
  identities and poll items.

## Runs

| Run | Cfg | Checks | Result |
|---|---|---|---|
| `lb_safety_liveness` | `MC_LB.cfg` | `TypeOK`, `IndexConsistent`, `ActiveIffWritable`, `SendProgress` | pass |
| `lb_torn_message` | `MC_LB_MessagesWhole.cfg` | `MessagesWhole` | violation |
| `router_safety` | `MC_Router.cfg` | `TypeOK`, `IdentityTable`, `SendStartClean`, `WriteActivationSafe`, `RecvFraming`, `MoreOutTracksCaller` | pass |
| `proxy_forwarding` | `Proxy_MessagesForwarded.cfg` | `MessagesForwarded` | violation |
| `req_strict` | `MC_Req.cfg` | `TypeOK`, `ReplyCorrelated`, `RequestAnswered` | pass |
| `req_peer_close_mid_request` | `MC_Req_MidRequest.cfg` | `NoMidRequestRefusal` | violation |
| `dbuffer_conflation` | `DBuffer.cfg` | `TypeOK`, `SlotsDisjoint`, `ImplementsSlot`, `SwappedValueRead` | pass |
| `zmq_poll_timeouts` | `MC_ZmqPoll.cfg` | `TypeOK`, `ReturnsCorrectly`, `FiniteTimeoutReturns` | pass |
| `kqueue_retired` | `MC_Kqueue.cfg` | `TypeOK`, `NoUseAfterFree`, `KernelMatchesFlags`, `NoCallbackAfterRmFd`, `ReadyServed` | pass |
| `rep_replies` | `MC_Rep.cfg` | `TypeOK`, `RepliesWhole`, `ReplyDelivered` | pass |
| `rep_full_pipe` | `MC_Rep_FullPipe.cfg` | `ReplyDelivered` | violation |
| `req_session_framing` | `ReqSession.cfg` | `TypeOK`, `PipeWellFormed`, `ReplyNeverRefused` | pass |

What the properties say:

- **`IndexConsistent`** (LB) and **`IdentityTable`** (Router) check that
  every pipe a strategy holds is found at its cached index, that the active
  prefix is exactly the writable pipes, and that the routing table, the set
  `fq` reads, and the anonymous set partition the attached pipes.
- **`ActiveIffWritable`** — `lb_t::activated` is never called for a pipe
  already in the prefix.
- **`SendProgress`** — under weak fairness of the application's retries and
  the I/O thread's acknowledgements, every message the application begins
  is eventually taken, unless every pipe has gone or the process has
  aborted on `zmq_assert (!more)`. A blocking send never waits for an
  activation that does not come.
- **`SendStartClean`** and **`WriteActivationSafe`** are the assertions
  `zmq_assert (!current_out)` and `zmq_assert (!it->second.active)` of
  router.cpp.
- **`MoreOutTracksCaller`** (Router) — `more_out` is set exactly while the
  application is in the middle of a message. Under ROUTER_MANDATORY the
  EAGAIN of a full pipe and the EHOSTUNREACH of an unknown identity reset
  it (`router.cpp:172`, `router.cpp:179`). A retry therefore starts again
  with the identity frame instead of being taken as a body frame.
- **`RecvFraming`** — what the application receives is whole messages, each
  preceded by its peer's identity.
- **`ReplyCorrelated`** (Req) — what the application reads is, frame by
  frame, the reply to its latest request. Stale replies, replies on other
  pipes, and malformed messages never reach it. In relaxed mode this depends
  on the `terminate (false)` of the old `reply_pipe` and on the drain.
- **`RequestAnswered`** (Req) — every request is eventually answered in
  full, given up (relaxed mode), or its `reply_pipe` has gone.
- **`SlotsDisjoint`** (DBuffer) — the writer's unlocked move never targets
  the slot the reader is copying.
- **`ImplementsSlot`** (DBuffer) — `DBuffer` refines `ConflateSlot`: the
  reader only ever gets fresher values, and only values that were
  published.
- **`SwappedValueRead`** (DBuffer) — every value swapped into the front
  slot is eventually read, or superseded by a fresher read.
- **`ReturnsCorrectly`** (ZmqPoll) — on return, `nevents` counts the items
  with `revents`. An item reports only what it asked for (or POLLERR on a
  raw fd). A return with no events happens only for timeout 0 or after the
  timeout.
- **`FiniteTimeoutReturns`** (ZmqPoll) — a call with a finite timeout
  returns. It holds only while the timeout fits in the model's `int`:
  `end - now` is assigned to an `int` at `zmq.cpp:638`, so a timeout beyond
  `INT_MAX` becomes negative and poll(2) blocks forever. The run's bounds
  (`IntBits = 8`, timeouts -1, 0 and 3) keep every value in range, so the
  run does not exercise the overflow. Changed to `IntBits = 3` and a
  timeout of 5, the same model fails `FiniteTimeoutReturns`: poll(2) gets
  -3 and blocks. That is a hazard in `PROJECT.json`, not a run.
- **`RepliesWhole`** (Rep) — each client's reply pipe holds whole replies
  (bottom frame, then reply) to that client's own requests, in order. The
  unflushed tail is at most a bottom frame. The traceback of a malformed
  message is rolled back and leaves nothing.
- **`NoUseAfterFree`** (Kqueue) — every entry the kernel can still report,
  every event of `ev_buf` not yet dispatched, and every entry on the
  retired list is allocated. The retired list is exactly the allocated
  entries marked `retired_fd`.
- **`KernelMatchesFlags`** (Kqueue) — the kernel has a filter for an entry
  exactly when the entry's flag is set. `kevent_delete` therefore never
  deletes a missing registration, which its `errno_assert` would catch.
- **`NoCallbackAfterRmFd`** (Kqueue, action property) — no callback goes
  to an entry `rm_fd`'d since it was allocated (spec §4.9). This holds
  even when its events are still in `ev_buf`.
- **`ReadyServed`** (Kqueue) — while the loop runs, an entry with pollin
  set on a readable fd gets `in_event`, unless its flag or the readiness
  goes away first.
- **`PipeWellFormed`** (ReqSession) — what reaches `req_t` is a sequence of
  well-formed replies, whatever the peers send and wherever a connection
  breaks. This comes from the FSM, `reset ()` and the rollback together.
- **`ReplyNeverRefused`** (ReqSession) — a REP peer is never cut off with
  EFAULT. `push_msg` moves the FSM before a push that may fail with
  EAGAIN, and the retried frame must still be accepted in the new state.
  It holds because the pipe's HWM counts whole messages: within a message
  a refusal can only repeat, so a retry meets the same FSM step.
- **`ReplyDelivered`** (Rep) — every request is eventually answered on its
  client's pipe, unless a write to that pipe was refused at the high-water
  mark (`router_t::xsend` drops such a message by design). The ghost
  variable `refused` records those pipes.

The violation runs are findings, described in `PROJECT.json`:

- **`MessagesWhole`.**
  - `lb.cpp:61-62` resets the cursor to 0 when the last active pipe is
    swapped into a terminated pipe's slot.
  - With three pipes, a message in progress on the moved pipe continues on
    another pipe.
  - With two pipes the moved pipe is always at slot 0, which is why the bound
    is three pipes.
- **`NoMidRequestRefusal`** (Req). A peer disconnects between two frames of
  a request.
  - `xpipe_terminated` comes only after the delimiter is read, so `lb_t`
    has not set `dropping`.
  - The next frame's write refuses with `more` set, and
    `zmq_assert (!more)` at `lb.cpp:117` aborts: `AppSend` sets
    `aborted` to `"lb_more"`.
- **`ReplyDelivered`** (Rep, HWM 1). Client A's reply has been read but
  not yet acknowledged, so A's pipe is still full. A then sends a message
  without a bottom frame.
  - `check_write` refuses the traceback's identity, so `current_out` is
    NULL while `more_out` is set.
  - `router_t::rollback` (`router.cpp:310`) resets `more_out` only when
    `current_out` is set. `more_out` therefore stays set.
  - `xsend` takes client B's identity, bottom and reply as the tail of the
    malformed message and drops them. B's pipe has room, and B waits
    forever.
  - Spec §4.7 says REP rolls the malformed traceback back and restarts.
- **`MessagesForwarded`.** The proxy never forwards.

Every property of a passing run has a mutant in `PROJECT.json`. A mutant is
an operator that changes a mapped definition the way a plausible bug would,
and TLC finds the property violated with it.

## Bounds

- **LB.** Three pipes, three messages of two frames, HWM 1.
  - Three pipes is the smallest number at which the cursor reset matters.
  - Two frames make `more` and `dropping` reachable.
  - HWM 1 makes every second message to the same pipe refuse.
  - About 180 000 states.
- **Router, pipes and identities.** Two pipes, one user identity `idA`, two
  automatic identities, and `idB`, which no peer uses.
  - Both peers may claim `idA`, which reaches the duplicate path.
  - A peer may attach before its identity frame arrives, which reaches the
    anonymous path and retried identification.
  - A peer may close, which reaches termination with `current_out` set and
    writes refused mid-message.
- **Router, identities counter.** `PeerIdBits = 1` gives two synthesized
  identities, so `next_peer_id` wraps after two anonymous peers. Its seed
  ranges over both values. A collision of a synthesized identity with a
  live one would need a third anonymous peer while the first is attached.
  The duplicate check of `router.cpp:381-388` covers only identities a
  peer sent, so such a collision would reach `zmq_assert (ok)`. No run
  reaches it.
- **Router, options.** `MandatoryModes = {FALSE, TRUE}`, so the run covers
  sockets with and without ROUTER_MANDATORY. About 2.8 million states,
  in under three minutes.
- **Router, messages.** One two-frame message per peer, two one-frame
  application messages, HWM 1.
  - Two application messages to the same pipe fill it.
- **Req.** Two pipes and two requests. `Modes = {TRUE, FALSE}`, so the
  run covers sockets created strict and relaxed.
  - Two pipes let a request go to one peer while the other sends a malformed
    message, disconnects, or holds a stale reply.
  - Replies of two body frames make a mid-reply state between two
    `xrecv` calls reachable. In relaxed mode they also reach a new request
    sent in the middle of a reply.
  - The mid-request run uses two-frame requests.
- **Kqueue.** Two entry addresses and two fds. Readiness is one of none,
  read, write, or read-write with EOF. `MaxIoEvents` is the code's 256,
  so one `kevent` returns every pending event.
  - Two addresses reach: an entry removed by another entry's callback
    while its event is still in `ev_buf`; the same address reused by
    `add_fd` after the bulk delete; and a new entry on the fd of an entry
    retired in the same iteration.
  - Readiness changes are taken only while the loop is at its top, where
    `kevent` reads them. A change during dispatch is observed no earlier.
  - About 390 000 states. Three addresses exceed five minutes.
- **ReqSession.** HWM 2, two connections, four frames per connection.
  - Four frames hold a whole reply (bottom, two body frames) and the start
    of a second one, so a connection can break mid-message.
  - HWM 2 lets the EAGAIN path happen with a message unread and another
    in progress. At HWM 1 the reader's count is forced equal to the
    writer's, which hides a wrong acknowledgement.
  - A second connection reaches `reset ()` and the rollback followed by a
    new reply. About 5 000 states.
- **DBuffer.** Three writes give a swap, a failed `try_lock` and a swap
  after a read.
- **ZmqPoll.** Timeouts -1, 0 and 3 and three readiness changes reach every
  branch of the loop: a first pass with events, a wake without events, and
  the deadline. An 8-bit int holds every timeout there.
- **Rep.** Two clients, each with at most one malformed message.
  - The passing run has two requests per client and HWM 3, so a reply pipe
    never fills. That is the condition under which the rollback is sound.
    It reaches the rollback with `current_out` set, EAGAIN in the middle of
    a traceback, and two clients' messages interleaved in `fq_t`.
  - The violation run has one request per client and HWM 1: one unread
    reply fills a pipe.
  - About 63 000 states.

## Fairness

Weak fairness is assumed on:

- the application's send and recv (blocking calls retry until they succeed);
- the I/O threads' delivery of `activate_read` and `activate_write`;
- the peers' and clients' reads.

None is assumed on connects, disconnects or what peers send: those are up
to the environment.

In `Req` and `Rep`, the weak fairness of `AppSend`, `AppRecv` and `RepRecv` is written out as
`[]<>~SendEnabled \/ []<><<AppSend>>_vars`.
- `SendEnabled` is `ENABLED <<AppSend>>_vars` by construction: the send is
  allowed, its outcome is not an assertion, and it changes state.
- TLC evaluates this state predicate much faster than `ENABLED` over the
  recursive receive loops.

`DBuffer` assumes weak fairness of each thread's steps and strong fairness
of the reader's `read`. Between reads the reader thread may poll with
`check_read`, which holds the lock while it runs. `read` is then enabled
only between those calls. Strong fairness says that a reader which keeps
coming back to `read` eventually calls it: the consumer of a conflating
pipe reads when `check_read` reports a message.

The proxy thread's loop steps are weakly fair.

`ReqSession` assumes no fairness and checks only invariants. Whether an
engine stopped on EAGAIN is restarted is decided by the engine and
`session_base_t`, which are not in this repository, so a liveness
property there would say nothing about `req.cpp`.

In `Kqueue`, the I/O thread's loop steps are weakly fair. `kevent`
returns while an event is pending. Nothing is assumed about readiness
changes or what handlers do.

`CHECK_DEADLOCK FALSE` is set where the model runs out of pipes to attach or
messages to send. There the system is idle, not hung.

## Not modelled

- **`is_identity` frames.** A reconnected peer sends `is_identity` frames,
  which `xrecv` skips. They are not modelled: the model has no reconnection.
- **`raw_sock`.** It is a constant held FALSE. Its send path is commented
  out in the code.
- **Counter width.** `next_peer_id` is 32 bits wide in the code. The model
  keeps its wrap but narrows it to `PeerIdBits` bits.
- **Duplicate identities.** Spec §3 says a duplicate identity is silently
  dropped, and the code does so. §4.5 says the pipe is retried. The two
  passages disagree, so no run checks either reading.
- **Proxy control socket.** The code never polls it.
- **ROUTER options.** ROUTER_MANDATORY is fixed before the pipes attach.
  Letting `xsetsockopt` change it, or `ProbeRouter`, at any step multiplies
  the state space past what one run can check (19 million states). The
  probe message (`ProbeRouter`, a constant held FALSE) is modelled but not
  checked.
- **Req.** Not modelled:
  - `xhas_in` and `xhas_out`;
  - the high-water mark of REQ's pipes (requests are few).
- **ZmqPoll.** The entry checks and EINTR are not modelled.
- **REP.** Not modelled:
  - `xhas_in` and `xhas_out`, which only gate polling;
  - ROUTER_MANDATORY under REP, where a full reply pipe makes the
    `errno_assert` in the traceback loop (`rep.cpp:64`) abort;
  - client disconnects. A malformed message queued before its client
    disconnects meets a refusing `check_write` as a full pipe does, and so
    leaves `more_out` set in the same way.
- **Kqueue.** Not modelled:
  - the timers of `poller_base_t` (`execute_timers`, `add_timer`) and
    `adjust_load`, which are not in this repository. `kevent` therefore
    waits without a timeout;
  - the EINTR return of `kevent`, which goes back to the loop's top with
    no state changed;
  - `start`, `worker_routine` and `max_fds`, which hold no state.
  - Handlers make at most one reactor call per callback. A handler's
    further calls happen in its later callbacks.
- **ReqSession.** The engine's decoder and the bytes on the wire are
  abstracted to frames of size 0 or 1 with exact flags.
- **Public API wrappers (`zmq.cpp`).** `zmq_send`, `zmq_recv`, `zmq_sendiov`,
  `zmq_recviov` and the `zmq_msg_*` calls hold no state of their own. Their
  hazards are listed in `PROJECT.json` without a property: the size cast to
  `int` (`zmq.cpp:266`), `zmq_sendiov` leaving a message half sent
  (`zmq.cpp:359`), and `zmq_recviov` losing a frame on ENOMEM
  (`zmq.cpp:468`).
