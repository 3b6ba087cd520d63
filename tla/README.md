# TLA+ models of the RTSP server

TLA+ models of the RTSP/RTP live-streaming server under `src/src/net/`, and
the TLC configurations that check them.  Each module is translated from the
C++ source.  `PROJECT.json` has a `map` that names the lines each definition
stands for.

## The system

| Part | Source | State | Operations |
|---|---|---|---|
| RTSP request engine | `RtspConnect.cpp` | parsed URL/CSeq/transport/channel, `session_id_`, `conn_state_`, `rtp_conn_`, outbound queue | `AsyncRead`, `ParseRequest` (+ line/header/CSeq/Transport/Accept/channel/Session), `HandleOptions/Describe/Setup/Play`, `Send`, `HandleWrite` |
| RTP transport | `RtpConnection.cpp` | per channel: `is_setup`, `is_play`, `packet_seq` (uint16); `transport_mode_`, `has_key_frame_`, `is_closed_` | `SetupRtpOverUdp/Tcp`, `Play`, `TearDown`, `SendRtpPacket`, `SetFrameType`, `SetRtpHeader`, `SendRtpOverTcp/Udp`, RTCP read loop |
| Packetizer | `H264Source.cpp` | none (pure) | `HandleFrame`: single NAL packet or FU-A fragments |
| Media session | `MediaSession.cpp` | `clients_` (weak refs), `sdp_`, sources, `client_mutex_` | `AddSource` fan-out callback, `HandleFrame`, `GetSdpMessage`, `AddClient`, `RemoveClient` (never called) |
| Server registry | `RtspServer.cpp` | `media_sessions_`, `rtsp_suffix_map_`, `connections_` (never shrinks), `mtx_` | `Start`, `AddSession`, `RemoveSession`, `PushFrame`, `LookMediaSession` |
| Logic queue | `LogicSystem.cpp` | `msg_que_`, `mtx_`, `consume_`, `b_stop` | `PushMsg`, `DealMsg`, `~LogicSystem`, `HandleRequest`, `HandleSendPacket` |
| I/O pool | `IOServicePool.cpp` | services, `next_index_` | `GetService` (round robin) |

Threads:
- I/O workers read requests and push them to the logic queue (`AsyncRead`), and run UDP send completions.
- The single logic thread runs every request handler, and every interleaved RTP write, with `LogicSystem::mtx_` held.
- The frame producer thread calls `PushFrame`, which runs the fan-out under `client_mutex_`.
- For TCP clients, the fan-out calls back into the logic queue (`PushMsg`).
- The logic thread's DESCRIBE handler calls `AddClient`, which takes `client_mutex_`.

These two lock orders are the central concurrency hazard.

## Modules

- **`H264Packetizer`**: `H264Source::HandleFrame` as a `RECURSIVE` operator `Fragments`.
  - The only action, `PushFrame`, hands in any NAL unit of up to `MaxNalSize` bytes.
  - It is checked against a reference RFC 6184 depacketizer (`Depacketize`) and the spec's count formula.
- **`LogicSystem`**: the logic queue with its condition variable.
  - `wait(lk, pred)` is the loop `while(!pred()) wait(lk)`, so it is split into `Check` (predicate under the lock) and `Block` (release and wait).
  - `Wake` and `SpuriousWakeup` model returning from the wait.
  - `PushMsg` notifies only on the empty to non-empty transition (`PushNotify`).
  - The destructor is `SetStop` (no lock), `StopNotify` and `Join`.
  - The history variables `pushed` and `handled` state what was delivered.
- **`RtspConnection`** (instantiated by `MC_RtspConnection`): the request engine as the logic thread runs it, one request per step.
  - A request is abstracted to what the keyword-search parser can find: method, whether the URL parses, URL (suffix, track), CSeq present, and the one header form that matters.
  - `AsyncRead` treats every `async_read_some` chunk as one request. The head of a request that TCP delivered in two reads (method `"fragment"`) has no `"\r\n"`: `ParseRequest` returns false before parsing anything (`HasLine`), and the request is dropped.
  - `ParseEffects` keeps what parsing leaves behind even when it fails (stale URL, cached CSeq, `transport_` and `channelid_`).
  - The handlers reach the registry (`SessionBySuffix`, `SessionById`, `RemoveSession`), the session (`AddClient`, `GetSdpMessage`/`BuildSdp`) and the RtpConnect (`NewRtp`, `SetupChannel`, `Play`).
  - A crash (null dereference, uncaught exception) sets `crashed` and stops the model.
- **`MediaFanout`** (instantiated by `MC_MediaFanout`): the composition of the producer's fan-out, the RtpConnect send path, the logic thread's callbacks and the two locks.
  - Producer steps: `Snapshot` takes `client_mutex_` and reverses the list (`emplace_front`). `SendRtpPacket` is two steps, because it reads `is_play` twice without a lock: `VisitStamp` is `SetFrameType` and `SetRtpHeader` (stamp the next sequence number only if armed; `cur` is the packet copy), then one action per outcome of the second read (`VisitUnarmed`, `VisitUdp`, `VisitTcp`). `VisitClosed` is the `is_closed_` return. `PushPacket` is PushMsg, which needs `mtx_`; `EndRound` releases `client_mutex_`.
  - Logic steps: `LogicDescribe` holds `mtx_` into `LogicAddClient`, which needs `client_mutex_`. `LogicPlay` arms the channel and then `LogicPlayRespond` sends the response. `LogicSetup`. `LogicSendPacket`.
  - I/O steps: `ClientRequest` (per-client scripts), `Disconnect` (the client closes its socket; `AsyncRead`'s error branch only returns), `UdpComplete` (a failed send tears down).
  - `LogicTeardown`: TEARDOWN parses as `Method::NONE`, `ParseHeaderLine` rejects it, and the logic thread drops the request.
  - A UDP datagram records whether `async_send_to` sent it at once. A deferred one is sent intact only while the fan-out round that made its copy is still running (`LiveCopy`); afterwards the `packets` map holding the copy is freed.
  - History variables: `cancelAt` records how many packets had been stamped for a client when TEARDOWN, a read error or a write error should have closed it (spec 5).
  - The RTSP socket's write path: every response and every interleaved RTP packet goes through `Send` (`RtspConnect::Send`, under `send_mtx_`).
    - `Send` queues a copy. If nothing was queued, it starts `async_write` on the caller's buffer; the initiating call may write everything at once (`SpecWrites`, asio's speculative write).
    - `WriteRest` is an I/O thread writing the remaining bytes. If they are in the caller's buffer, which is dead by then, they may be garbage (`torn`). A write may fail (`WriteOutcomes`), after which the queue is stuck.
    - `HandleWrite` pops the written node and starts the next write from the queued copy.
- **`IOServicePool`**: `GetService` as three steps per caller (read the index, `++`, compare and reset), so that the unsynchronized calls of the acceptor and of the logic thread interleave.
  - The data race is undefined behaviour. The model takes the compiled outcomes: the `++` works either on the value already loaded or on a fresh load.
  - The condition-variable detail is left to `LogicSystem`, whose `Delivery` property justifies treating the logic thread as running whenever the queue is non-empty and `mtx_` is free.

## Runs

| Run | Expect | What it shows |
|---|---|---|
| `packetizer` | pass | Every NAL of 1..8 bytes (two header values, two body byte values) with MAX=4 round-trips (`RoundTrip`). FU-A start/end/marker bits are on exactly the first/last packet (`FuFraming`). Count is `ceil((S-1)/(MAX-2))` with full non-final fragments (`FragmentSizing`). MAX=4 gives 1 to 4 fragments and the exact-fit case. |
| `logic_queue` | pass | Two producers × two pushes against the worker and the destructor. Notifying only on the empty to non-empty transition never strands a message: every message pushed before shutdown is eventually handled, in order (`Delivery`, under weak fairness of the worker only). |
| `logic_shutdown` | violation | `ShutdownCompletes`: the destructor's notify falls between `Check` and `Block`, so the worker waits forever and `join()` hangs. |
| `rtsp` | pass | Two connections × three requests from a set covering every handler and branch (unknown suffix, bind failure, SETUP before DESCRIBE, PLAY before DESCRIBE, a stale-URL request, RTCP, a split request's head, RemoveSession). `TypeOK` and `ArmedClientRegistered` hold: a connection with an armed channel set it up and is in the client list of the session its `session_id_` names, whatever the order of DESCRIBE, SETUP, PLAY and RemoveSession. |
| `rtsp_crash` | violation | `ServerSurvives`: DESCRIBE of an unregistered suffix crashes instead of answering 404 (the trace TLC prints). A failed bind in SETUP over UDP throws past the `error_code` catch clauses: the same cfg with `Requests <- ReqsUdpSetup` shows it. |
| `fanout_tcp` | pass | One player that sends SETUP and PLAY too early, plays over TCP, switches to UDP with a second SETUP and sends TEARDOWN. One frame of two packets, with the sequence starting at 65535. Datagrams, writes and the peer may fail. `TypeOK` holds across the 16-bit wrap. `PlayResponseFirst`: the PLAY response precedes every interleaved RTP packet, even though `Play()` arms before the response is sent. `WireInOrder`: the socket carries the `Send` calls in order, each once. `TcpDelivered` (liveness): every packet pushed to the logic queue reaches the socket unless a write on it failed. |
| `fanout_unstamped` | violation | `RtpStamped`: one TCP player and a one-packet frame. TLC's trace: the producer's `SetRtpHeader` sees the channel unarmed and leaves the header unwritten. The logic thread handles PLAY. The send decision then sees the channel armed, and the packet is queued behind the PLAY response and written without a sequence number. |
| `fanout_deadlock` | violation | `FanoutCompletes`: two TCP players; the second DESCRIBE deadlocks against the fan-out to the first. |
| `fanout_skips_client` | violation | `PacketsContiguous`: a newly described client, visited first, ends the round with `ret == 0`, and a playing client misses packets. |
| `fanout_dangling_buffer` | violation | `SentIntact`: one UDP player. TLC's trace: the DESCRIBE response's first `async_write` is left unfinished by the initiating call, and an I/O thread finishes it from the handler's dead stack buffer. The same model also reaches a deferred RTP datagram sent after the fan-out callback freed its copy. |
| `fanout_cancel` | violation | `CancelStopsMedia`: one TCP player that sends TEARDOWN, may close its socket and may meet a write error. None of the three closes the connection. TLC's trace: the client pipelines DESCRIBE, SETUP and PLAY, then disconnects, and the queued PLAY still starts media. |
| `pool_index` | violation | `IndexInRange`: after three calls, `GetService` returns `services_[2]` of a pool of two. A racing store can also leave `next_index_` above `size()`, where it is never reset. |

Every property of a passing run has a mutant in `PROJECT.json` (a plausible code bug as an operator defined just before the definition it replaces), and TLC finds each one violated.

**Bounds.** The interesting cases need:
- two actors on the same lock or list, so two connections or two producers;
- the 16-bit wrap, so a start value of 65535;
- a frame of more than one packet, so two packets per frame (one frame in `fanout_tcp`: the UDP failure and teardown between the two packets, and `VisitClosed` after it, happen inside that frame);
- a write left unfinished by its initiating call, so `SpecWrites = {TRUE, FALSE}` in the runs about write buffers (`fanout_dangling_buffer`, `fanout_cancel`). In `fanout_tcp` it is `{TRUE}`: the deferred path only delays a write that is already queued in order, and it multiplies that run by more than ten. Writes from a queued copy (`WriteRest` after `HandleWrite`) still happen there;
- a client that closes its socket: `Closes = {FALSE, TRUE}` in the single-client runs. It is `{FALSE}` in the two-client runs, where it would multiply the state space without adding a case the properties tell apart;
- a pool index past the end, so more calls than services (two services, four calls);
- every fragment count, so MAX=4 with NAL units up to 8 bytes.

Each passing run takes under about a minute (`fanout_tcp` has about 42,000 states and `rtsp` about 350,000).

**Fairness.**
- Weak fairness is assumed for the logic thread and the producer, which always run when the lock they wait for is free.
- It is also assumed for I/O completions (`UdpComplete`, `WriteRest`, `HandleWrite`), which asio eventually delivers.
- Clients (their requests and their disconnects), the start of shutdown and spurious wakeups get no fairness: the code cannot rely on them.

## Not modelled

- Frame boundaries for a client that starts playing between two fragments of a frame. The spec states nothing about them, so there is no property (the same hazard as the unstamped packet).
- PLAY before DESCRIBE getting no answer, and a second DESCRIBE registering the client in two sessions. Both are listed as hazards without a run, because neither request order is what a player sends.
- In `MediaFanout`, the process-ending throws of `HandleSetup` (a failed UDP bind) and `HandleDescribe` (`remote_endpoint()` on a reset socket). `RtspConnection` models the bind failure as a crash; the `remote_endpoint` throw is not modelled.
- RTCP reads (a no-op by design).
- Channel 1 in `MediaFanout` (a second SETUP switching the transport of channel 0 is modelled).
- `GetRtpSessionId`: each client has its own id in the model.
- CSeq values (only present/absent).
- Response text, SDP text (lines are abstracted to their kinds), timestamps, SSRC.
- The logger, `main`/`H264File` and `RingBuffer` (out of scope per the spec). `AsyncLog.hpp` is not included anywhere; logging goes through the synchronous `pjie::Logger`.
- Object lifetime and process exit: the second owner `AddSession` creates for the singleton `MediaSession`, and the detached frame thread running on while static destructors free the singletons. Both are listed as hazards.
- The bytes of a request: a read chunk is one abstract request. A tail of heap garbage after the bytes received (the receive buffer is never zeroed) and two requests coalesced in one read are listed as hazards.

## Plan for later work

1. Two channels in `MediaFanout` (`transport_mode_` is per connection).
2. The accept loop (`RtspServer::Start`) as a caller of `GetService`, with `connections_` growth.
