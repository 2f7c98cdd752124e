# Formal models of the Windows TCP/TLS transport

This directory holds TLA+ models of `src/source/server/win/server_transport_tcp.c`.
That file is the transport that carries meterpreter's TLV packets over a TLS stream
on a TCP socket. It holds TLC configurations that check the models on small
instances, and TLAPS proofs of the codec's type correctness, of its stream framing and of
the timing of the connect retry loop. An abstract specification of the stream the
controller reads (`FrameChannel`) is shown, by TLC, to be implemented by the codec.
`PROJECT.json` lists the components, runs, mutants, findings and hazards, and
maps every definition to the source lines it models.

## The system

| Part | Code | What it does |
|---|---|---|
| Transport object | `transport_create_tcp` 1255-1282, `transport_reset_tcp` 853-864, `transport_destroy_tcp` 838-847 | Allocates a zeroed context (`ctx->fd`, `bound`, `sock_desc`) and a table of function pointers: init, deinit, reset, dispatch, transmit. |
| Connection establisher | `configure_tcp_connection` 1004-1114, `reverse_tcp_run` 31-59, `reverse_tcp4` 70-98, `reverse_tcp6` 111-172, `bind_tcp_run` 184-214, `bind_tcp` 224-281 | Picks a branch from the URL, then does one of three things: connects out with retries until `retry_total` or the session expiry; accepts one connection; or records the stager's socket and later reconnects the same way. It then flushes the socket and starts TLS. |
| Inheritance prober | `infer_staged_connection_type` 872-996 | Scans the 16 handles below the stager's socket for a listener of the same family and port. Finding one means the stager was a bind stager: the prober records the listener's address and closes it. Otherwise it records the peer's address. |
| Socket flusher | `server_socket_flush` 361-400 | Before TLS, under `remote->lock`, waits up to one second for the socket to become readable and reads up to 4 KiB, until a wait times out or `recv` returns 0. |
| TLS session | `server_initialize_ssl`, `server_negotiate_ssl`, `server_destroy_ssl` 435-583, lock callbacks 292-356 | OpenSSL set-up and tear-down. |
| Packet codec | `packet_transmit_via_ssl` 1126-1246, `packet_receive_via_ssl` 585-740 | Frames a packet as an 8-byte header (length, type) followed by the payload. The payload is encrypted if a cipher is set, unless the type is PLAIN_REQUEST or PLAIN_RESPONSE. All of this runs under the session lock `remote->lock`. |
| Dispatch loop | `server_dispatch_tcp` 748-817, `server_socket_poll` 408-428 | Polls, receives and hands each packet to `command_handle`. Commands answer inline or on worker threads, which call transmit concurrently. The loop exits on sigterm, the comms timeout or the session expiry, then joins the command threads. |

How the parts interact:

1. The driver (`server_setup.c`, not in this file) calls init, which is `configure_tcp_connection`. Init runs the establisher, and also the prober on the first call of a staged transport.
2. The driver then calls dispatch. Dispatch uses the codec, and so do the worker threads the command handler starts.
3. When the session ends, the driver calls deinit (`server_destroy_ssl`) and reset, and then init again.

## Modules

| Module | Models | State | Actions |
|---|---|---|---|
| `PacketCodec` | the codec | `lock` (the owner of `remote->lock`); `conn` (up/closed/reset); `tx[t]`, the locals of each thread's transmit (`idx` and `res` are DWORDs, mod `DWORD_MOD`); `wire` (the chunks each successful `SSL_write` put on the stream); `peerSent`/`rcvd`/`delivered` (the inbound stream) | `TransmitBegin` (lock, request id, encrypt, lines 1134-1188); one `TransmitHeader`/`TransmitPayload` per loop iteration (1189-1228); `TransmitFinish` (1230-1246); `PacketReceive` (585-740, one step under the lock); the peer's `PeerSend`/`PeerClose` |
| `DispatchLoop` | `server_dispatch_tcp`, extending the codec | `dpc`, `running`, `lastPacket`, `now`, `sigterm` | one action per block of the loop (759-817); `DispatchHandle` answers inline, on a worker, or not at all; `WorkerFinish`; the environment's `Signal` and `Tick` |
| `InheritanceProber` | `infer_staged_connection_type` | the staged socket; `cands`, the 16-handle window (each a non-socket, a socket, or a listener with a family and a port); `fd`, `bound`, `desc`, `closed` | `InferStagedConnectionType`, whose scan is `FirstListener`, built on `SameListener` (909-967) |
| `Establisher` | the establisher, reset, create/destroy | `sock` (the process's socket table: who opened each handle, and its state); `otherHeld` (what other components believe they hold); the context `fd`, `captured`, `bound`; the routine's socket `lsock`; `start`, `now`, `pc`; `retryStart`, the clock reading of the last connect (line 37) | `ConfigureReverse4`, `ConfigureBind4`, `ReconnectBind`, `ReconnectReverse`, `InferStaged` (the branches of 1017-1086); `RevConnect`, `RevExpiry`, `RevSleep` (which sleeps `SleepSecs(RetryWait)`: the DWORD product `retryWait * 1000` in milliseconds), `RevLoop`, `RevDone` (the statements of `reverse_tcp_run`); `BindRun`; `Tls` (1093-1114); `TransportReset`; the environment's `OtherOpen`/`OtherClose`/`ControllerFlip`/`Tick` |
| `SocketFlusher` | `server_socket_flush` | `fpc`; `lockHeld`; `buffered` (bytes in the socket); `conn`; `ret`, the DWORD that holds `recv`'s result; `sends` | `FlushEnter` (368); `FlushSelect` (372-386, and the lock release at 399 on timeout); `FlushRecv` (388-397, and 399 when `ret == 0`); the controller's `PeerSend`, `PeerClose` |
| `FrameChannel` | what the agent-to-controller stream promises (spec sections 4.6 and 5) | `frames`, the whole frames the controller can read; `chan` (up/closed/reset) | `Deliver(id, n)` (a frame of a packet not sent before), `Break` |
| `CodecChannel` | the refinement mapping from `PacketCodec` to `FrameChannel` | | |
| `PacketCodecProofs` | TLAPS proofs about `PacketCodec` | | |
| `EstablisherProofs` | TLAPS proofs about the retry loop and the socket count of `Establisher` | | |
| `CodecDeliveryProofs` | TLAPS proof that `PacketCodec` delivers what the controller sent | | |
| `DispatchProofs` | TLAPS proofs about `DispatchLoop` | | |
| `ProberProofs` | TLAPS proofs about `InheritanceProber` | | |
| `FlusherProofs` | TLAPS proof about `SocketFlusher` | | |

`MC_PacketCodec` (which extends `CodecChannel`), `MC_DispatchLoop`, `MC_Establisher` and `MC_SocketFlusher` give the model values and the small sets.

### Refinement

`FrameChannel` is the controller's view of the agent's stream: a sequence of whole frames
`[id, len]`. A frame is appended only for a packet that has no frame yet, with a
length a packet can have, and only while the connection is not reset. Frames already
there never change. `CodecChannel` maps the codec onto it:

- `frames` is `Frames(wire)`: the stream cut at every chunk that ends a frame (a payload, or a header announcing no payload), each frame with its packet and the payload length its header announces. A header still waiting for its payload is not a frame yet.
- `chan` is `conn` while the stream can be parsed by its length prefixes (`Framed(wire)`), and otherwise `"garbled"`, a value `FrameChannel` never takes. So a step that garbles the stream is not a step of the abstract spec.

The run `codec_refines` checks `ChannelRefined == Channel!ChannelSpec` as a property
of `CodecSpec`: every codec step is a `Deliver`, a `Break` or a stutter of the channel.

### Abstractions

- **Data.**
  - A packet is its type and its payload length.
  - A chunk on the stream is `[id, part, len]`.
  - A received frame's body is its index, so that skipped, reordered or garbled frames can be told apart. A wrongly decrypted body is `Garbage`.
  - Addresses are records of a host tag, a family and a port.
- **`SSL_write`** returns the full count or a failure value; it never returns a partial count. Line 526 sets only `SSL_MODE_AUTO_RETRY`, not `SSL_MODE_ENABLE_PARTIAL_WRITE`. A failure leaves the connection reset, so later writes fail too.
- **DWORD arithmetic** is `% DWORD_MOD`. The MC modules use 2^16 in place of 2^32 because TLC's integers are 32-bit. All lengths stay far below either value, so the wrap-around behaves the same way.
- **Undefined behaviour.**
  - `transport_reset_tcp` reads `ctx->fd` of uninitialised heap memory. It is a choice over `ResetGarbage`, a subset of `{0} ∪ Handles`.
  - `socket()` results are unchecked. A result of `INVALID_SOCKET` is handle 0, and closing it or connecting on it fails.
- **The driver and other components** are modelled from the spec: session → deinit → reset → init, `MaxSessions` times. Other components of the process open and close sockets in the same handle table, and a closed handle value is reused.

## Runs

### Passing runs

| Run | What it checks | Size |
|---|---|---|
| `codec_concurrent` | Two threads transmit; any thread receives; the peer may close or reset; a cipher is established and the controller encrypts. `CodecTypeOK`. `WireFramed`: the stream can be parsed by its length prefixes, so no payload is separated from its header and every header announces its payload's length. `DeliveredAsSent`: received frames are delivered in order and intact. `LockReleasedAtBoundary` (an action property): a step that releases `remote->lock` on a connection that is not reset leaves the stream at a frame boundary. | ≈1.0M distinct states |
| `dispatch` | The dispatch thread and one worker. `QuiescentOnReturn`: when `server_dispatch_tcp` returns, no transmit is in flight and the lock is free. The caller frees the SSL object next. `DispatchTerminates`: the loop always returns. | ≈260k distinct states |
| `probe_v4` | An IPv4 staged socket with every consistent 3-handle window of IPv4/IPv6 sockets and listeners. `InferAsSpecified`: `bound` and the recorded address follow spec section 4.3. `ClosesOnlyLeakedListener`: only the stager's listener is closed. | 800 distinct states |
| `establish` | All three URL kinds; three init/reset rounds; three handles shared with other components; any reset garbage; a clock that runs past the expiry. `LeakPerReset`: the transport leaks at most one socket per reset, so every routine releases what it opens on every path. The one socket per reset is a real leak: reset works on its fresh context, never closes `transport->ctx->fd`, and the reconnect overwrites it (857), where spec section 8 has the handle closed and 0 after reset. `AtMostOneLateConnect`: a connect attempted at or after `expiration_end` comes right after one made before it, or is the first of its run. The expiry is tested only after a failed connect, so one late attempt is possible, but never two. `RetryWaitHonoured`: two connect attempts of one run are at least `retry_wait` seconds apart. | ≈632k distinct states |
| `codec_refines` | The `codec_concurrent` instance. `ChannelRefined`: the codec implements `FrameChannel` under the mapping above. | ≈1.0M distinct states |
| `flush` | The stager left 0, 3 or 6 bytes (reads of at most 4 model bytes); the controller sends up to two more chunks, closes, resets, or does nothing. `FlusherTypeOK`, which includes that `ret` is a DWORD. `FlushReturnsUnlessReset`: the flush returns and releases `remote->lock`, unless the connection is reset. A quiet controller ends it by the timeout, and a closing one by `recv` returning 0. | 525 distinct states |

### Violation runs

Each violation run checks one property that the code breaks.

| Run | Finding |
|---|---|
| `codec_false_success` | `TransmitSuccessMeansSent`. `res` is a DWORD, so `SSL_write`'s -1 is never `< 0`: `idx` wraps and the transmit returns `ERROR_SUCCESS` with the frame unsent (line 1130). |
| `write_zero_spin` | `DispatchTerminates`. With `SSL_write` returning 0 on a closed connection, the payload loop (1213-1228) never advances and spins holding the lock. |
| `plain_under_cipher` | `DeliveredAsSent`. The decrypt decision (694) reads the zeroed packet's type, so a plaintext frame is decrypted under a cipher. |
| `probe_v6` | `InferAsSpecified`. The IPv6 branch matches on different ports (959). |
| `reset_closes_foreign` | `SessionSocketLive`. Reset mallocs a fresh context (857) and closes the uninitialised `fd` it holds (858). When that is another component's handle, `accept` reuses that value for the next session, and the other component's close kills the session. |
| `flush_reset_spins` | `FlushReturns`. On a reset connection `select` reports the socket readable at once and `recv` returns `SOCKET_ERROR`. Stored in the DWORD `ret`, that is `0xFFFFFFFF`, not 0 (392). So the flush loops forever while holding `remote->lock`, and `configure_tcp_connection` never returns. |

### Bounds

- **Codec.** Two threads, three packets and two inbound frames are enough for every interleaving of two frames' header and payload writes. Payload lengths {0, 3, 5} include the empty payload and a length changed by encryption.
- **Dispatch.** `Comms = 1`, `ExpirationEnd = 3` and `MaxTime = 4` let both the comms timeout and the expiry fire.
- **Establisher.**
  - `RetryTotal = 2`, `RetryWait = 1`, `ExpirationEnd = 3` and `MaxTime = 4` give runs that stop on the retry budget and runs that stop on the expiry. Because `Tick` moves the clock between any two steps, a sleep can cross the expiry and the late attempt happens. A sleep that would pass `MaxTime` is not taken, so the clock bound never shortens a sleep.
  - Three handles are enough for a stale handle, a reused handle and a leaked one to coexist.
  - Three rounds cover a staged transport's first call and both kinds of reconnect.
- **Flusher.** Starting with 6 bytes and reading at most 4 takes two reads. Two controller sends let data arrive between a read and the next `select`. Close and reset can each happen at any point.
- **Coverage.** Every action and every disjunct of each next-state relation fires in the passing runs (checked with `tlc -coverage`).

### Fairness

`DispatchLoop.Spec` has weak fairness on the dispatch thread, on each worker and on the clock. These are OS threads that keep running while they can, and real time advances. The controller, the termination signal and the other components get no fairness. `SocketFlusher.Spec` has weak fairness on the flusher's steps: the thread running `configure_tcp_connection` keeps running, and the one-second `select` always returns. The controller gets no fairness, so it may stay silent forever. `Establisher` and `InheritanceProber` check safety only and assume no fairness.

## Mutants

Each property of a passing run has a mutant in `PROJECT.json`. The mutant is a plausible bug in the mapped code, and TLC finds the property violated when the mutant replaces the definition:

| Mutant | Breaks |
|---|---|
| `ToLong` for `ToDword` (a signed `res`) | `CodecTypeOK` |
| `TransmitBeginUnlocked` (no `lock_acquire`) | `WireFramed` |
| `DecryptingNever` | `DeliveredAsSent` |
| `TransmitFinishNoCheck` (returns without testing that the whole payload was written) | `LockReleasedAtBoundary` |
| `DispatchExitNoJoin` | `QuiescentOnReturn` |
| `TimedOutCommsOnly` | `DispatchTerminates` |
| `SameListenerPortDiffers` | `InferAsSpecified` |
| `InferStagedConnectionTypeCloseAlways` | `ClosesOnlyLeakedListener` |
| `RevDoneKeepOnFailure` | `LeakPerReset` |
| `RevExpiryNever` (no expiry test) | `AtMostOneLateConnect` |
| `RevSleepMillis` (`Sleep(retryWait)`, without `* 1000`) | `RetryWaitHonoured` |
| `PayloadWriteNoAdvance` (the payload loop does not add `res` to `idx`) | `ChannelRefined` |
| `FlushRecvSignedRet` (an `int ret`) | `FlusherTypeOK` |
| `FlushRecvNoEof` (no `ret == 0` exit) | `FlushReturnsUnlessReset` |

## Proofs

`PacketCodecProofs` proves `CodecTypeCorrect`, i.e. `CodecSpec => []CodecTypeOK`, for every value of the constants that satisfies `CodecAssumption`. The proof is an induction with one step per action of `CodecNext`. Its lemmas are:

- `DwordPositive`;
- `ToDwordRange`: `r % DWORD_MOD` is a DWORD for every integer;
- `WriteOutcomesInt`;
- `TxFieldUpdate`: a single-field update of a thread's locals stays in `TxState`.

The interesting content is that `idx` and `res` stay DWORDs through the wrapping additions of the header and payload loops.

`PacketCodecProofs` also proves `CodecWireFramed`, i.e. `CodecSpec => []WireFramed`, under the same assumptions. This is the property the `codec_concurrent` run checks. It says the controller can split the agent's stream into frames by their length prefixes, however the transmitting threads interleave and wherever the connection fails.

`WireFramed` is not inductive on its own. A step that appends a header needs to know the stream ends at a frame boundary, and a step that appends a payload needs to know the last chunk is its own header. The strengthening `IInv` adds:

- `LockHeldByWriter`: a thread is in its header or payload loop exactly when it holds `remote->lock`.
- `WriterPacket`: a thread between taking a packet and leaving the payload loop has a payload length in `PayloadLens`, a header length of `HEADER_SIZE` plus that, and `idx = 0` in the header loop.
- `AtBoundary`: while the connection is not reset and nobody is past its header, the stream ends at a frame boundary.
- `PayloadPending`: while the connection is not reset, a thread in the payload loop either has written nothing of its payload and its header is the last chunk, or has written all of it and the frame is closed.

Two facts of the code carry the argument.

- `SSL_MODE_ENABLE_PARTIAL_WRITE` is not set, so a write is either complete or a failure that resets the connection.
- A failed header write's `2^32-1`, stored in the DWORD `res`, leaves the header loop with `idx` past the header size (lemma step `FramingHeader`).

After a reset nothing more is appended, so the obligations lapse.

The proof has one lemma per action:

- `FramingCall`, `FramingBegin`, `FramingHeader`, `FramingPayload`, `FramingFinish` and `FramingReturn`;
- `FramingFrame`, for the receive and peer steps that leave the lock, the connection, the locals and the stream alone;
- `FramingPeerClose`.

They rest on three lemmas about appending to the stream: `FramedAppendHdr`, `ClosedAppendHdr` and `FramedAppendPay`. `IInv` was also checked with TLC on the `codec_concurrent` instance (1,013,892 states) before it was proved.

`EstablisherProofs` proves two theorems about `reverse_tcp_run`, and one about the sockets of all three routines, for every value of the constants that satisfies `EstablisherAssumption`:

- `LateConnectBounded`: `Spec => []AtMostOneLateConnect`.
- `RetryWaitCorrect`: under the extra assumption `RetryWait * 1000 < DWORD_MOD`, `Spec => []RetryWaitHonoured`. The assumption is needed. `Sleep(retryWait * 1000)` (line 50) multiplies in DWORD arithmetic, so with 32 bits a `retry_wait` of 4,294,968 s or more sleeps `(retryWait * 1000) mod 2^32` ms. With `RetryWait = 66` and the 16-bit DWORD of the MC module, TLC finds `RetryWaitHonoured` violated: the loop sleeps 464 ms and retries in the same second.

Both rest on the inductive invariant `RetryInv`, proved as `RetryInvariant`. It says:

- between a failed connect and the expiry test, `retryStart <= now`;
- in the sleep, the last attempt was also made before `expiration_end`, because the loop sleeps only when the test found the session unexpired;
- from the end of the sleep to the next connect, at least `SleepSecs(RetryWait)` seconds separate the last attempt from `now`.

The clock only moves forward (`SleepSecsNat`). The lemma `SleepSecsExact` gives `SleepSecs(RetryWait) = RetryWait` when there is no wrap. The induction has one step per action of `Next`. The steps that touch neither the clock nor the loop go through the lemma `Unrelated`. `RetryInv` was checked with TLC on the `establish` instance, and with `RetryWait = 66` (where it holds although `RetryWaitHonoured` fails), before it was proved.

`LeakBounded` proves `Spec => []LeakPerReset` for every finite `Handles` (the hypothesis `IsFiniteSet(Handles)` gives `Leaked` a cardinality). `LeakPerReset` is not inductive: a round may leak its old `ctx->fd` and hold a new socket at once. The strengthening `LeakInv` (`LeakInvariant`) counts, besides `Leaked`:

- `Pending`: 1 when the socket that is `ctx->fd`, or in the connect loop will become it (`lsock`), is still the transport's. A listener that a staged bind reopened on `ctx->fd`'s own stale handle value is not counted, since `bind_tcp_run` closes it on every path.
- `RoundCredit`: 0 while the thread is at `configure` or in `bind_tcp_run`, before the round has dropped its old `ctx->fd`, and 1 afterwards.

It states `Cardinality(Leaked) + Pending <= sessions + RoundCredit`, `LeakPerReset` itself, and that in the connect loop `ctx->fd` is 0 or the loop's socket. The induction has one lemma per kind of step:

- `FreshRound`, `ReconnectReverseStep`, `InferStagedStep` and the accept branch of `BindRunStep` drop `ctx->fd` and spend the credit (`DropCount`);
- `SameRound`, `ReconnectBindStep`, `RevDoneStep`, `TransportResetStep` and the failure branch of `BindRunStep` drop nothing that is still open (`KeepCount`).

The cardinality facts come from `FiniteSetTheorems` (`FS_Subset`, `FS_AddElement`). `LeakInv` was checked with TLC on the `establish` instance (632,314 states) before it was proved.

`PacketCodecProofs` also proves the action property `LockReleaseFramed`, i.e. `CodecSpec => LockReleasedAtBoundary`. It follows from `IInv` holding after each step (`FramingStep`): `AtBoundary'` says that once the lock is free on a connection that is not reset, the stream ends at a frame boundary.

`CodecDeliveryProofs` proves `DeliveryCorrect`, i.e. `CodecSpec => []DeliveredAsSent`, under the assumption `DecryptAgrees`. That assumption says that either no cipher is established, or neither the zeroed packet's type nor any type the controller sends is a plaintext type. It is needed: the run `plain_under_cipher` shows a PLAIN_REQUEST under a cipher going through decryption. The inductive invariant `DeliveryInv` adds three facts to `CodecTypeOK`:

- every frame read has been delivered (`Len(delivered) = rcvd`);
- every frame is encoded as `PeerEncrypts` says (`PeerEncoded`);
- `DeliveredAsSent` itself.

Under `DecryptAgrees`, a frame is encrypted exactly when the receive path decrypts. So the `CRYPTO_ERROR` branch, which reads a frame and delivers nothing, and the garbage branches are never taken (lemma `DeliveryReceive`). `PeerSend` appends without disturbing the frames already read (`DeliveryPeerSend`). `DeliveryInv` was checked with TLC on the `codec_concurrent` instance and on one with no cipher and a plaintext peer type, before it was proved.

`DispatchProofs` proves `DispatchQuiescent` (`Spec => []QuiescentOnReturn`) for every number of worker threads, comms timeout and expiry. On the way it proves `DispatchTyped` (`Spec => []DispatchTypeOK`), which no run checks: it is the codec's type invariant plus the dispatch variables' types, and adds nothing the codec's runs do not show.

- The lemma `CodecStep` shows every step of `DispatchLoop` to be a codec step or a stutter of the codec's variables. So the codec's `IInv`, proved above, holds in the composition.
- `IInv` gives `LockHeldByWriter`: only a thread inside the write loops holds the lock.
- The strengthening `QInv` adds `DispatcherTransmitsInline`: the dispatch thread is inside a transmit only in the `respond` state.
- It also adds `WorkersIdleOutsideLoop`: no worker has a transmit before the loop starts or after it returns. `DispatchExit` waits for the workers, and `DispatchHandle`, the only place that hands a worker a transmit, runs inside the loop.
- `DispatchLocalsStep` has one case per action. `TransmitStepBusy` says that a step inside `packet_transmit_via_ssl` is taken by a thread already in a transmit, and that it touches no other thread's locals.

`QInv` was checked with TLC on the `dispatch` instance (260,292 states) before it was proved.

`ProberProofs` proves `InferCorrectV4` (`Spec => []InferAsSpecified`) and `ClosesOnlyStagerV4` (`Spec => []ClosesOnlyLeakedListener`) under the assumption `StagedFamilies = {"v4"}`, for every window size, set of ports and handle table a stager can leave. The IPv6 case is false: the run `probe_v6` shows it.

- The invariant `ProbeInv` holds for both families. It says the table is consistent and never changes, and that once the prober has run, the context holds what one scan (`FirstListener`) computes.
- The lemma `MatchIsStager` shows that, for an IPv4 socket, the loop's test matches a candidate exactly when it is the stager's listener.
- `FirstIsStager` follows: by the uniqueness of the stager, the first match is the stager's listener, and there is none when the stager connected out.

`ProbeInv` was checked with TLC on the `probe_v4` and `probe_v6` instances before it was proved.

`FlusherProofs` proves `FlusherTyped` (`Spec => []FlusherTypeOK`). `FlusherTypeOK` is inductive as it stands. The only fact needed is that `recv` never returns more than is buffered (`RecvResultBounded`), and `SOCKET_ERROR` stored in the DWORD `ret` is a DWORD.

These stay with TLC:

- liveness (`DispatchTerminates`, `FlushReturnsUnlessReset`): the provers cannot reason about fairness;
- anything about ENABLED;
- the refinement `ChannelRefined`: its mapping reads frames off the stream with `SelectSeq`, and a proof would need what `SelectSeq` returns on every appended stream, which is an induction over data;

## Not modelled

- URL parsing and name resolution (`gethostbyname`, `getaddrinfo`, the `strstr`/`strrchr` pointer arithmetic at 1019-1050). These are string handling; the model keeps only the kind of URL. Known defects here are recorded as hazards only: a NULL `gethostbyname` result is dereferenced (84), and a URL without "//" makes `strstr` return NULL (1020).
- `reverse_tcp6`, which differs from `reverse_tcp4` only in address resolution. Its `addrinfo` leak when `socket()` fails (136) is memory, not a socket.
- The OpenSSL lock callbacks and the certificate and context set-up. In `Establisher` the flush and the TLS handshake are one `Tls` step that succeeds or fails; the flush itself is `SocketFlusher`.
- The inbound length field's value, so the underflow when `header.length < 8` (638) is a hazard without a property.
- The blocking `SSL_read` that `packet_receive_via_ssl` performs while holding the lock. Receive is one atomic step that fires only once a frame or the connection end is there. The only party it waits on is the controller, and spec section 5 makes this serialisation intentional.
