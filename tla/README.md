# OctoVault VPN: a verification of the tunnel core

OctoVault is an iOS VPN application. Its screens (`Controllers/`) choose a
server and start and stop the tunnel; its packet-tunnel extension
(`ConnectTunnel/`) runs the VPN engine kept as source in `OpenConnect/`, the
AnyConnect client libopenconnect with a wrapper for iOS. Most of the system's
logic is there: one thread that moves packets between a tun device and two
network channels, while servers, sockets, timers and the user interfere. These
modules specify that thread, the timing of its DTLS channel, the detection of
the MTU, the HTTP requests and proxy authentication that come before it, and the
part of the application that steers the tunnel; they are checked with TLC and
much of them is proved with TLAPS.

Source paths below are relative to `src/OpenConnect/` unless they name another
directory.

## Inventory

| Component | State | Operations | Talks to |
|---|---|---|---|
| Packet loop, `mainloop.c` | `quit_reason`, `did_work`, the select sets, `tun_fd`, the two packet queues | `openconnect_mainloop`, `tun_mainloop`, tun set-up and shutdown | calls the channels and the tun device in turn, polls the command pipe, sleeps in `select` |
| DTLS channel, `dtls.c`, `gnutls-dtls.c` | `dtls_state`, `dtls_fd`, `dtls_ssl`, `dtls_need_reconnect`, `new_dtls_started`, `dtls_times` | connect, handshake, reconnect, close, receive, send, rekey | takes from `outgoing_queue`, fills `incoming_queue`; is told to reconnect by CSTP |
| CSTP channel, `cstp.c`, `gnutls.c` | `ssl_fd`, `https_sess`, `current_ssl_pkt`, `pending_deflated_pkt`, `deflate_pkt`, `owe_ssl_dpd_response`, `cstp_compr`, `ssl_times` | the CONNECT exchange, `cstp_mainloop`, rekey, reconnect, `cstp_bye` | carries the data while DTLS does not; negotiates the session that keys DTLS |
| Reconnect and commands, `ssl.c` | `got_cancel_cmd`, `cancel_type`, `got_pause_cmd`; the `timeout` and `interval` of a reconnect | `ssl_reconnect`, `poll_cmd_fd`, `check_cmd_fd`, `is_cancel_pending` | every wait of the program, the command pipe |
| Timers, `mainloop.c` | `struct keepalive_info` of each channel | `keepalive_action`, `ka_stalled_action`, `ka_check_deadline` | both channels; the loop's timeout |
| tun device, `tun.c` | `tun_fd` | read, write, shutdown | the loop |
| Session driver, `wrapper/open_connect.cpp` | the command descriptor | signal handler, DTLS set-up, resume loop | the loop |
| MTU detection, `dtls.c` | `ip_info.mtu`; locals of the search | `dtls_detect_mtu`, IPv4 and IPv6 | called by the DTLS handshake; stops the loop meanwhile |
| iOS provider, `ConnectTunnel/PacketTunnelProvider.m` | the handlers of the system, the adapter | start, stop, events of the adapter | the system's VPN daemon, the adapter |
| iOS adapter, `wrapper/OpenAdapter.mm`, `OpenPacketFlowBridge.mm` | packet-flow sockets, the network settings | connect, establishTunnel, the bridge | the provider, the loop's tun descriptor |
| ESP and other protocols, `gnutls-esp.c`, `gpst.c`, `oncp.c`, `pulse.c` | keys, sequence numbers, replay window | probe, encrypt, decrypt, their own loops | the packet loop |
| HTTP and authentication, `http.c`, `http-auth.c`, `ntlm.c`, `digest.c`, `auth*.c` | `https_sess`, `redirect_url`, `proxy_auth`, `http_auth`, `proxy_close_during_auth` | request, redirect, retry, CONNECT through a proxy, NTLM, Digest, Basic | server and proxy, before the tunnel exists and at its reconnects |
| Application, `Controllers/`, `Resources/` | `isVPNConnected` in the defaults and in each home screen, the kill switch, the screens and their pending blocks | start, stop, choose a server, log out, check, kill switch | NetworkExtension's preferences, connection and notifications |
| Vendored, `Libraries/`, `Pods/`, `frameworks/` | | | |

What is hard in it. Nothing of the loop is locked, because it is one thread;
but between any two of its system calls the server may answer, the sockets
fill up or break, tun deliver, a command arrive. State is shared by handlers
that each know half of it: the outgoing queue (tun fills it, either channel
drains it, a reconnect puts a packet back), `deflate_pkt` (both channels
compress into it), `dtls_need_reconnect` (CSTP sets it, DTLS obeys it), the
triple `dtls_state`/`dtls_fd`/`dtls_ssl` (each function tests another of the
three), the command flags (set in any wait, obeyed in one place). Failure is
normal: connections are lost at any step and packets half written. And the loop
sleeps, so every oversight may become a packet, a peer or a command that nobody
looks at again. `PROJECT.json` lists these hazards one by one, at their lines.

What makes each part correct:

- loop: no packet is lost, duplicated or reordered on its way out; received
  packets reach tun in order; the queue is bounded, and tun is read again when
  it drains; commands are obeyed;
- DTLS: state, socket and session agree; a session never outlives the CSTP
  session that keyed it; a disabled channel stays disabled;
- CSTP: a half-written record is finished or taken back, once; a detached
  session is not logged off;
- timers: a dead peer is found, a silent one is probed, but not flooded, and
  keepalives are in time;
- DTLS attempts: a handshake that nobody answers is given up, DTLS is tried
  again, and keys are renewed, however seldom the loop wakes;
- MTU detection: the result is carried by the path and no smaller than what was
  answered for; it ends, in bounded time;
- HTTP: requests end; a method that failed is not tried again; no old challenge
  is answered; nothing of an exchange is left over;
- application: the screen tells the truth about the tunnel, and a stop holds.

## Modules

```
OpenConnectInfo          state, packet queues, history variables
  +- Reconnect           ssl_reconnect, the command pipe, the CONNECT response
       +- Dtls           dtls_mainloop and the DTLS state transitions
       +- Cstp           cstp_mainloop
  +--- Mainloop          EXTENDS Dtls, Cstp: the loop, tun, Init, Next, Spec
         +- MainloopProperties   properties, fairness; INSTANCE TunnelAbs
              +- MCMainloop      for TLC
              +- MainloopProofs  for TLAPS: DTLS, detach, buffer, queue
                   +- MainloopTypeProofs   TypeOK
                        +- MainloopOrderProofs   packets, their order, TunnelAbs
TunnelAbs                what the loop promises to tun's packets
Keepalive                the timers of one channel, on a clock
DtlsAttempts             when DTLS is tried, given up and tried again, on a clock
MtuDetect                the search for the MTU
HttpAuth                 the authentication methods
  +- HttpRequest         a request to a server behind a proxy
VpnControl               the application's screens and NetworkExtension

MCKeepalive, MCDtlsAttempts, MCMtuDetect, MCHttpRequest, MCVpnControl: for TLC
KeepaliveProofs, DtlsAttemptsProofs, MtuDetectProofs, HttpRequestProofs,
VpnControlProofs: for TLAPS
```

The modules after the packet loop's are about parts that meet it at one point each,
which the loop's modules have as a nondeterministic step: a timer that may be due
(Keepalive), a DTLS attempt that may be due or time out (DtlsAttempts), a handshake that
succeeds (MtuDetect, and `detect_mtu` in Dtls), a connection that is made or fails
(HttpRequest), a command and the end (VpnControl).

### OpenConnectInfo, Dtls, Reconnect, Cstp, Mainloop

One state machine, split along the C files. `pc` is the place in
`openconnect_mainloop` or its callees between two system calls: `udp...` in
`dtls_mainloop`, `tcp...` and `rekey` in `cstp_mainloop`, `connect` and
`backoff` in `ssl_reconnect`, `tun_...` in `tun_mainloop`, `cmd`, `obey`,
`select` in the loop, `paused` between two calls of it. The only other process
is whoever writes the command pipe (`SendCmd`); the network, the tun device and
time act through nondeterministic results of the loop's own steps.

How the C state is represented:

- Packets are numbers, in the order in which tun or the server delivered them,
  so order and identity are visible; queues are sequences (`queue_packet`
  appends, `requeue_packet` prepends). `current_ssl_pkt` is a number or one of
  the static packets, as the C pointer is. `deflate_pkt` is the number of the
  packet whose data is in the shared buffer: what a compressed CSTP record
  really carries when it is written. `deflate_pkt_size` is the buffer's size, 0
  while there is none; `BufSizes` are those that codecs and MTUs ask for.
- At the end of `cstp_connect` a response that asks for a larger buffer has the
  old one freed and a new, empty one allocated (`NewDeflateBuffer`), without a
  look at the record that may still have to be written from it.
  `current_ssl_pkt` is then `FREED_PKT`, or, when malloc returns the same
  address, still `DEFLATE_PKT` on an empty buffer. What is written from freed
  memory is the old record or something else, and freeing it again may end the
  process (`CstpWriteFreed`): both are choices. `cstp_lost` is the history of the
  packets whose record went out as something else.
- `aborted` is a process ended by a bad pointer. It is reached there, and when
  `cstp_reconnect` takes two NULL pointers for the deflated record
  (`RequeuesNothing`).
- `dtls_detect_mtu` runs at the end of a handshake, and each of its reads polls
  the command pipe: `detect_mtu` is a place where commands are read
  (`DetectMtuCmd`) and not yet obeyed. What the search finds is module MtuDetect.
- `dtls` is the record of `dtls_state`, whether `dtls_fd` is open, and
  `dtls_ssl`: NULL, or the generation of the session id (or App-ID) that keyed
  it. The transition functions (`dtls_close`, `dtls_try_handshake`,
  `connect_dtls_socket`, ...) are operators that return the set of possible
  outcomes, with the C return value.
- `cstp_compr` distinguishes no compression, stateless (LZS, LZ4) and the
  stream compressor (deflate), which behave differently at a reconnect.
- `quit_reason` keeps apart the reasons that matter; "Protocol error" stands
  for the several malformed-packet and checksum reasons. A checksum failure is
  noticed only when the handler returns (`ReturnToLoop`).
- Deadlines may have passed or not whenever the code looks at one: `SslKa` and
  `DtlsKa` are the answers `keepalive_action` may give in a run. Module
  Keepalive has the real timers.
- `cstp_sent`, `dtls_sent`, `tun_written`, `tun_read`, `rx_count`, `bye_sent`
  and `cmds_sent` are history and bounds.

Left out: failed allocations (of the buffer at `cstp.c:715` too), a session id of
the wrong length (`cstp.c:430`, an error after part of the headers, which the model
has with any id), the descriptor number that a failed rehandshake leaves in
`ssl_fd` (`gnutls.c:2303`), a HelloRequest that arrives during the MTU detection
(`gnutls.c:160`), statistics, logging, the Windows branch, scripts
run at reconnects, the setuid of the command-line client, the `tun_pkt`,
`cstp_pkt` and `dtls_pkt` receive buffers (private to their handler).

### TunnelAbs

The abstract promise to tun's packets: they are taken one after the other and
each is sent at most once. `Tunnel == INSTANCE TunnelAbs WITH ...` in
MainloopProperties maps the queues and channels away; the run `tx` checks
`TunnelSpec`.

### Keepalive

`ka_check_deadline`, `ka_stalled_action` and `keepalive_action`, with the places where
`cstp_mainloop` and `dtls_mainloop` call them, on a clock in seconds like `time(NULL)`.
`channel` is whose timers they are, and which of the two loops calls. Time passes while
the loop sleeps, reads, rehandshakes or reconnects, and stands still from the first look
at the timers in a pass until `select`; `timeout` is the moment at which `select` would
return. `queued` and `blocked` say whether the channel has packets to send and whether
the socket took none of the last record. `probes` counts DPD requests since the peer was
last heard.

### DtlsAttempts

The transitions of module Dtls without packets, but with time: seconds since
`new_dtls_started`, since `last_rekey`, since the keys in use were agreed and since the
last attempt. A pass of the loop takes no time, though a handshake that succeeds blocks
it for the MTU detection, up to 24 s, and a CSTP rehandshake for as long as it takes:
the bounds hold up to that; `Rest` computes the timeout of `select` as the code does,
from what each state of DTLS lowers it to, and `SslWake` stands for the CSTP timers,
which may wake the loop earlier. `dtls_attempt_period` is the configured one or 0, as
some errors of `udp_connect` leave it.

### MtuDetect

`dtls_detect_mtu`: `pc` is at the labels of the C code. The network is a set of
answers on their way, each with the id of its probe; `path` and `local` are what
the path and the socket take. Lost, late and repeated answers and other packets
are steps of the network. Not modelled: IPV6_PATHMTU, which is compiled only on
Linux, and sockets that take less than four bytes (`cur` has no lower bound in
the code, `dtls.c:545`). A command that ends or prolongs the search is a read error
here; what becomes of the command is in Dtls.

### HttpAuth, HttpRequest

HttpAuth translates `http-auth.c` and the methods of `ntlm.c` and `digest.c` into
operators on the state of all methods towards one peer; each method answers with the set
of what it may do. HttpRequest is `do_https_request` with `connect_https_socket` and
`process_http_proxy` under it. Which bytes a header has is left out; what is kept of a
challenge is whose it is: of the last response, an earlier one or another host. The
body, cookies, the XML forms and SOCKS are left out. `proxy_close_during_auth` starts
with either value, since an earlier request may have left it set. `Answered` states the
one thing that is assumed of a proxy: it does not send a new NTLM challenge for a
message that answers one. Without it (`NtlmAgain = TRUE`) `process_http_proxy` goes
round for ever: 407s are not counted (`http.c:1303`).

### VpnControl

Everything runs on the main queue, so a step is one block: a tap, a notification, or a
completion handler of NetworkExtension. A start is five of them in a row (`loadAll`,
`load`, `save`, `open`, after a `delay` when another server was connected); `blocks`
holds those that are pending, with the screen that waits for them. A chosen server,
leaving the settings or a login makes a new home screen; the old one is released only
when its blocks have run, and until then it hears every notification (`Living`). The
block that `updateNetworkStatus` hands to the `JHNetworkSpeed` singleton captures the
screen for good, until another screen's takes its place: `speedBlock` is the screen it
keeps alive. `saved` and `status` are NetworkExtension's; `System` is what it does by
itself. Left out: which server is chosen, the texts, the free and guest user (who cannot
start), "reasserting", and the second configuration that two starts before the first
save would create (`Controllers/HomeViewController.m:167`).

## Runs

All are breadth-first and exhaustive within the bounds; each takes seconds to a
minute and a half.

| Run | Question | Bounds |
|---|---|---|
| `tx` | Outgoing packets, stateless compression on both channels, PSK, DPD and reconnects, CANCEL or PAUSE anywhere: `TxConserved`, `RecordIntact`, `ChannelOrder`, `QueueLimit`, `Backpressure`, `CstpWakeup`, `TunnelSpec`, `TypeOK` | 3 packets and a queue of 2, so that the queue fills, drains and refills; one command; one buffer size, without which `RecordIntact` is false |
| `deflate` | `TxConserved`, `CompressorHasBuffer` with all three kinds of compression, and the size of the buffer, changing at every reconnect | 2 packets: one in flight and one behind it; 2 buffer sizes: none, a small and a large one; reconnects that fail once and are tried again; a PAUSE |
| `session` | `DtlsResources`, `DtlsSessionFresh`, `NoStaleDtlsSend`, `PauseClosesConnections`, `DetachKeepsCookie`; and `RxInOrder` with a tun that fills up, drops, or whose client dies, and checksum failures | 2 session ids (an old and a new one), 2 commands, 1 packet out and 2 in, rehandshakes on both channels |
| `live` | `CancelEnds`, `PauseObeyed` under `FairSpec` | 1 packet, queue of 1, 2 commands |
| `timers` | `DeadPeerFound`, `ProbedInTime`, `ProbeLimit`, `TypeOK` for both channels, `KeepaliveInTime` for CSTP | DPD 4 s, keepalive 3 s, rekey 7 s, clock to 14 s: beyond 2.5 periods after a probe cycle, and past a rekey; CSTP rehandshakes, DTLS has the new-tunnel method |
| `attempts` | `TunWaits`, `HandshakeBounded`, `SleepBounded`, `KeyAge`, `TypeOK` | see `MCDtlsAttempts_attempts.cfg`: the handshake time, the period, the rekey time and the CSTP timer all differ, so that each may be the one that wakes the loop; no other bound: ages stop at `Long`, beyond all that is compared |
| `mtu` | `DetectedIsCarried`, `NothingForgotten`, `DetectionEnds` | an MTU of 16 with the code's 10 tries and 5 resends: as many halvings as fit, and tries left over for losses; every `path` and `local`; one unexpected packet |
| `http` | `ChallengeIsFresh`, `ClearedAtEnd`, `LoginLimit`, `FailedIsFinal`, `RequestEnds`, `TypeOK` | proxies that offer any set of the four methods anew in each response; servers that offer none, NTLM, or NTLM and Basic; 2 requests in a chain of redirects and 401s (10 in the code) |
| `app` | `ScreenTells`, `StopHolds`, `TypeOK` | 3 acts of the user (with a restart among them), each leaving at most 3 blocks pending, any number of changes by the system |
| `v_record` | finding, see below: `RecordIntact` with two buffer sizes | 1 packet |
| `v_digest` | finding | |
| `v_killswitch` | finding | |

`MaxTx`, `MaxRx`, `MaxSess`, `MaxCmds` and `MaxTime` bound counters in the guards of the
steps that increase them; the reconnect timeout is 0 or 1 with an interval of 1 and a
maximum of 2, so that both its end and the growing of the interval are reached.
`BufSizes` has two sizes where a buffer is to be replaced (that one is larger is all the
code asks), else one. `MaxTaps` and `MaxPending` bound the user, `MaxUnexpected` the
other packets, `MaxRedirects` and `MaxTries` are limits of the code itself. What ends,
ends in a step that stutters, and a thread of Keepalive goes on when its clock has
stopped: every run checks for deadlock, except the two of VpnControl, where the user and
the system may have nothing more to do.

### Fairness

`live` assumes what the code's scheduling gives: the one thread keeps running
(weak fairness of the loop outside `select`); `select` returns when a command is
in the pipe; and three strong conditions without which the thread would never
come to the command poll: the DTLS and CSTP receive loops find their socket dry
now and then, and CSTP's timers are not due every time it looks. The last holds
for DPD periods of two seconds or more (`NoProbeFlood`); the receive loops have
no bound of their own in the code, so a server that sends faster than the
client decrypts really can starve commands. The run has no compression, so the
process never ends by a bad pointer; one that does obeys nothing any more.

`mtu` and `http` assume weak fairness of the whole next-state relation: the one
thread runs, its waits have timeouts or end with the connection. That other
packets end is a bound of the model (`MaxUnexpected`): in the code each one
prolongs the wait for an answer by up to 2.4 s, without limit (`dtls.c:553`).

### Findings

- `v_record`: a reconnect that brings a larger MTU, or a codec with a larger
  bound, frees `deflate_pkt` while `current_ssl_pkt` still points to it
  (`cstp.c:712`). The record is then written from freed memory and freed again
  (`cstp.c:1074`), and its packet may be lost, against the rule of `cstp.c:1029`
  that a record is retried with the same data.
- `v_digest`: the loop that skips a quoted value of an unknown parameter of a
  Digest challenge never advances (`digest.c:159`): the request hangs.
- `v_killswitch`: turning the kill switch off while the tunnel is up saves the
  configuration with on demand enabled (`SettingsViewController.m:143`), so the
  system brings the tunnel back after the user stops it.

### Seen on the way

Not given a run; the models show them, or have to allow for them.

In the packet loop:

- A DETACH that the MTU detection reads (`gnutls.c:144`) is looked at only at the
  end of the pass. When the CSTP handler in between meets a malformed packet, the
  loop ends for that reason, with the connection open, and logs the session off
  (`mainloop.c:311`), whose cookie a detach is to leave usable (`openconnect.h:325`):
  hence the exception in `DetachKeepsCookie`.
- When a response agrees to deflate and then fails, there may be no buffer yet, and
  the next reconnect takes two NULL pointers for the deflated record and queues a
  NULL packet (`cstp.c:740`); the model ends there (`aborted`).
- A DETACH during a reconnect makes `openconnect_mainloop` return `-EINTR`
  instead of the documented `-ECONNABORTED` (`ssl.c:1041`, `mainloop.c:169`). A
  PAUSE that interrupts a connect when the reconnect timeout is used up ends the
  session (`ssl.c:1030`, `openconnect.h:323`).
- When a rehandshake finds "possible MITM attack. Disabling DTLS",
  `dtls_mainloop` goes on to connect it again (`dtls.c:361`, `gnutls-dtls.c:393`).
- The packet that `cstp_reconnect` puts back makes the queue skip the length at
  which `tun_mainloop` stops reading (`cstp.c:742`, `mainloop.c:82`), which is
  why `QueueLimit` is not checked with deflate; it is also queued behind younger
  ones, which is why `ChannelOrder` is not.
- A server's DPD period of one second makes every pass send a probe
  (`cstp.c:490`, `mainloop.c:368`).
- A compressed record of a stateless compressor is written again on a new
  connection that may not have agreed to compression (`cstp.c:738`); in the pass
  in which DTLS connects neither channel takes the queue, and the loop may sleep
  with packets queued until the next event or timer (`dtls.c:255`); DTLS, when it
  sends data instead of a due keepalive, sleeps without having looked at the next
  keepalive deadline (`dtls.c:390`, which is why `KeepaliveInTime` is a property
  of CSTP only).

In the DTLS attempts: once tun is up nothing but a CSTP timer wakes the loop for
the end of a handshake, and a handshake that fails sets no timeout for the next
attempt (`HandshakeBounded` and `SleepBounded` say how late that makes them); with
a period of 0, or when the socket cannot be made, an attempt is made in every
pass; the new-tunnel rekey method only resets the timer (`dtls.c:365`).

In the MTU detection: a timeout does not lower `max`, so when the path carries
less than the negotiated MTU all ten tries are always used, 24 s in which the loop
stands still; with an MTU of 1400 ten lossless tries leave the result up to 37
bytes short, and find none at all on a path of 701 bytes.

In HTTP: `connect_https_socket` resets the states of Digest and Basic when it
reconnects to a proxy that did not ask for it, so the password is sent again,
though "we need to remember which auth methods have been tried"
(`http-auth.c:347`; seven times at most, `LoginLimit`, where four would do); Basic
is reported as requested, and the loop over the methods ended, though the peer
never offered it (`http-auth.c:237`); `auth` stays set after a redirect, and a
`redirect_url` of a 401 is followed after a later answer (`http.c:952`).

In the application: a tap while a start is pending stops nothing, and the start goes on
(which is why `StopHolds` asks that none is under way); `isVPNConnected` in the defaults
follows the taps, so after a start that failed or a chosen server the next tap may do
the opposite of what the screen offers (and on demand is not turned off by a stop);
choosing a server while the tunnel is connecting keeps the old server's session.
`setupUDPSession` of the provider reports success before the settings are set
(`ConnectTunnel/PacketTunnelProvider.m:165`).

## Proofs

The theorems hold for every value of the constants. They assume nothing but
`ConfigAssumption` and `BoundAssumption` (OpenConnectInfo), `KeepaliveAssumption`
(Keepalive), `AttemptsAssumption` (DtlsAttempts), `MtuAssumption` (MtuDetect),
`RequestAssumption` (HttpRequest) and `ControlAssumption` (VpnControl), which TLC
evaluates in every run; what else a theorem needs is written in its statement.
Every invariant and action property that a passing run checks is proved, and so is
the refinement of TunnelAbs.

### MainloopProofs, MainloopTypeProofs

Each theorem follows from an inductive invariant, with one lemma per handler and
one step per action.

- `DtlsInv`: the record `dtls` is `Consistent` (state, socket and session
  agree), the session is fresh or doomed, and the handler looks at its timers
  and sends only while the channel is connected and not doomed (`Serving`).
  `Serving` is what makes `NoStaleDtlsSend` inductive: the flag
  `dtls_need_reconnect` is read once, at the top of `dtls_mainloop`, and nothing
  between there and the send loop sets it. Consistency is what makes freshness
  inductive: the code dooms a session when `dtls_state > DTLS_SLEEPING`, which
  is right only because a session exists in no other state. The lemmas
  `CloseFacts`, `TryOutcome`, `ConnectOutcome`, `ReconnectOutcome` and
  `SetupOutcome` say what each function of `dtls.c` returns, once. Theorems:
  `ResourcesAgree`, `SessionsAreFresh`, `StaleSessionsCarryNothing`,
  `PauseClosesBoth`.
- `DetachInv`: `ssl_reconnect` runs without a connection; a quit reason does not
  outlive the CSTP handler, except through a reconnect or on the way out; a
  cancel that was read is obeyed in the same pass or by the reconnect that read
  it. Together: at the exit of a detached session there is no reason to log off,
  no connection to do it on, or a reason that something else gave before the
  command was obeyed (`EndedByOthers`). The last does happen (see "Seen on the way"); what
  the theorem excludes is that the command itself, noticed in a reconnect which
  then fails, logs the session off. Theorem: `DetachAloneKeepsSession`.
- `BufferInv`: while a codec is agreed and there is no buffer, there is no
  connection either, and the pass is at a place from which neither channel comes
  to compress before a reconnect has succeeded (`AwaitsConnection`): in
  `ssl_reconnect`, on the way out, or, after a pause, with DTLS closed. Such a
  codec comes with a response that then fails. Theorem: `CompressorsHaveBuffer`.
- `QueueInv`: queued packets are packets, `tcp_write` has a record to write,
  CSTP leaves packets behind only behind an unfinished record or with `did_work`
  set (`LeftForAReason`), and tun is read while there is room
  (`ReadsWithRoom`). Theorems: `NoSleepOnPackets`; and, if no server agrees to
  the stream compressor (`"DEFLATE" \notin ServerCompr`), `QueueKeepsToItsLimit`
  and `TunIsWatchedWithRoom`. Without that condition the queue limit is false
  (see "Seen on the way").
- `TypeInv` (MainloopTypeProofs): `DtlsInv` and the types, in parts. The part that
  is not a type is `current_ssl_pkt = DEFLATE_PKT => pending_deflated_pkt # NULL`:
  without it the packet that `cstp_reconnect` takes back could be NULL. Theorem:
  `TypeCorrect`.

### MainloopOrderProofs

What the loop does to the packets is said once: a step leaves them alone or makes
one of six moves (`Moves`): a packet is taken from tun, leaves the queue for
CSTP's record, is written, is lost because something else was written in its
place, goes back to the queue, or is sent over DTLS. One lemma per action shows
that it makes no other (`OnlyMoves`), with `RecordInv`: nothing is in flight where
`cstp_mainloop` looks for something to write, and the buffer that both compressors
share holds the packet whose compressed form is in flight, or nothing, after a
reconnect replaced it. `OrderInv` takes `BufferInv` along: that a record is in the
buffer tells it apart from no record only while there is a buffer.
The rest is about the moves alone, for any number of packets:

- `PacketsAccountedFor` (`TxConserved`): each move keeps the packets and their
  number. It counts the lost ones (`cstp_lost`) among them, for the code does lose
  packets (`v_record`).
- `NothingLostInOneBuffer` (`RecordIntact`): if all responses ask for a buffer of
  the same size, none is ever replaced, the record in flight stays as it was
  compressed, and nothing is lost (`OneBufferInv`). The hypothesis is needed.
- `ChannelsKeepOrder` (`ChannelOrder`), if no server agrees to the stream
  compressor: inductive with `QueueInOrder`, the queue is in order, behind all
  that has left it, and CSTP's record is behind what CSTP has sent. The condition
  is needed: the move back to the queue is made only with that compressor, and it
  breaks the order (see "Seen on the way").
- `LoopImplementsTunnel` (`TunnelSpec`): a packet that is sent was not sent before.
  That does not follow from `TxConserved`, which counts; it needs `InOnePlace`,
  that no packet is queued twice, or both sent and still to be sent.
- `ReceivedInOrder` (`RxInOrder`): a separate invariant, `RxInv`, puts the queue of
  received packets behind what tun has, and both behind the packets to come.

### KeepaliveProofs

`IInv` is the conjunction of `TypeOK`, `NotStalled` (only CSTP has half-written
records, and its timers are looked at when it has none), `NotLate` (from the
first look at the timers on, no deadline looked at has passed), `ProbeTimes` and
`ProbeDistance` (where the first probe and the following ones lie, which bounds
their number), `WakesForDpd` and `WakesForKeepalive` (the timeout that the
channel leaves to `select`). The properties are not inductive without them:
that the loop does not sleep too long depends on how its timeout came about,
through the three deadlines taken one after the other (`DeadlineBounds`).
Theorems: `TypeCorrect`, `DeadPeerIsFound`, `SilentPeerIsProbed`; `NoProbeFlood`
for every DPD period but one second (see "Seen on the way");
`CstpKeepaliveInTime` for the CSTP channel.

### DtlsAttemptsProofs

The properties speak of all states and the code looks at its times only in a pass,
so `IInv` says what the loop went to sleep with: for each of handshake, sleep and
rekey, that the time passed and the timeout left together do not exceed the bound
while it sleeps, and that the time is within it when the pass begins. `Max2` and
the timeouts stay opaque; lemmas give their bounds. Theorems: `TypeCorrect`,
`TunNeverWaits`, `HandshakesEnd`, `SleepEnds`, `KeysAreFresh`.

### MtuDetectProofs

`IInv` relates the search to the network: every answer on its way with the id of
the present probe has its size, and every answer at all has a size the path
carries; `min` is half the MTU or was answered for, `acked` is at most `min` until
the end; for `max`, that nothing above it can be sent. Theorems: `TypeCorrect`,
`MtuIsCarried`, `MtuIsNotTooSmall`, `LoopStandsStill`, for every MTU from 5 and any
number of tries. `TypeOK` and `WithinBudget` of MtuDetect are proved only, and not in a
run.

### HttpRequestProofs

The operators of HttpAuth have lemmas of their own: `ClearFact`, `AgeFact`,
`ProtoFact` and `ReadFact` say what a clean-up and a response leave, `HeaderFact`
and `HeaderTries` which method decides a header and what it does. All of them
return states that are `Onwards` of those they were given, which is `FailedIsFinal`
(`FailedStaysFailed`). `StateInv` adds what is kept where:

- `ProxyInv`: `proxy_auth` keeps a challenge only between a response of the proxy and
  the header that answers it, or while a connection that the proxy closed is made
  again; everywhere else it is cleared.
- `ServerInv`: `http_auth` is not cleared when a redirect is followed without a 401,
  so that it may hold an old challenge. It is never answered, since it belongs to a
  method that is still to start, and NTLM, the only one without a password, starts
  without a challenge; once `auth` is set every header clears.

Theorems: `TypeCorrect`, `NoStaleChallenge`, `NothingLeftOver`.

`FewLogins` (`LoginLimit`) bounds the loops of `connect_https_socket` and
`process_http_proxy` by a count of the passwords a connection may still cost
(`LoginsLeft`): two for NTLM; for Digest one, and one more if NTLM can still fail;
for Basic one, and one more for each of the two that can still fail, because a
failure starts a new connection that clears the later methods. In all seven.
Each header that is sent costs one (`LeftSent`), a failure adds none
(`LeftFailed`), and a response only makes methods available (`LeftNudged`). The
theorem has the hypothesis `~NtlmAgain`, without which there is no limit.

### VpnControlProofs

Three parts. For the screens: a screen that has looked has a manager
(`Looked`), so that each notification reaches it, and each step that changes the
status leaves a notification behind (`SameScreens`, `OneScreen`, `OneMoreScreen`
by what happens to the screens). For the stop: while it holds there is no pending
block of a start and no on demand (`Quiet`), and what may be pending, a check or a
look of the settings, starts nothing (`QuietKept`). For the types: there are at most
as many screens as taps, and one (`Counted`). Theorems: `ScreenIsRight`,
`StoppedStaysDown`, `TypeCorrect`, for any number of taps, screens and pending
blocks. `StoppedStaysDown` begins where a stop took effect with no start pending and
on demand off; a start that overtakes the stop is not excluded by the code, nor by the
theorem.

### Model-checked only

The liveness properties `CancelEnds`, `PauseObeyed`, `DetectionEnds` and
`RequestEnds`: fairness and ENABLED are out of the prover's reach. What the loop
does with the stream compressor, where the theorems about the queue and the order
do not apply, is seen in the run `deflate`.

## Plan

1. *(done)* OpenConnectInfo, Dtls, Reconnect, Cstp, Mainloop with
   MainloopProperties and TunnelAbs; Keepalive.
2. *(done)* KeepaliveProofs; MainloopProofs for the DTLS resources, session
   freshness, pause, detach and the outgoing queue; MainloopTypeProofs.
3. *(done)* DtlsAttempts, MtuDetect, HttpAuth with HttpRequest, VpnControl; proofs
   about the first, the second and the last.
4. *(done)* MainloopOrderProofs: `TxConserved`, `ChannelOrder`, `RxInOrder`, the
   refinement of TunnelAbs.
5. *(done)* HttpRequestProofs; the types of VpnControl.
6. *(done)* The compression buffer that a reconnect replaces, the commands that the
   MTU detection reads, screens that outlive their display.
7. What holds in place of the statements that are violated (Findings): that a
   start with the kill switch off, begun after it was turned off, never turns on
   demand on; and that a request without Digest returns.

## Not modelled

- The packet-tunnel provider: its OpenVPN branch has handlers that events may meet
  in many orders, but the application only ever stores the category "openconnect"
  (`Controllers/HomeViewController.m:191`), so it is never taken; the OpenConnect
  branch is one call without state.
- The adapter (`wrapper/*.mm`, and its earlier copy): conversions of settings, one
  wait for a callback of the system (30 s), and a bridge between two descriptors.
- ESP: the loop and the replay window (`esp.c`) are not in the repository. The
  loops of the other protocols (`gpst.c`, `oncp.c`, `pulse.c`), which the
  application does not use.
- The XML forms of `auth.c`, cookies and bodies, the SOCKS proxy, certificates and
  keys, platform tun set-up: sequential conversions without interleavings.
- The account server's requests, purchases, notifications and layout of the
  application, and all vendored code.
