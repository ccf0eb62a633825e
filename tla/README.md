# Verification of the MPTCP implementation for ns-3

This directory holds TLA+ models of the Multipath TCP implementation of this
repository, the TLC configurations that check them on small instances, and
theorems about them that TLAPS proves for every value of the constants.

The repository is a copy of ns-3, a discrete-event network simulator, with an
MPTCP protocol added to it.  The program's own logic is in
`src/src/internet/model/mp-tcp-*.cc`, in two applications
(`src/src/applications/model/mp-tcp-*.cc`), and in a few queue disciplines; the
rest is stock ns-3.  `MpTcpSocketBase` is called `MB` below and line numbers
without a file are those of `src/src/internet/model/mp-tcp-socket-base.cc`.

## 1. Inventory

| Component | State | Operations | Module |
|---|---|---|---|
| Sender data path (`MB` at the client) | `sendingBuffer`, `nextTxSequence`, `lastUsedsFlowIdx`; per sub-flow `TxSeqNumber`, `maxSeqNb`, `highestAck`, `mapDSN`, `cwnd`, `ssthresh`, `m_dupAckCount`, `m_inFastRec`, `m_recover`, `retxEvent` | `FillBuffer`, `SendPendingData`, `SendDataPacket`, `ReceivedAck`, `DupAck`, `ReduceCWND`, `NewAckNewReno`, `NewACK`, `DiscardUpTo`, `ReTxTimeout`, `Retransmit`, `DoRetransmit` | `MpTcpSender` |
| Receiver data path (`MB` at the server) | `nextRxSequence`, `unOrdered`, `recvingBuffer`; per sub-flow `RxSeqNumber` | `ReceivedData`, `StoreUnOrderedData`, `ReadUnOrderedData`, `SendEmptyPacket(ACK)`, `Recv` | `MpTcpReceiver` |
| Buffers (`DataBuffer`, `DSNMapping`, `MpTcpSubFlow`) | the bytes, the segments | `Add`, `Retrieve`, `CreatePacket`, `ReadPacket`, `AddDSNMapping`, `GetunAckPkt` | in the two above |
| Bulk sender | `m_totBytes`, `m_connected` | `SendData`, `DataSend`, `ConnectionSucceeded` | `SendData` in `MpTcpSender` |
| Packet sink | `m_totalRx` | `HandleAccept`, `HandleRead` | `HandleRead` in `MpTcpReceiver` |
| Paths: `DropTailQueue`, `CoDelQueueLifo`, `RateErrorModel` | packets queued | enqueue, drop, dequeue, corrupt | `MpTcpPaths` |
| Hand-shake, sub-flow set-up, fork | `m_state`, sub-flow `state`, `mpSendState`, `mpRecvState`, tokens, `cnCount` | `Connect`, `ProcessListen`, `CompleteFork`, `ProcessSynSent`, `ProcessSynRcvd`, the retries of SYN and SYN+ACK | `MpTcpHandshake` |
| Path managers | `addrAdvertised`, the scheduled sub-flows | `AdvertiseAvailableAddresses`, `InitiateSubflows`, `InitiateMultipleSubflows`, `InitiateSingleSubflows` | `MpTcpHandshake` |
| Close | sub-flow `state`, `m_gotFin`, `m_finSeq`, `m_closeOnEmpty` | `Close`, `DoClose`, `SendAllSubflowsFIN`, `PeerClose`, `DoPeerClose`, `ProcessWait`, `ProcessLastAck`, `LastAckTimeout`, RST | `MpTcpClose` |
| Congestion control, nine algorithms | `AlgoCC`, `totalCwnd`, `alpha`, `a` | `OpenCWND`, `ReduceCWND`, `compute_total_window`, `calculateAlpha`, `compute_a_scaled` | in `MpTcpSender`; `alpha` and `a` left open |
| Queue disciplines `CoDelQueue`, `CoDelQueueLifo`, `Fq_CoDelQueue` and the device that sends from them | packets, dropping state, delay estimate, flow list, deficit; `m_txMachineState` | `Send`, `TransmitComplete`, `DoEnqueue`, `DoDequeue`, `ShouldDrop` | `CoDelQueue`, `CoDelDevice` |
| Demultiplexing, token map | `m_TokenMap`, endpoints | `LookupMpTcpToken`, `LookupSubflow` | in `MpTcpHandshake` and `MpTcpClose` |
| Headers and options, RTT estimation, `SfqQueue`, IP, routing, event loop, experiments | | | not modelled, section 8 |

How they interact.  All code runs as events of one simulator, one after the
other, each to its end: there are no threads.  What interleaves is the order of
events: packets that arrive at either end (`DoForwardUp`), timers
(`ReTxTimeout`), and turns of the application (`DataSend` schedules `SendData`).
Within an event the parts call each other: `ReceivedAck` ends in
`SendPendingData`, `ReceivedData` in `ReadUnOrderedData` and, through
`NotifyDataRecv`, in the sink's `HandleRead`.  The two ends share nothing but
packets.  A sub-flow's device asks its queue for a packet only when it has sent
one (`TransmitComplete`) or is given one while idle (`Send`).

What is hard.  A connection has two numberings: each sub-flow numbers its own
bytes and the connection numbers all of them (DSN), and there is no data
acknowledgement: a sub-flow forgets a segment as soon as its own number is
acknowledged (`DiscardUpTo`, line 1445).  So everything depends on the receiver
never letting a sub-flow acknowledge what the connection has not kept, across
losses, reordering, duplicates, time-outs that set `TxSeqNumber` back while old
packets and acknowledgements are still under way, and segments stored in one
list for several sub-flows.  The code answers what it takes for impossible with
assertions and fatal errors (lines 938, 946, 1020, 1109, 1337, 2045, 2680, 2686,
2700, 3145); most properties below say that these are impossible indeed.

The hand-shake has its own way of being hard: the server's MP_CAPABLE goes out
with the first SYN+ACK of a socket only, though SYN+ACKs are repeated (a repeated
SYN carries the client's again), the server may give a socket up and fork another
one for a SYN of the same client, and the packets of the first are then still
under way to a client that may take them for answers of the second.  The close
sends a FIN per sub-flow while data is under way on all of them and time-outs
set `TxSeqNumber` back, and computes the FIN's number anew each time.

`PROJECT.json` lists the hazards one by one at their lines, also those that no
property covers, with the reason.

What makes each component correct:

- sender: whatever it has sent and not seen acknowledged it still has, and has a
  timer for; a time-out, a duplicate and a partial acknowledgement find the
  segment they retransmit; the flight stays within the peer's window; fast
  recovery ends;
- receiver: the application gets the byte stream, each byte once and in order;
  what is acknowledged is kept; nothing runs into a fatal error; the buffer has
  room;
- both: all that is written is read in the end;
- hand-shake: both ends agree on the tokens and on which sub-flows there are, a
  lost packet is repeated or the sub-flow is given up alone;
- close: a FIN is counted after all data of its sub-flow, each end closes every
  sub-flow, no data is cut off;
- congestion control: windows stay positive and finite, divisors are not zero;
- queues: a device is not left idle before packets, nor handed none.

## 2. Modules

| Module | What it is |
|---|---|
| `MpTcpPaths` | one path per sub-flow: data one way, acknowledgements the other; bounded queues, loss, reordering |
| `MpTcpSender` | the client's socket and the bulk sender (EXTENDS `MpTcpPaths`) |
| `MpTcpReceiver` | the server's socket and the packet sink (EXTENDS `MpTcpPaths`) |
| `MpTcpTransfer` | both ends composed over the paths; specification, fairness and properties |
| `MpTcpStream` | the abstract specification: one byte stream |
| `MpTcpTransferInv` | the inductive invariant `IInv` |
| `MpTcpTransferProofs` | proof that `IInv` is an invariant |
| `MpTcpTransferTheorems` | the properties as theorems, the refinement of `MpTcpStream` |
| `MpTcpTransferProgress` | proofs that a time-out can always help the transfer on |
| `MCTransfer` | values of constants for TLC |
| `MpTcpHandshake` | opening a connection: client, path manager, server, forks (EXTENDS `MpTcpPaths`) |
| `MpTcpAgreement` | the abstract specification: two ends agree on a socket and its sub-flows |
| `MpTcpHandshakeInv`, `MpTcpHandshakeProofs` | its inductive invariant `HandshakeInv`; the proofs |
| `MpTcpHandshakeAgreement` | the refinement of `MpTcpAgreement` |
| `MCHandshake` | values for TLC |
| `MpTcpClose` | closing a connection sub-flow by sub-flow while data is under way (EXTENDS `MpTcpPaths`) |
| `MpTcpEndedStream` | the abstract specification: a byte stream that ends (EXTENDS `MpTcpStream`) |
| `MpTcpCloseInv`, `MpTcpCloseProofs` | its inductive invariant `CloseInv`; the proofs, the refinement of `MpTcpEndedStream` |
| `MpTcpCloseProgress` | proofs that a resend can always help the close on |
| `MCClose` | values for TLC |
| `CoDelQueue` | the three CoDel queues: enqueue and the parts of dequeue |
| `CoDelDevice` | a point-to-point device that sends from one of them |
| `CoDelProofs` | the invariant `CoDelInv` and the proofs |

The three phases of a connection are models of their own over the same paths.
The data path starts with established sub-flows (and, as `SynSent`, ones whose
SYN was lost, which the hand-shake shows to be possible); the close starts with
established sub-flows and keeps of the data path what a FIN depends on: the
numbers, `mapDSN`, `unOrdered` and the timer, but not the windows.  What each
leaves open includes what the others do there.

Operators whose comment begins with "Wrong variant" are not part of the
specification.  Each is a plausible mistake in the operator after it, used to
test that a property notices it; section 5 names them.

## 3. How state and actions correspond to the code

**Numbers.** Sub-flow and data sequence numbers count from 1 behind the initial
number of the hand-shake.  They do not wrap: a transfer of 4 GB over one
sub-flow is out of the model's scope.  `cwnd` does wrap (`CwndModulus` stands
for 2^32) in fast recovery, where line 2034 can take it below zero and line 2765
then add to it.  The sums that set it from `ssthresh` or outside fast recovery
(`ThirdDupAck`, `FullAck`) are not taken modulo 2^32: at a segment per
acknowledgement at most, a window gets there only after millions of them.

**Segments.** A `DSNMapping`, an entry of `unOrdered` and the option of a data
packet are records of `dsn`, `len` and `ssn`.  `mapDSN` and `unOrdered` are lists
in the code, kept in order of `ssn` and of `dsn`; here they are sets, and the
code's scans for an entry pick the one that fits.  Payload bytes are named by
their data sequence number; `recvingBuffer` is a sequence of them, so that
order and duplicates show.  `sentDSN` and `received` are history variables.

**Handlers.** A handler is an action with all it calls.  Two loops are run in
small steps instead, so that their iterations stay readable: `SendPendingData`
(`txPhase` is "send" or "resend") and `ReadUnOrderedData` (`rxPhase` is
"reading").  While one runs nothing else does (`SenderTurn`, `ReceiverTurn`,
`Loss`), so they are as atomic as in the simulator; invariants that the code
needs only between events are stated for `Quiet` states.

| Action | Code |
|---|---|
| `SendData` | one turn of the loop of `MpTcpBulkSendApplication::SendData` |
| `SendStep`, `ResendStep` | one iteration of the two loops of `SendPendingData`, with `SendDataPacket` |
| `IgnoredAck`, `ThirdDupAck`, `CountedDupAck` | `ReceivedAck` for `ack <= highestAck + 1`, `DupAck`, `ReduceCWND` |
| `PartialAck`, `FullAck` | `NewAckNewReno`, `OpenCWND`, `NewACK` |
| `IdleTimeout`, `Retransmit` | `ReTxTimeout`, `Retransmit`, `DoRetransmit` |
| `InOrder`, `AheadOfData`, `OutOfOrder`, `Duplicate` | the branches of `ReceivedData` |
| `ReadStep`, `ReadDone` | an iteration of `ReadUnOrderedData`; its end, the sink's read and the answer |
| `LoseData`, `LoseAck` | a packet lost on a link or dropped as it leaves a CoDel queue |

**Decisions a reader should know: the data path.**

- The bulk sender is one with `m_maxBytes = 0`, which writes until it is
  stopped and never calls `Close`.  `MaxBytes` bounds how much TLC looks at.
- `SendData` is notified through `ScheduleNow`, so each of its turns may come
  between any two other events; that is finer than the code, which runs the
  turns of one notification together.
- In `MpTcpSender` data moves in ESTABLISHED only.  `SynSent` is the set of sub-flows whose SYN
  was lost: `InitiateSubflows` (2432) sends it without a timer, so they stay in
  SYN_SENT.
- `DupAck` tells the count apart from 3 only, so `dupAckCount` stops at 4.
- `NewACK`'s `if (ack > TxSeqNumber)` is `SkipAcknowledged` of `FullAck`.  In
  `PartialAck` it has no effect: `DoRetransmit` has moved `TxSeqNumber` past `ack`.
- Congestion control has the nine algorithms of the attribute (`AlgoCC`).  What
  `ReduceCWND` halves (`Halved`) and what `OpenCWND` adds (`Increases`) is computed
  from the windows of all sub-flows, a sub-flow in fast recovery counting with its
  `ssthresh`.  A window grows by whole bytes, so quotients are rounded down.
- The factors `alpha` and `a` of `Linked_Increases`, `RTT_Compensator`, `COUPLED_EPSILON`
  and `COUPLED_INC` depend on round-trip time estimates, which the model does not
  have.  The increase is then any value up to the cap of the algorithm.
  `Linked_Increases` has none; `alpha / totalCwnd` is at most 1 over the window of the
  sub-flow that has the greatest share, whichever it is, so the increase is at most
  `MSS * MSS` over one of the windows.
- `AlphaPerAck`, which is off by default, is left out: with `UNCOUPLED` or
  `COUPLED_SCALABLE_TCP` it leads to an `exit` (3815).
- `retxEvent` says whether the timer runs.  When it fires is left open:
  `SpuriousTimeouts = TRUE` lets it fire at any time (an RTO shorter than the
  round trip), FALSE only when nothing of the sub-flow is under way.
- A packet meets a queue with a limit in packets (`DropTailQueue`).  With
  `Reorder` the queue is `CoDelQueueLifo`, which `Fq_CoDelQueue` uses for its
  flows and which takes the youngest packet first.  A packet then may leave from
  any position: that covers one such queue and any number of hops in a row.
- The sink reads synchronously, up to `ReadSize` (2000 in the code) bytes each
  time it is notified.
- The server's own `highestAck`, `AccumulativeAck` and the acknowledgement field
  of data packets are left out: nothing in the data path reads them.
- The assertion `packetSize <= size` of line 1132 is implied:
  `AvailableWindow` is 0 or at least a full segment while a full segment is
  pending, and `SendStep` passes a full segment otherwise.

### The hand-shake

| Action | Code |
|---|---|
| `Connect`, `Listen` | `Connect` with `DoConnect`; `Listen` of the packet sink |
| `ClientRetry`, `ClientGiveUp`, `ServerTimeout`, `RetriesCross` | the SYN timer: `SendEmptyPacket` again, or its branch for `cnCount = 0`; `RetriesCross` is both ends' timers at one time |
| `ToClient` | `DoForwardUp` at the client: `ReceiveSynAck` (`ReadOptions`, `ProcessSynSent`, the path manager), `ReceiveAddresses` (`InitiateSubflows`), `ReceiveReset`, `ClientRefuses` (`TcpL4Protocol` without endpoint), `ClientIgnores` |
| `InitiateSingleSubflows` | the event that `InitiateMultipleSubflows` schedules |
| `ToServer` | `TcpL4Protocol` and `DoForwardUp` at the server: `Fork` (`ProcessListen`, `CompleteFork`), `ReceiveJoin` (`LookupSubflow`), `RepeatedSyn` and `ReceiveConfirmation` (`ProcessSynRcvd`), `ReceiveData`, `AnswerAddresses`, `ServerReset`, and the cases in which nothing or a RST comes of a packet |
| `SendData` | a segment on an established sub-flow; a late one also ends a hand-shake |

- A SYN timer (`ConnTimeout`, seconds, doubled each time) fires only when nothing
  of its sub-flow is under way (`Unhurried`): a round trip takes milliseconds.
  Both ends' timers may still fire at the same time and cross.
- Tokens are random in the code and counted here, in the order of forks: two
  equal tokens are left out.  A token is never 0, which stands for none.
- One client, one connection; several sockets at the server come from giving up
  and forking again.  Of a socket that was given up only its entry in the token
  map is kept: nothing but a JOIN could still reach it.
- One path per sub-flow stands for addresses and ports.  A path manager is an
  attribute, chosen in `Init`.
- `fault` is the assertion or fatal error that ended the program, with one value
  for each that a packet could reach.

### The close

| Action | Code |
|---|---|
| `FillBuffer`, `SendDataPacket`, `SendAgain` | the application's writes; `SendDataPacket` with new data, and after a time-out; both end in `SendAllSubflowsFIN` when `m_closeOnEmpty` is set and the buffer is empty |
| `Close`, `ScheduledDoClose` | `Close`, called by `SendData` and by `StopApplication`; the event `DoClose` |
| `IdleTimeout`, `RetransmitData`, `RetransmitFin` | `ReTxTimeout`, `Retransmit`, `DoRetransmit`; the event `SendEmptyPacket(FIN)` |
| `ToClient` | `ReceivedAck`, a fast retransmission, `ProcessWait` for a FIN+ACK (`ReceiveFinAck`), a RST, and what a closed sub-flow answers |
| `CloseMultipathConnection` | the end of TIME_WAIT |
| `ToServer` | `ReceivedData`, `PeerClose` with `DoPeerClose`, a repeated FIN, `ProcessLastAck`, a RST, and what a closed sub-flow answers |
| `LastAckTimeout` | the repetition of the FIN+ACK and `LastAckTimeout`, which are due at one time |

- A segment is of one unit.  `mapDSN` is what lies between `highestAck` and the
  last segment of `sent`.
- Windows are left open: a sub-flow may send whenever the other conditions of
  `SendPendingData` allow it.  So does the fast retransmission, for which
  duplicates are not counted.
- TIME_WAIT lasts `Simulator::Now()` (797), so it may end at any time; its end
  turns every sub-flow in TIME_WAIT to CLOSED.  A client's sub-flow that gets to
  CLOSED from there keeps its endpoint.
- The client's `m_state` never is FIN_WAIT_1, so the acknowledgement of a FIN
  alone is not counted (2142) and FIN_WAIT_2 is not reached; a server's FIN
  always carries the acknowledgement.  CLOSING and a FIN out of range are
  reachable in the model's text and shown not to be reached.
- The sink is not stopped before the connection ends, so the server closes only
  in answer to a FIN.
- `reset` is a history variable: a RST has closed all sub-flows of an end.
- `Close` with an empty send buffer closes the sub-flow used last and no other
  (3436).  The comments promise nothing else, and the sub-flows that stay open
  lose no data, so this is a decision of the code that the model repeats.

### The CoDel queues

| Action | Code |
|---|---|
| `SendRefused`, `SendQueued`, `SendNow` | `PointToPointNetDevice::Send` with `Enqueue` refusing, queueing, or followed by `Dequeue` and `TransmitStart` |
| `TransmitComplete` | `TransmitComplete` |
| `FindsEmpty`, `Passes`, `BeginsDropping`, `BeginsLoop`, `DropsInHand` | the branches of `DoDequeue`, with `ShouldDrop` |
| `Tick` | time |

- The discipline is chosen in `Init`; `DoDequeue` runs in steps, between which
  nothing else happens.
- The hash of `Fq_CoDelQueue` returns 0 for every packet, so it has one flow.
  Its member `backlog` is not initialised: it starts with any of
  `UninitBacklogs`, and it is not lowered for drops.
- Counts of bytes and sums wrap at `Modulus`.  The control law's Newton step is
  any of `ControlDelays`.
- A packet's age counts from the first CoDel hop on its way, because the tag read
  is the first one: it may be old on arrival (`Ages`).
- Left out: statistics (the drop trace is also called for packets that are
  delivered), `DoPeek`, `DequeueAll`.

## 4. Properties

Each is stated in the module of its component, with the code behaviour it is
about.

Data path:

- `NoDataLost`: what a sub-flow has discarded the receiver has, in the stream or
  stored.  The central one.
- `IsStream`: the transfer implements `MpTcpStream` (refinement mapping:
  `written` is the bytes taken from the application, `delivered` those the sink
  has read): every byte once, in order, none that was not written.
- `ArrivalsMeetAssertions`, `StoredMeetsAssertions`, `AcksMeetAssertions`,
  `RecoveryFindsSegment`, `ReceiveBufferHasRoom`: the fatal errors and the
  assertions of the code cannot be reached.  The first and the third quantify
  over everything in transit, so they also cover what a later loss would hide.
- `OutstandingIsTimed`: no segment is recorded without a running timer.
- `TimeoutHelps`: while the stream has a gap, some sub-flow with a running timer has
  as its first unacknowledged segment one that the receiver has passed and will
  only have to acknowledge, or the very one the stream waits for.  So a time-out,
  which resends that segment, is enough to go on, although the receiver lets a
  sub-flow pass nothing that is out of order.  The safety core of `IsLiveStream`.
- `UnsentIsTimed`: what the application has written and no sub-flow has sent is
  never left without a timer that will come back to it.
- `FastRecoveryEnds`: `recover` is ahead of what is acknowledged and not beyond
  what was sent.
- `FlightWithinWindow`: no more than the peer's window is in flight, although
  `AvailableWindow` counts from a `TxSeqNumber` that a time-out has set back.
- `WindowsAreOpen`: outside fast recovery a window holds a segment, and a sub-flow
  in fast recovery has a threshold of two to come out with, although the window of a
  sub-flow is cut by what all others have and deflation may take it to any value:
  no algorithm divides by zero and no sub-flow is shut for good.
- `IsLiveStream`: what is written is read in the end.

Hand-shake:

- `TokensAgree`: the token the client has learned, and that of every JOIN under
  way, is the open socket's or 0, whatever was lost, repeated or forked before.
- `IsAgreement`: the hand-shake implements `MpTcpAgreement` (refinement mapping: the
  states of the ends, the number of forks, and for each sub-flow the socket whose
  SYN+ACK the client took).  The ends agree on one socket and its sub-flows; the
  server establishes only what the client has agreed to, on the socket it has
  agreed to; it never gives up a socket for a new one once the client has agreed;
  nobody closes without a reason.
- `ViewsFit` (a theorem only): a sub-flow that one end takes for established fits
  the other's view.
- `OtherFaultsNever`: of four faults a packet could cause only the one of section
  7 can happen.
- `HandshakesEnd`: no end stays half open.

Close:

- `FinFollowsData`: the server counts a FIN only when it holds all data of the
  sub-flow.
- `IsEndedStream`: data path and close together implement `MpTcpEndedStream`: every
  segment once and in order, none written after the application's close, and the
  end only after all that was written, also what other sub-flows carried or the
  send buffer still held, except when a RST aborts the stream.
- `NothingCutOff` (a theorem only): its consequence for a server that is closed
  without a RST.
- `CloseMeetsAssertions`: assertions and fatal errors are not reached.
- `CloseHelps`: while a FIN has no answer or data is not delivered, the timer of
  some sub-flow, open at both ends, resends what the server answers with news or
  waits for.  The server throws away a FIN that does not count and lets no
  sub-flow pass what was stored when it comes again, so this may be another
  sub-flow than the one that waits; it says that no sub-flow is closed before it
  has done its part.  The safety core of `FinIsAnswered`.
- `CloseIsTimed` (a theorem only, and part of the invariant): outstanding data and
  FIN always have the right timer.
- `FinKeepsPlace`: the number of a FIN never changes, although each resend
  computes it.
- `FinIsAnswered`, `CloseOnEmpty`: a FIN is answered, a deferred `Close` is carried
  out on every sub-flow.

Queues:

- `SendFindsPacket`: the last-in-first-out queue never gives `Send` a null pointer
  (`CoDelQueue` can).
- `IdleHasRoom`: packets that a drop has left in the queue of an idle device never
  fill it, which would be for ever.
- `LoopIsFifo`: the loop of drops and the control law of `CoDelQueueLifo` are never
  run.
- `FlowIsListed`: the flow of `Fq_CoDelQueue` is in a list while the device will
  come back.
- `DropLeavesPackets`: a drop that leaves the device without a packet always leaves
  packets in the queue.

## 5. Runs

| Run | Module | Instance | States | Shows |
|---|---|---|---|---|
| `two_subflows` | `MCTransfer` | 2 sub-flows, 4 bytes, MSS 1, queues of 2, reordering, spurious time-outs, fairness, `COUPLED_INC` | 72 674 | safety and liveness of the whole data path, the refinement of one byte stream |
| `fast_recovery` | `MCTransfer` | 1 sub-flow, 10 bytes, window 5, reordering, `Uncoupled_TCPs` | 369 954 | fast retransmit, partial and full acknowledgements, inflated windows |
| `odd_sizes` | `MCTransfer` | 2 sub-flows, 7 bytes, MSS 2, writes of 3, reordering, spurious time-outs, `Fully_Coupled` | 340 203 | segments of different sizes, coupled windows; the inductive invariant; a time-out always helps |
| `handshake` | `MCHandshake` | 2 sub-flows, 2 tries, queues of 2, reordering, all path managers, fairness | 23 758 | safety and liveness of the hand-shake, the refinement of an agreement |
| `close` | `MCClose` | 2 sub-flows, 3 segments, queues of 2, reordering | 2 172 714 | safety of the close, the refinement of a stream that ends |
| `close_live` | `MCClose` | 2 sub-flows, 1 segment, fairness | 12 380 | liveness of the close |
| `codel` | `CoDelDevice` | 3 disciplines, 6 packets, queue of 3, time 0 to 3 | 2 201 839 | the queues and the device |
| `stall`, `deflation`, `synack_lost`, `close_reset`, `codel_idle` | | | | disagreements of code and comments, section 7 |

Why the bounds suffice.  Two sub-flows are the least for data to arrive out of
order with each sub-flow in order; with four segments each sub-flow can have a
gap, a stored segment behind it, and one that holds the other sub-flow up.
Queues of two fill, drop and reorder.  Three duplicates need four segments in
flight and a second loss in the same window needs five, so `fast_recovery` has a
peer window of five, which recovery inflates the window beyond, and enough data
to go on after it.  Mixed sizes need a
segment shorter than MSS in the middle of a sub-flow, which writes of three bytes
at MSS 2 give.  `RcvBufSize` 4 and `ReadSize` 2 are the least the assumption
`TransferAssumption` allows for MSS 2.  In `two_subflows` the peer's
window (4) covers the transfer, in the other two it binds.

In `handshake` two tries let an end repeat once and give up, so that the server
forks again for a SYN of a client that is still trying; two sub-flows are the
least with a JOIN, and queues of two hold an ACK and the addresses behind it, or
drop the second.  The inductive invariant was also checked, there and with three
sub-flows.  In `close` three segments over two sub-flows
leave one stored behind a gap, one in the gap and one in the send buffer, with
FINs ahead of them.  In `codel` an interval and a target of one and ages up to
six make the delay rise often enough for every branch of `DoDequeue`, sums wrap
at 12, and three packets of queue are enough to be full with one left behind.
`close` and `close_live` have `SpuriousTimeouts = FALSE`; the theorems of section
6 hold for both values.

Each property of a passing run is tested by a mutant: an operator is replaced by
its wrong variant and TLC has to find the property violated.  Examples:
`UnackedDropsNext` (a segment too many discarded) breaks `NoDataLost`,
`KeepTxSeqNumber` (`NewACK` forgets lines 2096 to 2100) breaks
`RecoveryFindsSegment`, `BufferIsDrained` (the timer is stopped when only the
buffer is empty) breaks `OutstandingIsTimed`, `AvailableCwnd` (the peer's window
is forgotten) breaks `FlightWithinWindow`,
`ThresholdOfHalf` (no lower bound of two segments) breaks `WindowsAreOpen`, `DuplicateUnanswered` breaks
`IsLiveStream`, `JoinOwnToken` (the client's own token in a JOIN) breaks
`TokensAgree`, `FinAtTx` (the FIN at `TxSeqNumber`, which a time-out sets back)
breaks `FinKeepsPlace`, `ClosesNowAnyway` (`Close` does not wait for the send buffer)
breaks `IsEndedStream`, `NeedsTimerForData` (the timer stops
with the last data, FIN or not) breaks `CloseHelps`, `ReceiveAnything` (an ACK of any socket confirms a sub-flow)
breaks `IsAgreement`.  The pairs are under "mutants" in `PROJECT.json`.

Deadlock is checked in every passing run.  The states in which a program may rest
have the stuttering step `Done`: all that was written is read; the connection is
closed at both ends or its program has ended in a fault; nothing is under way and
no timer runs; the bounds of the device are used up.

**Fairness** (`Fairness` in each module).  The transfer:  Weak fairness of the loops'
steps, of `SendData` and of `Retransmit`: the simulator finishes a handler,
runs a due timer, and calls an application that was notified.  Strong fairness
of receiving at each end of each sub-flow: a packet that is sent again and again
arrives some time, because `RateErrorModel` loses each packet with a probability
below one.  `IdleTimeout` needs no fairness.

The hand-shake: strong fairness of the SYN timers, which are not always enabled
because they wait for what is under way, and of receiving; weak fairness of the
scheduled `InitiateSingleSubflows`.  Nothing is assumed of `Connect`, `Listen` and
`SendData`.  The close: weak fairness of sending, of scheduled events and of the
retransmission timer; strong fairness of receiving, at the server for each
sub-flow number, because it is the segment in the gap that must get through some
time and not just any.  `Close`, `LastAckTimeout` and the end of TIME_WAIT need none.
The queues have no liveness property.

## 6. Proofs

`MpTcpTransferProofs` proves `Invariance == Spec => []IInv`, and
`MpTcpTransferTheorems` proves from it every safety property of section 4 and
`ImplementsStream == Spec => IsStream`, for every number of sub-flows, segment
size, window, buffer and queue size, amount of data, congestion control algorithm,
with and without reordering and spurious time-outs, from the assumptions `PathAssumption`,
`SenderAssumption`, `ReceiverAssumption` and `TransferAssumption`.  The last says
that the sink reads at least a segment at a time and that the receive buffer
holds two: segments are of 536 bytes by default and of 1400 in `src/scratch`, the
sink reads 2000, and a receive buffer has 131 072 (`SetRcvBufSize`).

None of the properties is inductive.  `NoDataLost` alone does not say why a
sub-flow may discard: because the acknowledgement came from the receiver, which
sends nothing but `RxSeqNumber`; that `RxSeqNumber` passes only segments that are
stored or delivered; that what is between two segment starts cannot be
acknowledged; and that a resent segment is the very one sent first.  `IInv` says
so, in named parts:

- *what was sent* (`SegmentsSent`, `SegmentOrder`, `SegmentsDisjoint`): the segments
  of a sub-flow do not overlap and are in one order by either number, and no byte
  goes out on two sub-flows.  They speak of `sentDSN`, so they say, too, that what
  is resent is the segment sent first;
- *what is recorded* (`MapIsUnacked`): `mapDSN` holds the segments above
  `highestAck` and no others;
- *boundaries* (`Boundaries`): `highestAck + 1`, `TxSeqNumber` and `RxSeqNumber` are
  numbers at which a segment begins or the next new one will, so that a lookup by
  exact number finds a segment;
- *how far the ends are* (`Progress`): `highestAck + 1` is at most `TxSeqNumber` and
  at most `RxSeqNumber`, and both are at most `maxSeqNb + 1`;
- *transit* (`InTransit`): data paths hold segments that were sent, acknowledgement
  paths boundaries up to `RxSeqNumber`;
- *fast recovery* (`RecoveryBounds`): the property `FastRecoveryEnds` itself;
- *the receiver* (`StoredWasSent`, `DeliveredIsPassed`, `PassedIsHeld`,
  `StoredIsAhead`): a sub-flow has passed every segment that is in the stream, and
  what it has passed is in the stream or stored; what is stored is ahead of the
  stream, but for an entry `ReadUnOrderedData` is about to visit;
- *the stream* (`StreamSoFar`): what is read and what waits in `recvingBuffer` are the
  bytes from 1 to `nextRxSequence - 1`, in order, and between events none wait.

The proof has a lemma per action (`InOrderKeeps`, `FullAckKeeps` and so on) which
shows that the action keeps each part it can disturb, lemmas about the part of
the state it leaves alone, and a last one that combines them.  The properties
then follow from `IInv`, except for these: `OutstandingIsTimed`,
`FlightWithinWindow`, `WindowsAreOpen` and `UnsentIsTimed` are inductive relative to
`IInv` and have proofs by action of their own; the refinement needs, besides `IInv`,
that each step writes, delivers or stutters; and `TimeoutHelps` needs the argument
that follows.

`MpTcpTransferProgress` proves what of the liveness of a transfer is a matter of
states.  `IInv` says that segments do not overlap; `DataBoundaries` (theorem
`SegmentsLeaveNoGap`) says that they leave nothing between them either, on whichever
sub-flows they went: `nextRxSequence` is where a segment begins, or the next new one
will.  So while something that was sent is not delivered, some sub-flow has the
segment the stream waits for, and has it recorded, because it was not
acknowledged (`AwaitedIsRecorded`).  The first segment recorded on that sub-flow is
that one, or an earlier one, which is delivered and so was passed by the receiver:
resending it is answered with a new acknowledgement (`FirstHelps`).
`OutstandingIsTimed` gives it a timer.  That is `SomeTimeoutHelps`; with `UnsentTimed`,
for what is written and not sent, it gives `TransferNeverStuck`: while anything that
was written is not read there is a timer whose time-out brings the transfer on, if
every sub-flow is established and the peer's window holds a segment.  Without the
first condition the run `stall` is a counterexample.

### The hand-shake

`MpTcpHandshakeProofs` proves `HandshakeInvariance == Spec => []HandshakeInv` and from
it `HandshakeTypes`, `TokensAreAgreed`, `ViewsAreFit` and `OtherFaultsAreNever`, for
every number of sub-flows and retries, queue size, with and without reordering,
from `PathAssumption` and `HandshakeAssumption`.  `OtherFaultsNever`, say, is not
inductive because an ACK of another socket under way would break it one step
later.  The argument is about what can be under way together:

- a SYN under way means that the client has learned no token, and that no SYN+ACK
  with MP_CAPABLE is under way, because a SYN is repeated only in silence
  (`ClientPackets`, `CapableIsAlone`);
- so a fork, which needs a SYN, happens only to a client still in SYN_SENT and
  leaves no answer of an older socket behind it: every SYN+ACK under way is the
  last socket's (`ServerPackets`, `SynMeetsSocket`, `SocketsCount`);
- so whatever acknowledges a SYN+ACK acknowledges the last socket's
  (`ClientPackets`, `EndsAgree`), and the token of a JOIN is the last socket's or 0;
- a JOIN is sent once, and no sub-flow is to come once the first is closed
  (`SentOnce`, `ToCome`, `ClosedIsLast`).

`MpTcpHandshakeAgreement` proves `ImplementsAgreement == Spec => IsAgreement`.  The
refinement maps `agreed` to `rxNumber`, the number of the SYN+ACK that the client has
taken, so it says of which socket each end speaks; `HandshakeInv` does not.
`NumbersAgree` (theorem `NumbersAreAgreed`), which it needs in addition, says that the
client has taken a SYN+ACK of the last socket or none on each sub-flow, that none
has been taken when the server may still fork (so a fork does not leave the client
on an older socket), and that whatever confirms a sub-flow follows a SYN+ACK of the last
socket.  Then each step is one of the abstract ones or a stutter (one lemma per
handler), among them the step in which a SYN of a client that has not given up
makes the server fork again, and the one in which a data segment confirms a sub-flow in
place of the lost ACK.  The client's advertised addresses never do: the server only
answers them with its own (`AnswerAddresses`), and the sub-flow stays in SYN_RCVD.

### The close

`MpTcpCloseProofs` proves `CloseInvariance == Spec => []CloseInv` and from it
`CloseTypes`, `FinsFollowData`, `NothingIsCutOff`, `ImplementsEndedStream`, `AssertionsAreMet`, `CloseHasTimer` and
`FinPlaceIsKept`, for every number of sub-flows and segments, queue size, with and
without reordering and spurious time-outs, from `PathAssumption` and
`CloseAssumption`.  `CloseInv` says that a FIN under way is numbered behind all data
of a sub-flow that gets no new data (`DataInTransit`); that the server's
`RxSeqNumber` is behind that number exactly when it has counted the FIN
(`Progress`); that what a sub-flow has passed the server holds (`PassedIsHeld`); that
each data number was sent on some sub-flow (`DataNumbers`); and that a sub-flow leaves
ESTABLISHED only when the application has closed and the send buffer is empty
(`ClosedInTime`).  `NothingCutOff` follows: when all sub-flows have counted their FIN
the server holds all segments of each, hence every data number, and the first
one missing would be a segment it holds and has not delivered.

`ImplementsEndedStream == Spec => IsEndedStream` says the same of steps, with the data
path of the model included: an arriving segment delivers it with all stored ones
behind it (`InOrderDelivers`), nothing else delivers or writes, what is written stays
what it was through every resend, and the server gets from an open sub-flow to none
only when all that was written is delivered after the application's close, or by a
RST (`ToServerImplements`, `EndIsWhole`).

`MpTcpCloseProgress` proves `SomeResendHelps == Spec => []CloseHelps`.  It needs that a
sub-flow has passed whatever is delivered, although a stored segment that comes again
does not let it pass (`DeliveredIsPassed`).  A segment in order delivers what is
stored behind it on any sub-flow, and that those sub-flows pass all of it follows
from the order of the data numbers on each (`SentInOrder`) and from each being sent on
one only (`SentOnce`): before a delivered segment no other of its sub-flow is missing
(`InOrderPasses`).  And it needs that the client is done with a sub-flow only when its
FIN was counted (`AnsweredIsCounted`).  These four are inductive relative to
`CloseInv` (`DataKeepsOrder`).  Then, while data is missing, the sub-flow of the
segment the server waits for is open at both ends, and its first unacknowledged
segment is that one or one the server has passed (`AwaitedIsHelped`); when none is
missing, the FIN's own sub-flow has passed all its data, and its acknowledgement or
the FIN itself is what is missing (`FinIsHelped`).

### The queues

`CoDelProofs` proves `CoDelInvariance == Spec => []CoDelInv` and from it `CoDelTypes`,
`LifoSendFindsPacket`, `LifoNeverLoops`, `IdleDeviceHasRoom` and `BusyFlowIsListed`, for
every set of disciplines, packet sizes and ages, limit, target, interval and
quantum, from `QueueAssumption` and `DeviceAssumption`.  The invariant says what an
idle device knows of the delay estimate (`NoDropWhenIdle`, `LifoDropsWhenIdle`), that
a packet is in the queue while `Send` waits for it (`SendLeavesPacket`,
`CallsWhenReady`), that the queue is within its limit (`QueueFits`), and that the
average delay is below its maximum although the sum it is computed from wraps
(`AverageIsBelow`, `PacketsArePast`).

`FirstDropLeavesPackets == Spec => DropLeavesPackets` is about two kinds of count at
once: the drop is not made when `bytesInQueue` is below `MinBytes`, and packets are
left.  `QueueBytesAreCounted` relates them: `bytesInQueue` is the sum of the packets'
sizes, up to multiples of `Modulus`, because it is an unsigned number that each
`Push` raises and each `Pop` lowers.  An empty queue then has a count of 0, below any
`MinBytes`.

### Only model-checked

`IsLiveStream`, `HandshakesEnd`, `FinIsAnswered` and `CloseOnEmpty`, because liveness
under fairness is out of TLAPS' reach (`TransferNeverStuck` and
`SomeResendHelps` prove the parts of `IsLiveStream` and `FinIsAnswered` that are about
states); and the five counterexamples.  Every invariant
and every action property of the passing runs, and all three refinements, are
theorems.

## 7. Disagreements of the code with its comments

- `stall` (line 1790): "It sends data only to ESTABLISHED subflows" (1733).  The
  search for a sub-flow does `continue` at one that is not established without
  moving on, so it never reaches another one.  With one lost SYN the transfer
  stops after the first segment.
- `deflation` (line 2034): "Partial ACK, partial window deflation" (2032).  The
  subtraction is unsigned and unbounded, and a partial acknowledgement that
  covers more than `cwnd` leaves a window of nearly 2^32.

- `synack_lost` (line 2190): "Retransmit SYN / SYN+ACK / FIN / FIN+ACK to guard against
  lost" (2223).  Only the first SYN+ACK carries MP_CAPABLE.  A client that gets the
  second one first runs, under FullMesh, into a fatal error; under the other path
  managers the connection goes on with token 0.
- `close_reset` (line 3252): the same comment, and "Received FIN again, the peer
  probably lost the FIN+ACK" (853).  `LastAckTimeout` closes the server's sub-flow right
  after one repetition.  If both FIN+ACKs are lost on the sub-flow whose endpoint
  is the connection's, the client's next FIN is answered with RST, and the client
  closes all sub-flows with the data that is outstanding on them.
- `codel_idle` (`codel-queue-lifo.cc`, 546): "No packet was on the queue, so we just
  exit" (`point-to-point-net-device.cc`, 287).  The drop that begins the dropping
  state returns no packet although others are queued, so the device stops with
  packets in its queue until the next `Send`.

Seen on the way and not a run of its own: "For allowing sub-flow to progress,
RxSeqNb should be advanced even though packet is not in-order of connection level"
(924), which the code does not do for a segment that was stored before, out of
order on its sub-flow; the sub-flow then waits for the data to catch up.
`IsLiveStream` shows that this costs time and not data.

## 8. Not modelled

- `calculateAlpha`, `compute_alfa` and `compute_a_scaled` themselves: they are in
  floating point or scaled integers over RTT estimates.  What they can lead to is
  covered by the choice in `Increases`, but for an overflow of the scaled integers.
- Data that the server sends back, the server's own `Close`, and several
  connections at once.
- The three phases are not composed into one specification: the product of their
  states is out of reach for TLC, and each is open where the others take part.
- `SfqQueue`, which no experiment with MPTCP uses, and byte mode and rates in `MpTcpPaths`.
- Header and option serialisation: the packets of the model are the numbers they
  carry.  RTT estimation: it only decides when a timer fires, which is left open.
- IP, routing, point-to-point links, single-path TCP, the event loop, `Socket`
  callbacks, traces, plots and experiment scripts: stock ns-3 or without protocol
  logic.  `src/src/mptcp` is an empty stub of a module.

## 9. Plan

Done: the data path with its abstract stream, the hand-shake with the path
managers, the close, the CoDel queues with their device; an inductive invariant
and theorems for each. The transfer implements one stream, the hand-shake the
agreement and the close the ended stream, all three proved; so are the safety
halves of progress: of the transfer (`TransferNeverStuck`) and of the close
(`SomeResendHelps`).

What could follow, in this order:

1. `compute_a_scaled` and `calculateAlpha` with their integer widths, checked against
   the formula of RFC 6356 over bounded windows and round-trip times.
2. The RTT history of a sub-flow (`UpdateRttHistory`, `EstimateRtt`), which also
   samples segments that were sent again.
3. Composition of the hand-shake with the data path, where `SynSent` is a result of
   the hand-shake.
4. `SfqQueue`, with more than one flow.
