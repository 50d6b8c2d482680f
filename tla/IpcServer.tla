----------------------------- MODULE IpcServer -----------------------------
(***************************************************************************)
(* The window manager's IPC server (ipc_server.rs) and the tick that runs  *)
(* it (ipc_handler.rs, process_ipc): accept, poll every client within the  *)
(* message and byte budgets, answer each returned message in order, sleep  *)
(* until the readiness hub says there is work.  The peers at the other end *)
(* of the sockets run beside it: they write bytes, stop writing, hang up,  *)
(* and read their replies when they like.                                  *)
(*                                                                         *)
(* Connections are numbered in the order the kernel queued them, which is  *)
(* the order of the client ids the server gives out.                       *)
(***************************************************************************)
EXTENDS IpcClient

CONSTANTS
  MaxPeers,             \* bound: connections ever made
  MaxTokens,            \* bound: tokens written on each connection
  Sends,                \* bound: the kinds of frame each peer sends
  MaxEvents,            \* bound: events broadcast
  MaxClients,           \* MAX_CLIENTS
  MaxAcceptsPerPoll,    \* MAX_ACCEPTS_PER_POLL
  MaxTotalMessages,     \* MAX_TOTAL_MESSAGES_PER_POLL
  MaxTotalReadBytes     \* MAX_TOTAL_READ_BYTES_PER_POLL

Peers == 1..MaxPeers

ASSUME ServerAssumption ==
  /\ {MaxPeers, MaxClients, MaxAcceptsPerPoll, MaxTotalMessages, MaxTotalReadBytes}
       \subseteq Nat \ {0}
  /\ MaxTokens \in [Peers -> Nat] /\ MaxEvents \in Nat
  /\ Sends \in [Peers -> SUBSET Kind]

VARIABLES
  \* The peers.
  peer,      \* [Peers -> PeerState]: up, half (stopped writing), gone (closed)
  stream,    \* [Peers -> tokens written and not yet read by the server]
  wire,      \* [Peers -> messages written by the server, not yet received]
  received,  \* [Peers -> the messages received, in order]
  frames,    \* [Peers -> frames begun]
  run,       \* [Peers -> length of the unfinished last frame, 0 at line start]
  longest,   \* [Peers -> length of the longest frame written]
  written,   \* [Peers -> tokens written], capped by MaxTokens
  \* The server.
  conn,      \* [Peers -> ConnState]: listener queue, clients map, or why it left
  client,    \* [Peers -> IpcClient record], NewClient when not connected
  cursor,    \* next_poll_client
  armed,     \* continuation_armed: the eventfd of the readiness hub is set
  poll,      \* the poll in progress; between polls, the first client the last
             \* one left out for want of budget ("skipped", 0 if none)
  incoming,  \* messages poll_clients returned, still to be answered
  pc,        \* idle, poll, respond
  events     \* events broadcast, capped by MaxEvents

peerVars   == <<peer, stream, received, frames, run, longest, written>>
serverVars == <<conn, client, cursor, armed, poll, incoming, pc, events>>
vars == <<peerVars, wire, serverVars>>

PeerState == {"absent", "up", "half", "gone"}
\* retired: end of stream; overflowed, backlogged: the input or the output
\* passed its limit; failed: a write or a read error.
ConnState == {"none", "pending", "open", "refused", "retired", "overflowed",
              "backlogged", "failed"}

NoPoll == [ring |-> <<>>, at |-> 1, lines |-> <<>>, messages |-> 0, bytes |-> 0,
           dead |-> {}, skipped |-> 0]

Init ==
  /\ peer = [p \in Peers |-> "absent"]
  /\ stream = [p \in Peers |-> <<>>]
  /\ wire = [p \in Peers |-> <<>>]
  /\ received = [p \in Peers |-> <<>>]
  /\ frames = [p \in Peers |-> 0]
  /\ run = [p \in Peers |-> 0]
  /\ longest = [p \in Peers |-> 0]
  /\ written = [p \in Peers |-> 0]
  /\ conn = [p \in Peers |-> "none"]
  /\ client = [p \in Peers |-> NewClient]
  /\ cursor = 1
  /\ armed = FALSE
  /\ poll = NoPoll
  /\ incoming = <<>>
  /\ pc = "idle"
  /\ events = 0

Gone(p) == peer[p] = "gone"
Open == {p \in Peers : conn[p] = "open"}

-----------------------------------------------------------------------------
(* The peers (external programs) *)

\* connect(): the kernel queues the connection on the listener.
Connect(p) ==
  /\ peer[p] = "absent"
  /\ \A q \in 1..(p - 1) : peer[q] # "absent"
  /\ peer' = [peer EXCEPT ![p] = "up"]
  /\ conn' = [conn EXCEPT ![p] = "pending"]
  /\ UNCHANGED <<stream, received, frames, run, longest, written, wire, client,
                 cursor, armed, poll, incoming, pc, events>>

\* A byte reaches the socket buffer; one the server already closed loses it.
Write(p, token) ==
  /\ peer[p] = "up"
  /\ written[p] < MaxTokens[p]
  /\ conn[p] \in {"pending", "open"}
  /\ stream' = [stream EXCEPT ![p] = Append(@, token)]
  /\ written' = [written EXCEPT ![p] = @ + 1]
  /\ UNCHANGED <<peer, received, wire, serverVars>>

\* The first byte of a new frame.
BeginFrame(p, kind) ==
  /\ run[p] = 0
  /\ Write(p, Body(frames[p] + 1, kind))
  /\ frames' = [frames EXCEPT ![p] = @ + 1]
  /\ run' = [run EXCEPT ![p] = 1]
  /\ longest' = [longest EXCEPT ![p] = Max({@, 1})]

\* One more byte of the frame: what it parses as depends on its last byte.
ExtendFrame(p, kind) ==
  /\ run[p] > 0
  /\ Write(p, Body(frames[p], kind))
  /\ run' = [run EXCEPT ![p] = @ + 1]
  /\ longest' = [longest EXCEPT ![p] = Max({@, run[p] + 1})]
  /\ UNCHANGED frames

\* The newline: the end of a frame, or a blank line.
EndLine(p) ==
  /\ Write(p, Newline)
  /\ run' = [run EXCEPT ![p] = 0]
  /\ UNCHANGED <<frames, longest>>

\* shutdown(SHUT_WR): requests end, replies are still read.
HalfClose(p) ==
  /\ peer[p] = "up"
  /\ conn[p] \in {"pending", "open"}
  /\ peer' = [peer EXCEPT ![p] = "half"]
  /\ UNCHANGED <<stream, received, frames, run, longest, written, wire, serverVars>>

\* close(): replies it had not read are lost.
HangUp(p) ==
  /\ peer[p] \in {"up", "half"}
  /\ conn[p] \in {"pending", "open"}
  /\ peer' = [peer EXCEPT ![p] = "gone"]
  /\ wire' = [wire EXCEPT ![p] = <<>>]
  /\ UNCHANGED <<stream, received, frames, run, longest, written, serverVars>>

\* Read one message.
Receive(p) ==
  /\ ~Gone(p)
  /\ wire[p] # <<>>
  /\ wire' = [wire EXCEPT ![p] = Tail(@)]
  /\ received' = [received EXCEPT ![p] = Append(@, Head(wire[p]))]
  /\ UNCHANGED <<peer, stream, frames, run, longest, written, serverVars>>

-----------------------------------------------------------------------------
(* The readiness hub: an epoll set over the listener, the continuation      *)
(* eventfd and every client                                                  *)

\* End of stream behind the tokens of connection p.
Eof(p) == peer[p] \in {"half", "gone"}

\* Level-triggered readiness of a client's socket (client_flags).
ClientReady(p) ==
  \/ Gone(p)
  \/ client[p].readable /\ (stream[p] # <<>> \/ Eof(p))
  \/ client[p].writable /\ Len(wire[p]) < SocketSpace

LevelReady == \E p \in Peers : conn[p] = "pending" \/ (p \in Open /\ ClientReady(p))
Ready == armed \/ LevelReady

-----------------------------------------------------------------------------
(* process_ipc *)

\* Mutant: the connection limit is checked after the client was added.
ClientRoom1 == MaxClients - Cardinality(Open) + 1

\* Connections that may still be accepted.
ClientRoom == MaxClients - Cardinality(Open)

\* accept_connections: the oldest pending connections, while there is room.
Accepted ==
  LET pending == {p \in Peers : conn[p] = "pending"}
      batch   == {p \in pending :
                    Cardinality({q \in pending : q <= p}) <= MaxAcceptsPerPoll}
  IN  [p \in Peers |->
         CASE p \notin batch -> conn[p]
           [] p \in batch /\ Cardinality({q \in batch : q <= p}) <= ClientRoom -> "open"
           [] OTHER -> "refused"]

\* client_ids.sort_unstable(): ids in ascending order.
Sorted(ids) == [i \in 1..Cardinality(ids) |-> Nth(ids, i)]

\* Mutant: every poll begins at the lowest id.
UnrotatedRing(open) == Sorted(open)

\* The connected ids in ascending order, rotated to begin at the cursor.
Ring(open) ==
  LET ids   == Sorted(open)
      later == {i \in 1..Len(ids) : ids[i] >= cursor}
      start == IF later = {} THEN 1 ELSE Min(later)
  IN  SubSeq(ids, start, Len(ids)) \o SubSeq(ids, 1, start - 1)

\* accept_connections, then the head of poll_clients: drain the hub, order
\* the clients.
StartPoll ==
  LET now  == Accepted
      open == {p \in Peers : now[p] = "open"}
  IN  /\ pc = "idle"
      /\ conn' = now
      /\ armed' = FALSE
      /\ poll' = [NoPoll EXCEPT !.ring = Ring(open)]
      /\ pc' = IF open = {} THEN "idle" ELSE "poll"
      /\ stream' = [p \in Peers |-> IF now[p] = "refused" THEN <<>> ELSE stream[p]]
      /\ UNCHANGED <<peer, received, frames, run, longest, written, wire, client,
                     cursor, incoming, events>>

\* The event loop wakes because the hub is ready, or ticks for other reasons.
Wake == Ready /\ StartPoll
Tick == ~Ready /\ StartPoll

\* An entry of the poll's "dead" list.
Casualty(p, why) == {d \in {[peer |-> p, why |-> why]} : why # "none"}

BudgetLeft == poll.messages < MaxTotalMessages /\ poll.bytes < MaxTotalReadBytes
NextInRing == poll.ring[(poll.at % Len(poll.ring)) + 1]

\* One client of the poll whose output cannot be flushed: it is dead.
PollUnflushable ==
  LET p == poll.ring[poll.at]
      f == flush_out(release_abandoned_replies(client[p]), wire[p], Gone(p))
  IN  /\ pc = "poll" /\ poll.lines = <<>>
      /\ poll.at <= Len(poll.ring) /\ BudgetLeft
      /\ f.error # "none"
      /\ cursor' = NextInRing
      /\ client' = [client EXCEPT ![p] = f.client]
      /\ wire' = [wire EXCEPT ![p] = f.wire]
      /\ poll' = [poll EXCEPT !.at = @ + 1,
                              !.dead = @ \cup Casualty(p, f.error)]
      /\ UNCHANGED <<peerVars, conn, armed, incoming, pc, events>>

\* Mutant: end of stream retires the client whatever is still queued for it.
FatalAtEof(r) ==
  CASE r.error = "overflow" -> "overflowed"
    [] r.error = "eof" -> "retired"
    [] OTHER -> "none"

\* Why read_messages makes a client dead; "none" when it stays.  The end of
\* the stream only ends the requests: replies still queued are kept.
Fatal(r) ==
  CASE r.error = "overflow" -> "overflowed"
    [] r.error = "eof" /\ ~has_pending_output(r.client) -> "retired"
    [] OTHER -> "none"

\* The poll with "lines" of its current client still to be parsed; without any
\* it goes on to the next client.
WithLines(lines) ==
  [poll EXCEPT !.lines = lines, !.at = IF lines = <<>> THEN @ + 1 ELSE @]

\* The last thing done for a client is to refresh its interest.
Serve(p, c, lines) ==
  client' = [client EXCEPT ![p] = IF lines = <<>> THEN sync_client_interest(c) ELSE c]

\* One client of the poll: flush, read.
PollClient ==
  LET p == poll.ring[poll.at]
      f == flush_out(release_abandoned_replies(client[p]), wire[p], Gone(p))
      r == read_messages(f.client, MaxTotalMessages - poll.messages,
                         MaxTotalReadBytes - poll.bytes, stream[p], Eof(p))
  IN  /\ pc = "poll" /\ poll.lines = <<>>
      /\ poll.at <= Len(poll.ring) /\ BudgetLeft
      /\ f.error = "none"
      /\ cursor' = NextInRing
      /\ Serve(p, r.client, r.frames)
      /\ wire' = [wire EXCEPT ![p] = f.wire]
      /\ stream' = [stream EXCEPT ![p] = SubSeq(@, r.bytes + 1, Len(@))]
      /\ poll' = [WithLines(r.frames) EXCEPT
                    !.messages = @ + Len(r.frames),
                    !.bytes = @ + r.bytes,
                    !.dead = @ \cup Casualty(p, Fatal(r))]
      /\ UNCHANGED <<peer, received, frames, run, longest, written, conn, armed,
                     incoming, pc, events>>

\* One client of the poll whose read fails where it would have found the end of
\* the stream: the peer closed its socket and the kernel reports the reset
\* instead.  What was read counts, and goes with the client: EndPoll drops both.
PollReadFails ==
  LET p == poll.ring[poll.at]
      f == flush_out(release_abandoned_replies(client[p]), wire[p], Gone(p))
      r == read_messages(f.client, MaxTotalMessages - poll.messages,
                         MaxTotalReadBytes - poll.bytes, stream[p], Eof(p))
  IN  /\ pc = "poll" /\ poll.lines = <<>>
      /\ poll.at <= Len(poll.ring) /\ BudgetLeft
      /\ f.error = "none"
      /\ Gone(p) /\ ~f.client.read_closed
      /\ r.client.read_closed /\ r.error # "overflow"
      /\ cursor' = NextInRing
      /\ client' = [client EXCEPT ![p] = f.client]
      /\ wire' = [wire EXCEPT ![p] = f.wire]
      /\ poll' = [poll EXCEPT !.at = @ + 1, !.bytes = @ + r.bytes,
                              !.dead = @ \cup Casualty(p, "failed")]
      /\ UNCHANGED <<peerVars, conn, armed, incoming, pc, events>>

\* The oldest frame the read returned does not parse: it is answered with an
\* error, now or in its turn.
RejectFrame ==
  LET p == poll.ring[poll.at]
      f == Head(poll.lines)
      r == reject_frame(client[p], f.n, wire[p], Gone(p))
  IN  /\ pc = "poll" /\ poll.lines # <<>>
      /\ f.kind = "malformed"
      /\ Serve(p, r.client, Tail(poll.lines))
      /\ wire' = [wire EXCEPT ![p] = r.wire]
      /\ poll' = WithLines(Tail(poll.lines))
      /\ UNCHANGED <<peerVars, conn, cursor, armed, incoming, pc, events>>

\* The oldest frame the read returned is valid: it goes to the caller.
DeliverFrame ==
  LET p == poll.ring[poll.at]
      f == Head(poll.lines)
  IN  /\ pc = "poll" /\ poll.lines # <<>>
      /\ f.kind # "malformed"
      /\ Serve(p, [client[p] EXCEPT !.delivered = @ + 1], Tail(poll.lines))
      /\ incoming' = Append(incoming, [peer |-> p, frame |-> f])
      /\ poll' = WithLines(Tail(poll.lines))
      /\ UNCHANGED <<peerVars, wire, conn, cursor, armed, pc, events>>

\* clients.remove for the connections of "why", a function to the reason.
RemoveClients(why) ==
  /\ conn' = [p \in Peers |-> IF p \in DOMAIN why THEN why[p] ELSE conn[p]]
  /\ stream' = [p \in Peers |-> IF p \in DOMAIN why THEN <<>> ELSE stream[p]]

\* arm_continuation when a client still holds a frame in userspace.
arm_continuation(clients) == armed \/ \E c \in clients : has_buffered_frame(c)

\* The tail of poll_clients: remove the dead, publish buffered work.
EndPoll ==
  LET dead == [p \in {d.peer : d \in poll.dead} |->
                 (CHOOSE d \in poll.dead : d.peer = p).why]
      kept == Open \ DOMAIN dead
  IN  /\ pc = "poll"
      /\ poll.lines = <<>>
      /\ poll.at > Len(poll.ring) \/ ~BudgetLeft
      /\ RemoveClients(dead)
      /\ client' = [p \in Peers |-> IF p \in DOMAIN dead THEN NewClient ELSE client[p]]
      /\ armed' = arm_continuation({client[p] : p \in kept})
      /\ poll' = [NoPoll EXCEPT !.skipped =
                    IF poll.at <= Len(poll.ring) THEN poll.ring[poll.at] ELSE 0]
      /\ pc' = IF incoming = <<>> THEN "idle" ELSE "respond"
      /\ UNCHANGED <<peer, received, frames, run, longest, written, wire, cursor,
                     incoming, events>>

\* The handler's answer to the oldest returned message; a subscription is
\* stored before it is acknowledged.
Respond ==
  LET m == Head(incoming)
      p == m.peer
      c == [client[p] EXCEPT !.subscribed = @ \/ m.frame.kind = "subscribe"]
      s == send_response(c, m.frame.n, wire[p], Gone(p))
      dead == s.error # "none"
  IN  /\ pc = "respond"
      /\ incoming' = Tail(incoming)
      /\ pc' = IF Tail(incoming) = <<>> THEN "idle" ELSE "respond"
      /\ IF p \notin Open
           THEN UNCHANGED <<conn, stream, client, wire>>
           ELSE /\ RemoveClients([q \in {x \in {p} : dead} |-> s.error])
                /\ client' = [client EXCEPT ![p] =
                     IF dead THEN NewClient ELSE sync_client_interest(s.client)]
                /\ wire' = [wire EXCEPT ![p] = s.wire]
      /\ UNCHANGED <<peer, received, frames, run, longest, written, cursor, armed,
                     poll, events>>

\* broadcast: an event of the window manager to every subscriber, from a
\* handler or between ticks.
Broadcast ==
  LET to   == {p \in Open : client[p].subscribed}
      s    == [p \in to |-> send_event(client[p], wire[p], Gone(p))]
      dead == {p \in to : s[p].error # "none"}
  IN  /\ pc \in {"idle", "respond"}
      /\ events < MaxEvents
      /\ to # {}
      /\ events' = events + 1
      /\ RemoveClients([p \in dead |-> s[p].error])
      /\ client' = [p \in Peers |->
                      CASE p \in dead -> NewClient
                        [] p \in to \ dead -> sync_client_interest(s[p].client)
                        [] OTHER -> client[p]]
      /\ wire' = [p \in Peers |-> IF p \in to THEN s[p].wire ELSE wire[p]]
      /\ UNCHANGED <<peer, received, frames, run, longest, written, cursor, armed,
                     poll, incoming, pc>>

-----------------------------------------------------------------------------
PeerNext ==
  \E p \in Peers :
    \/ Connect(p) \/ EndLine(p) \/ HalfClose(p) \/ HangUp(p) \/ Receive(p)
    \/ \E kind \in Sends[p] : BeginFrame(p, kind) \/ ExtendFrame(p, kind)
PollStep == \/ PollUnflushable \/ PollClient \/ PollReadFails
            \/ RejectFrame \/ DeliverFrame \/ EndPoll
ServerNext == Wake \/ Tick \/ PollStep \/ Respond \/ Broadcast

Next == PeerNext \/ ServerNext

Spec == Init /\ [][Next]_vars

\* The event loop is woken while the hub is ready and runs its tick to the
\* end; peers keep reading.  Nothing else has to happen.  The server's two
\* conjuncts are weak fairness with the enabling condition written out (the
\* guard of each action: its other conjuncts only compute the next state),
\* which spares TLC the evaluation of ENABLED on a whole poll.
Fairness ==
  /\ []<>~(pc = "idle" /\ Ready) \/ []<><<Wake>>_vars
  /\ []<>(pc = "idle") \/ []<><<PollStep \/ Respond>>_vars
  /\ \A p \in Peers : WF_vars(Receive(p))

FairSpec == Spec /\ Fairness

-----------------------------------------------------------------------------
(* Properties *)

\* Every variable has its type; the scan position stays inside the buffer, no
\* newline lies before it, and answered replies never pass delivered frames.
TypeOK ==
  /\ peer \in [Peers -> PeerState] /\ conn \in [Peers -> ConnState]
  /\ \A p \in Peers :
       /\ stream[p] \in Seq(Token) /\ wire[p] \in Seq(Nat) /\ received[p] \in Seq(Nat)
       /\ written[p] \in 0..MaxTokens[p]
       /\ run[p] <= longest[p] /\ frames[p] + run[p] <= written[p] + 1
       /\ client[p] \in ClientType
       /\ client[p].scan <= Len(client[p].buf)
       /\ \A i \in 1..client[p].scan : client[p].buf[i] # Newline
       /\ client[p].answered <= client[p].delivered
  /\ cursor \in Peers /\ armed \in BOOLEAN /\ events \in 0..MaxEvents
  /\ pc \in {"idle", "poll", "respond"}
  /\ pc = "respond" <=> (pc # "poll" /\ incoming # <<>>)
  /\ Cardinality(Open) <= MaxClients

\* Everything the server ever said to p, in the order p sees it, and the
\* frames of p that have their reply in it.
Sent(p) == received[p] \o wire[p] \o client[p].out
Answered(p) == {Sent(p)[i] : i \in DOMAIN Sent(p)} \ {Event}

\* The protocol has no correlation id: the i-th reply a peer gets is the reply
\* to its i-th frame, parse errors and the events in between notwithstanding
\* (reject_frame, queue_due_parse_errors, send_response).
RepliesInFrameOrder ==
  \A p \in Peers : ~Gone(p) =>
    /\ Answered(p) = 1..Cardinality(Answered(p))
    /\ \A i, j \in DOMAIN Sent(p) :
         i < j /\ Event \notin {Sent(p)[i], Sent(p)[j]} => Sent(p)[i] < Sent(p)[j]

\* Frames of p that were read and wait to be parsed, that the caller holds, or
\* whose parse error waits its turn.
Lines(p) == IF poll.lines = <<>> \/ poll.ring[poll.at] # p THEN <<>> ELSE poll.lines
Outstanding(p) ==
  {Lines(p)[i].n : i \in DOMAIN Lines(p)}
    \cup {incoming[i].frame.n : i \in {j \in DOMAIN incoming : incoming[j].peer = p}}
    \cup {client[p].deferred[i].n : i \in DOMAIN client[p].deferred}

\* Frames of p of which some byte is buffered or still in the socket.
Unread(p) ==
  LET s == client[p].buf \o stream[p]
  IN  {s[i].n : i \in DOMAIN s} \ {Newline.n}

\* No frame of a connected peer is dropped or taken twice, whatever the
\* budgets cut a poll to: answered, outstanding and unread frames follow each
\* other without gap or overlap (take_complete_messages, read_messages).
NoFrameLost ==
  \A p \in Open :
    ~Gone(p) /\ (\A d \in poll.dead : d.peer # p) =>
      LET k == Cardinality(Answered(p))
          o == k + Cardinality(Outstanding(p))
      IN  /\ Outstanding(p) = (k + 1)..o
          /\ Unread(p) = (o + 1)..frames[p]

\* A client that only stopped writing is retired after every frame it sent,
\* the unterminated last one included, has a reply on its way.
RetiredAfterReplies ==
  \A p \in Peers :
    conn[p] = "retired" /\ ~Gone(p) => Answered(p) = 1..frames[p]

\* The event loop never goes to sleep on a frame it holds in userspace, where
\* the kernel's readiness cannot see it.
NeverSleepsOnFrames ==
  pc # "poll" =>
    \A p \in Open :
      LET b == client[p].buf
      IN  (\/ \E i \in 2..Len(b) : b[i] = Newline /\ b[i - 1] # Newline
           \/ client[p].read_closed /\ b # <<>>) => armed

\* The other side of it: when a descriptor of the hub is ready, a poll has
\* something to do, so a level-triggered loop does not spin (the end-of-stream
\* of a peer that is slow to read its last replies must not count).
ReadyMeansWork ==
  pc = "idle" /\ LevelReady =>
    \E p \in Peers :
      \/ conn[p] = "pending"
      \/ p \in Open /\ Gone(p)
      \/ p \in Open /\ stream[p] # <<>>
      \/ p \in Open /\ client[p].out # <<>> /\ Len(wire[p]) < SocketSpace
      \/ p \in Open /\ Eof(p) /\ (client[p].out = <<>> \/ ~client[p].read_closed)

\* A client is dropped for its input only if one of its frames is too long:
\* pipelining any number of short frames never trips MAX_CLIENT_BUF.
OnlyLongFramesOverflow ==
  \A p \in Peers :
    conn[p] = "overflowed" => longest[p] > MaxClientBuf - MaxReadBytesPerPoll

\* Round robin: the client at which a poll ran out of budget is the first one
\* the next poll serves, whoever disconnected or was accepted in between, so
\* no flood of messages makes a client wait for more than one pass.
SkippedGoesFirst ==
  [][pc = "idle" /\ pc' = "poll" /\ poll.skipped \in Open
       => poll'.ring[1] = poll.skipped]_vars

\* Frames of p that are complete: ended by a newline or by the end of stream.
Complete(p) == IF run[p] > 0 /\ peer[p] = "up" THEN frames[p] - 1 ELSE frames[p]

\* Every complete frame is answered, however the other clients flood the
\* server and however slowly the peer reads, unless the peer hangs up or a
\* limit removes it.
EveryFrameAnswered ==
  \A p \in Peers : \A n \in 1..((MaxTokens[p] + 1) \div 2) :
    n <= Complete(p) ~> (\/ \E i \in DOMAIN received[p] : received[p][i] = n
                         \/ Gone(p)
                         \/ conn[p] \in {"refused", "overflowed", "backlogged"})

\* A half-closed client does not keep its place among MAX_CLIENTS for ever.
HalfClosedRetired ==
  \A p \in Peers : peer[p] = "half" ~> conn[p] \notin {"pending", "open"}

=============================================================================
