----------------------------- MODULE IpcClient -----------------------------
(***************************************************************************)
(* One connection of the window manager's IPC server (ipc_server.rs,       *)
(* IpcClient) as operators on a client record: framing of the input        *)
(* buffer, the pairing of replies with frames, and the output buffer.      *)
(*                                                                         *)
(* The byte stream is a sequence of tokens.  Newline ends a frame; every   *)
(* other token is one byte of the body of frame "n" of its connection, of  *)
(* the kind the JSON parser will find.  Tokens stand for bytes in every    *)
(* limit of the input side; the output side counts whole messages.         *)
(***************************************************************************)
EXTENDS Integers, Sequences, FiniteSets, FiniteSetsExt

CONSTANTS
  MaxClientBuf,         \* MAX_CLIENT_BUF, for unframed input (tokens)
  MaxClientOut,         \* MAX_CLIENT_BUF, for unsent output (messages)
  MaxMessagesPerPoll,   \* MAX_MESSAGES_PER_POLL
  MaxReadBytesPerPoll,  \* MAX_READ_BYTES_PER_POLL
  SocketSpace           \* messages the kernel holds for a peer that is not reading

\* read_messages takes at least one frame and one byte, and the chunk it may
\* read in one poll fits the buffer with room for an unfinished frame.
ASSUME LimitsAssumption ==
  /\ {MaxMessagesPerPoll, MaxReadBytesPerPoll, SocketSpace} \subseteq Nat \ {0}
  /\ MaxClientOut \in Nat
  /\ MaxClientBuf \in Nat /\ MaxClientBuf > MaxReadBytesPerPoll

Kind == {"request", "subscribe", "malformed"}
Newline == [n |-> 0, kind |-> "newline"]
Body(n, kind) == [n |-> n, kind |-> kind]
Frame == [n : Nat, kind : Kind]
Token == {Newline} \cup Frame

\* A message to the peer: the reply to frame n, or an event.
Event == 0

\* IpcClient::new.  "buf" is the unconsumed input (from buf_start on) and
\* "scan" how much of it was searched for a newline (scan_pos - buf_start).
NewClient == [buf |-> <<>>, scan |-> 0, out |-> <<>>, read_closed |-> FALSE,
              subscribed |-> FALSE, writable |-> FALSE, readable |-> TRUE,
              delivered |-> 0, answered |-> 0, deferred |-> <<>>]

ClientType == [buf : Seq(Token), scan : Nat, out : Seq(Nat), read_closed : BOOLEAN,
               subscribed : BOOLEAN, writable : BOOLEAN, readable : BOOLEAN,
               delivered : Nat, answered : Nat, deferred : Seq([due : Nat, n : Nat])]

-----------------------------------------------------------------------------
(* Framing *)

\* Positions of the newlines the scan has not passed, and of those that end a
\* non-empty line.
Newlines(c) == {i \in (c.scan + 1)..Len(c.buf) : c.buf[i] = Newline}
FrameEnds(c) == {i \in Newlines(c) : i > 1 /\ c.buf[i - 1] # Newline}

\* The n-th smallest element of a set of positions.
Nth(S, n) == CHOOSE e \in S : Cardinality({x \in S : x <= e}) = n

\* Mutant: the scan position is not moved back with the consumed prefix.
ConsumeKeepingScan(c, k, scanned) ==
  [c EXCEPT !.buf = SubSeq(@, k + 1, Len(@)), !.scan = Min({scanned, Len(c.buf) - k})]

\* Drop the first k tokens; "scanned" counts from the old start.
Consume(c, k, scanned) ==
  [c EXCEPT !.buf = SubSeq(@, k + 1, Len(@)), !.scan = scanned - k]

\* Mutant: the message limit throws away the rest of the buffer.
take_messages_and_clear(c, limit) ==
  LET ends   == FrameEnds(c)
      k      == Min({limit, Cardinality(ends)})
  IN  [frames |-> [i \in 1..k |-> c.buf[Nth(ends, i) - 1]],
       client |-> IF limit > 0 /\ k = limit
                    THEN Consume(c, Len(c.buf), Len(c.buf))
                    ELSE Consume(c, Max({0} \cup Newlines(c)), Len(c.buf))]

\* Up to "limit" complete frames, and the client without them.
take_complete_messages(c, limit) ==
  LET ends  == FrameEnds(c)
      taken == IF Cardinality(ends) >= limit
                 THEN {e \in ends : e <= Nth(ends, limit)} ELSE ends
      frames == [i \in 1..Cardinality(taken) |-> c.buf[Nth(taken, i) - 1]]
  IN  CASE limit = 0 -> [frames |-> <<>>, client |-> c]
        [] limit > 0 /\ Cardinality(ends) >= limit ->
             [frames |-> frames,
              client |-> Consume(c, Nth(ends, limit), Nth(ends, limit))]
        [] OTHER ->
             [frames |-> frames,
              client |-> Consume(c, Max({0} \cup Newlines(c)), Len(c.buf))]

\* After end-of-stream what is left behind the last newline is a frame too.
take_unterminated_final_frame(c, limit, frames) ==
  IF ~c.read_closed \/ Len(frames) >= limit \/ c.buf = <<>>
    THEN [frames |-> frames, client |-> c]
    ELSE [frames |-> Append(frames, c.buf[Len(c.buf)]),
          client |-> Consume(c, Len(c.buf), Len(c.buf))]

\* Mutant: one client may use up the whole read budget of the poll.
whole_read_budget(budget) == budget

\* The bytes one client may be read in one poll.
read_byte_limit(budget) == Min({budget, MaxReadBytesPerPoll})

\* Read from a socket that holds the tokens "socket", with "eof" behind them
\* once the peer stopped writing.  Frames that were already buffered go first;
\* with as many of them as the limit allows, nothing is read.
read_messages(c, message_budget, read_byte_budget, socket, eof) ==
  LET limit == Min({message_budget, MaxMessagesPerPoll})
      bytes == read_byte_limit(read_byte_budget)
      first == take_complete_messages(c, limit)
      n     == Min({bytes, Len(socket)})
      read  == [first.client EXCEPT
                  !.buf = @ \o SubSeq(socket, 1, n),
                  !.read_closed = @ \/ (eof /\ n < bytes)]
      more  == take_complete_messages(read, limit - Len(first.frames))
      Done(taken, k) ==
        LET last == take_unterminated_final_frame(taken.client, limit, taken.frames)
        IN  [client |-> last.client, frames |-> last.frames, bytes |-> k,
             error |-> IF last.frames = <<>> /\ last.client.read_closed
                         THEN "eof" ELSE "none"]
  IN  CASE Len(first.frames) = limit ->
             [client |-> first.client, frames |-> first.frames, bytes |-> 0,
              error |-> "none"]
        [] Len(first.frames) < limit /\ first.client.read_closed -> Done(first, 0)
        [] Len(first.frames) < limit /\ ~first.client.read_closed
             /\ Len(read.buf) > MaxClientBuf ->
             [client |-> read, frames |-> <<>>, bytes |-> n, error |-> "overflow"]
        [] OTHER -> Done([more EXCEPT !.frames = first.frames \o @], n)

\* Userspace work the kernel's readiness says nothing about.
has_buffered_frame(c) ==
  (c.read_closed /\ c.buf # <<>>) \/ Newlines(c) # {}

-----------------------------------------------------------------------------
(* Output: "wire" is what the kernel holds for the peer, "gone" that the     *)
(* peer closed its socket, so that a write fails.                            *)

has_pending_output(c) == c.out # <<>>

flush_out(c, wire, gone) ==
  LET n    == Min({SocketSpace - Len(wire), Len(c.out)})
      rest == SubSeq(c.out, n + 1, Len(c.out))
  IN  IF gone /\ c.out # <<>>
        THEN [client |-> c, wire |-> wire, error |-> "failed"]
        ELSE [client |-> [c EXCEPT !.out = rest],
              wire |-> wire \o SubSeq(c.out, 1, n),
              error |-> IF Len(rest) > MaxClientOut THEN "backlogged" ELSE "none"]

queue(c, message) == [c EXCEPT !.out = Append(@, message)]

\* The deferred parse errors whose earlier frames all have their replies.
queue_due_parse_errors(c) ==
  LET due == {i \in 1..Len(c.deferred) :
                \A j \in 1..i : c.deferred[j].due <= c.answered}
      k   == Cardinality(due)
  IN  [c EXCEPT !.out = @ \o [i \in 1..k |-> c.deferred[i].n],
                !.deferred = SubSeq(@, k + 1, Len(@))]

\* The caller's reply to frame n, and the parse errors that waited for it.
send_response(c, n, wire, gone) ==
  flush_out(queue_due_parse_errors(
              queue([c EXCEPT !.answered = Min({@ + 1, c.delivered})], n)),
            wire, gone)

\* Mutant: a parse error is answered at once, ahead of unanswered frames.
reject_frame_at_once(c, n, wire, gone) == flush_out(queue(c, n), wire, gone)

\* A parse error goes out at once only when no earlier frame awaits its reply.
\* The caller ignores the error of this flush.
reject_frame(c, n, wire, gone) ==
  IF c.answered = c.delivered /\ c.deferred = <<>>
    THEN flush_out(queue(c, n), wire, gone)
    ELSE [client |-> [c EXCEPT !.deferred = Append(@, [due |-> c.delivered, n |-> n])],
          wire |-> wire, error |-> "none"]

release_abandoned_replies(c) ==
  IF c.deferred = <<>> THEN c
    ELSE queue_due_parse_errors([c EXCEPT !.answered = c.delivered])

send_event(c, wire, gone) == flush_out(queue(c, Event), wire, gone)

-----------------------------------------------------------------------------
(* Interest in the readiness hub *)

\* Mutant: read interest is kept for as long as the client lives.
sync_writable_interest(c) ==
  [c EXCEPT !.writable = has_pending_output(c), !.readable = TRUE]

\* Mutant: read interest is not restored once the output is gone.
sync_until_closed(c) ==
  [c EXCEPT !.writable = has_pending_output(c), !.readable = ~c.read_closed]

\* Mutant: writability is never listened for.
sync_readable_interest(c) ==
  [c EXCEPT !.readable = ~(c.read_closed /\ has_pending_output(c))]

\* While the last replies to a half-closed peer drain, its end-of-stream is
\* not listened for: it would stay ready and spin the loop.
sync_client_interest(c) ==
  [c EXCEPT !.writable = has_pending_output(c),
            !.readable = ~(c.read_closed /\ has_pending_output(c))]

=============================================================================
