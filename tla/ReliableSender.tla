--------------------------- MODULE ReliableSender ---------------------------
(***************************************************************************)
(* One connection of the ReliableSender (network/src/reliable_sender.rs)   *)
(* and the TCP stream to its peer, as operators on a record c:             *)
(*                                                                         *)
(*   channel   messages the owner handed over, not taken yet               *)
(*   buffer    messages to transmit, again or for the first time           *)
(*   pending   pending_replies: transmitted, not acknowledged              *)
(*   up        whether keep_alive is running                               *)
(*   wire      frames on the stream that the peer has not read             *)
(*   acks      acknowledgements on their way back: the frames read         *)
(*   received  every message the peer has read so far                      *)
(*   resolved  messages whose cancel handler got an acknowledgement        *)
(*                                                                         *)
(* The peer answers every frame once and in order, and answers do not say  *)
(* which frame they are for: acks names it, the code never looks.  closed  *)
(* is the set of messages whose CancelHandler the owner dropped.           *)
(*                                                                         *)
(* Each definition gives the record after a step, or the condition for it. *)
(* The delay between two attempts to connect is left out.                  *)
(***************************************************************************)
EXTENDS Naturals, SequencesExt, Subsequences

NewConnection ==
    [channel |-> <<>>, buffer |-> <<>>, pending |-> <<>>, up |-> FALSE, wire |-> <<>>,
     acks |-> <<>>, received |-> {}, resolved |-> {}]

\* send()
Send(c, m) == [c EXCEPT !.channel = Append(@, m)]

\* A stream is established; Fail left it empty.
Connect(c) == [c EXCEPT !.up = TRUE]

\* No stream: the channel is drained, and the buffer loses what was cancelled.
CanDrain(c) == ~c.up /\ c.channel # <<>>
Drain(c, closed) ==
    LET buffered == Append(c.buffer, Head(c.channel)) IN
    [c EXCEPT !.channel = Tail(@), !.buffer = Keep(buffered, ToSet(buffered) \ closed)]

\* The inner loop of keep_alive: the head of the buffer is written, or skipped when it was
\* cancelled.
CanTransmit(c) == c.up /\ c.buffer # <<>>
Transmit(c, closed) ==
    LET m == Head(c.buffer) IN
    IF m \in closed THEN [c EXCEPT !.buffer = Tail(@)]
    ELSE [c EXCEPT !.buffer = Tail(@), !.pending = Append(@, m), !.wire = Append(@, m)]

\* select!: a new message.
CanFetch(c) == c.up /\ c.buffer = <<>> /\ c.channel # <<>>
Fetch(c) == [c EXCEPT !.channel = Tail(@), !.buffer = <<Head(c.channel)>>]

\* Fault seeded to test the properties: what was transmitted is not sent again.
FailForgetting(c, k) ==
    [c EXCEPT !.up = FALSE, !.pending = <<>>, !.wire = <<>>, !.acks = <<>>,
              !.received = @ \cup ToSet(SubSeq(c.wire, 1, k))]

\* Fault seeded to test the properties: answers of the broken stream are still taken.
FailKeepsAcks(c, k) ==
    [c EXCEPT !.up = FALSE, !.buffer = c.pending \o @, !.pending = <<>>, !.wire = <<>>,
              !.received = @ \cup ToSet(SubSeq(c.wire, 1, k))]

\* keep_alive returns: what is not acknowledged goes back to the front of the buffer, in
\* its order.  The peer still reads the first k frames of the stream; its answers go nowhere.
Fail(c, k) ==
    [c EXCEPT !.up = FALSE, !.buffer = c.pending \o @, !.pending = <<>>, !.wire = <<>>,
              !.acks = <<>>, !.received = @ \cup ToSet(SubSeq(c.wire, 1, k))]

\* select!: an acknowledgement is taken for the oldest pending message; without one it is
\* an error (UnexpectedAck).
CanTakeAck(c) == c.up /\ c.buffer = <<>> /\ c.acks # <<>>
TakeAck(c, closed) ==
    IF c.pending = <<>> THEN Fail(c, Len(c.wire))
    ELSE [c EXCEPT !.acks = Tail(@), !.pending = Tail(@),
                   !.resolved = IF Head(c.pending) \in closed THEN @
                                ELSE @ \cup {Head(c.pending)}]

\* The peer reads a frame of the stream, and answers it before it looks at it.
CanRead(c) == c.wire # <<>>
Read(c) ==
    [c EXCEPT !.wire = Tail(@), !.acks = Append(@, Head(c.wire)),
              !.received = @ \cup {Head(c.wire)}]
=============================================================================
