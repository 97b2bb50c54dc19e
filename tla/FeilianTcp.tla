----------------------------- MODULE FeilianTcp -----------------------------
(***************************************************************************)
(* The FeiLian TCP transport of crates/tunnel/src/transport.rs: WireGuard  *)
(* packets as length-prefixed frames on a TCP connection that is dialled   *)
(* when a packet needs it.  One tcp_pair is modelled; the pairs of the two *)
(* address families share nothing.                                         *)
(*                                                                         *)
(* The tasks of the WireGuard device call send_to concurrently and share   *)
(* one writer behind an async mutex; every connection ever dialled has a   *)
(* reader task of its own, and they all feed one bounded channel.  A       *)
(* stream of bytes is a sequence of pieces: the four bytes of a length, or *)
(* the bytes of a payload.  The server and the network are external.       *)
(***************************************************************************)
EXTENDS Naturals, Sequences

CONSTANTS
    Senders,        \* tasks of the device that call send_to
    Destinations,   \* endpoints of the peer
    MaxFrame,       \* MAX_FEILIAN_TCP_FRAME
    Capacity,       \* of the channel of received packets
    SendBuffer,     \* bound: pieces the kernel buffers for a connection
    MaxConns,       \* bound: connections
    MaxPackets,     \* bound: packets of both sides together
    Peers           \* bound: endpoints that the n-th of them may be sent to

ASSUME FeilianTcpAssumption ==
    /\ {MaxFrame, Capacity, SendBuffer} \subseteq Nat \ {0}
    /\ {MaxConns, MaxPackets} \subseteq Nat
    /\ Peers \in [1 .. MaxPackets -> SUBSET Destinations]
    /\ 0 \notin Senders

Conns    == 1 .. MaxConns
None     == 0
Lengths  == 0 .. MaxFrame + 1
Packet   == [id : 1 .. MaxPackets, peer : Destinations, len : Lengths]
Header(p)  == [kind |-> "len", n |-> p.len, of |-> p]
Payload(p) == [kind |-> "body", n |-> p.len, of |-> p]
Piece    == [kind : {"len", "body"}, n : Lengths, of : Packet]

VARIABLES
    running,    \* the device runs; its stop drops both halves of the pair
    pc, job,    \* per sender: where it is in send_to, and its packet
    lock,       \* holder of the mutex around the writer
    writer,     \* the connection in TcpWriterState, or None
    conns,      \* connections dialled so far
    dest,       \* destination of each
    up, down,   \* pieces on the way, per connection and direction
    upEnd,      \* the write half was dropped
    downEnd,    \* the server closed
    broken,     \* connections that were reset
    server,     \* header the server has read and awaits the payload of
    reader,     \* state of the reader task of each connection
    frame,      \* what it has read
    incoming,   \* the mpsc channel
    packets,    \* made so far, by either side
    sent, arrived,       \* observers: client to server
    replied, received    \* observers: server to client

client    == <<running, pc, job, lock, writer>>
network   == <<conns, dest, up, down, upEnd, downEnd, broken>>
readers   == <<reader, frame, incoming>>
observers == <<sent, arrived, replied, received>>
vars      == <<client, network, readers, server, packets, observers>>

NoPacket == [id |-> 0]
NoPiece  == [kind |-> "none"]

TypeOK ==
    /\ running \in BOOLEAN
    /\ pc \in [Senders -> {"idle", "lock", "dial", "header", "payload"}]
    /\ job \in [Senders -> Packet \cup {NoPacket}]
    /\ lock \in Senders \cup {None}
    /\ writer \in Conns \cup {None}
    /\ conns \in 0 .. MaxConns
    /\ dest \in [Conns -> Destinations \cup {None}]
    /\ up \in [Conns -> Seq(Piece)] /\ down \in [Conns -> Seq(Piece)]
    /\ {upEnd, downEnd, broken} \subseteq SUBSET Conns
    /\ server \in [Conns -> Piece \cup {NoPiece}]
    /\ reader \in [Conns -> {"none", "header", "payload", "forward", "stopped"}]
    /\ frame \in [Conns -> Piece \cup {NoPiece}]
    /\ incoming \in Seq(Packet) /\ Len(incoming) <= Capacity
    /\ packets \in 0 .. MaxPackets

Init ==
    /\ running = TRUE
    /\ pc = [s \in Senders |-> "idle"] /\ job = [s \in Senders |-> NoPacket]
    /\ lock = None /\ writer = None
    /\ conns = 0 /\ dest = [c \in Conns |-> None]
    /\ up = [c \in Conns |-> <<>>] /\ down = [c \in Conns |-> <<>>]
    /\ upEnd = {} /\ downEnd = {} /\ broken = {}
    /\ server = [c \in Conns |-> NoPiece]
    /\ reader = [c \in Conns |-> "none"] /\ frame = [c \in Conns |-> NoPiece]
    /\ incoming = <<>>
    /\ packets = 0
    /\ sent = {} /\ arrived = <<>> /\ replied = {} /\ received = <<>>

-----------------------------------------------------------------------------
(* FeilianTcpSend::send_to                                                 *)

\* The filter on the length of a frame, of both directions.
Framed(n) == n # 0 /\ n <= MaxFrame

Goto(s, place) == pc' = [pc EXCEPT ![s] = place]

\* Return from the call; the guard of the mutex goes out of scope.
Return(s) == /\ Goto(s, "idle")
             /\ job' = [job EXCEPT ![s] = NoPacket]
             /\ lock' = None

\* A packet that cannot be framed is refused before the mutex is taken.
send_to(s, d, n) ==
    /\ running /\ pc[s] = "idle"
    /\ LET p == [id |-> packets + 1, peer |-> d, len |-> n] IN
       \/ ~Framed(n) /\ UNCHANGED <<pc, job, packets, sent>>
       \/ /\ Framed(n)
          /\ packets' = packets + 1
          /\ Goto(s, "lock")
          /\ job' = [job EXCEPT ![s] = p]
          /\ sent' = sent \cup {p}
    /\ UNCHANGED <<running, lock, writer, network, readers, server, arrived,
                   replied, received>>

\* should_connect: there is no writer, or it leads elsewhere.
should_connect(s) == writer = None \/ dest[writer] # job[s].peer

Lock(s) ==
    /\ pc[s] = "lock" /\ lock = None
    /\ lock' = s
    /\ Goto(s, IF should_connect(s) THEN "dial" ELSE "header")
    /\ UNCHANGED <<running, job, writer, network, readers, server, packets, observers>>

\* The old writer, if any, is dropped when the new one takes its place; the
\* reader of the old connection goes on.
Dial(s) ==
    /\ pc[s] = "dial" /\ conns < MaxConns
    /\ conns' = conns + 1
    /\ dest' = [dest EXCEPT ![conns'] = job[s].peer]
    /\ reader' = [reader EXCEPT ![conns'] = "header"]
    /\ writer' = conns'
    /\ upEnd' = upEnd \cup ({writer} \ {None})
    /\ Goto(s, "header")
    /\ UNCHANGED <<running, job, lock, up, down, downEnd, broken, frame, incoming, server,
                   packets, observers>>

\* A dial that waits for the peer as long as it takes.
DialFails_Never(s) == FALSE

\* Refused, or out of the connect timeout: the call fails, the writer stays.
DialFails(s) ==
    /\ pc[s] = "dial"
    /\ Return(s)
    /\ UNCHANGED <<running, writer, network, readers, server, packets, observers>>

Writable == writer \in Conns \ broken /\ Len(up[writer]) < SendBuffer

WriteHeader(s) ==
    /\ pc[s] = "header" /\ Writable
    /\ up' = [up EXCEPT ![writer] = Append(@, Header(job[s]))]
    /\ Goto(s, "payload")
    /\ UNCHANGED <<running, job, lock, writer, conns, dest, down, upEnd, downEnd, broken,
                   readers, server, packets, observers>>

WritePayload(s) ==
    /\ pc[s] = "payload" /\ Writable
    /\ up' = [up EXCEPT ![writer] = Append(@, Payload(job[s]))]
    /\ Return(s)
    /\ UNCHANGED <<running, writer, conns, dest, down, upEnd, downEnd, broken, readers,
                   server, packets, observers>>

\* Mutant: the writer is kept.
WriteFails_KeepsWriter(s) ==
    /\ pc[s] \in {"header", "payload"}
    /\ Return(s)
    /\ UNCHANGED <<running, writer, network, readers, server, packets, observers>>

\* An error of either write, on a connection that is broken or on one that
\* would take the next write (the kernel is out of buffers): the writer is
\* dropped so that the next packet dials again.  This packet is lost, and its
\* header may be on the stream.
WriteFails(s) ==
    /\ pc[s] \in {"header", "payload"}
    /\ writer' = None
    /\ upEnd' = upEnd \cup {writer}
    /\ Return(s)
    /\ UNCHANGED <<running, conns, dest, up, down, downEnd, broken, readers, server, packets,
                   observers>>

-----------------------------------------------------------------------------
(* read_feilian_tcp_frames, one task per connection, and recv_from         *)

SetReader(c, state, piece) == /\ reader' = [reader EXCEPT ![c] = state]
                              /\ frame' = [frame EXCEPT ![c] = piece]

\* read_exact of the length; a length outside of the bounds ends the task.
ReadHeader(c) ==
    /\ reader[c] = "header" /\ down[c] # <<>>
    /\ down' = [down EXCEPT ![c] = Tail(@)]
    /\ IF Framed(Head(down[c]).n) THEN SetReader(c, "payload", Head(down[c]))
                                  ELSE SetReader(c, "stopped", NoPiece)
    /\ UNCHANGED <<client, conns, dest, up, upEnd, downEnd, broken, incoming, server, packets,
                   observers>>

ReadPayload(c) ==
    /\ reader[c] = "payload" /\ down[c] # <<>>
    /\ down' = [down EXCEPT ![c] = Tail(@)]
    /\ SetReader(c, "forward", Head(down[c]))
    /\ UNCHANGED <<client, conns, dest, up, upEnd, downEnd, broken, incoming, server, packets,
                   observers>>

AtEnd(c) == c \in broken \/ (c \in downEnd /\ down[c] = <<>>)

\* A read that is content with fewer bytes than the length says.
ReadFails_Partial(c) ==
    /\ reader[c] \in {"header", "payload"}
    /\ AtEnd(c)
    /\ SetReader(c, IF reader[c] = "payload" THEN "forward" ELSE "stopped", frame[c])
    /\ UNCHANGED <<client, network, incoming, server, packets, observers>>

ReadFails_Retries(c) ==
    /\ reader[c] \in {"header", "payload"}
    /\ AtEnd(c)
    /\ SetReader(c, "header", NoPiece)
    /\ UNCHANGED <<client, network, incoming, server, packets, observers>>

\* read_exact fails: the stream ended, in or between frames, or was reset.
ReadFails(c) ==
    /\ reader[c] \in {"header", "payload"}
    /\ AtEnd(c)
    /\ SetReader(c, "stopped", NoPiece)
    /\ UNCHANGED <<client, network, incoming, server, packets, observers>>

\* The bytes in the buffer of the reader: a packet once read_exact has them.
Content(piece) == IF piece.kind = "body" THEN piece.of ELSE piece

\* incoming.send: waits for room, fails once the receiver is gone.
Forward(c) ==
    /\ reader[c] = "forward"
    /\ \/ /\ running /\ Len(incoming) < Capacity
          /\ incoming' = Append(incoming, Content(frame[c]))
          /\ SetReader(c, "header", NoPiece)
       \/ /\ ~running
          /\ SetReader(c, "stopped", NoPiece)
          /\ UNCHANGED incoming
    /\ UNCHANGED <<client, network, server, packets, observers>>

recv_from ==
    /\ running /\ incoming # <<>>
    /\ incoming' = Tail(incoming)
    /\ received' = Append(received, Head(incoming))
    /\ UNCHANGED <<client, network, reader, frame, server, packets, sent, arrived,
                   replied>>

\* The device is stopped: its tasks go and with them the two halves.
Stop ==
    /\ running
    /\ running' = FALSE
    /\ pc' = [s \in Senders |-> "idle"] /\ job' = [s \in Senders |-> NoPacket]
    /\ lock' = None /\ writer' = None
    /\ upEnd' = upEnd \cup ({writer} \ {None})
    /\ incoming' = <<>>
    /\ UNCHANGED <<conns, dest, up, down, downEnd, broken, reader, frame, server, packets,
                   observers>>

-----------------------------------------------------------------------------
(* The server and the network                                              *)

\* The server reads a length and then that many bytes, whatever they are.
ServerReads(c) ==
    /\ up[c] # <<>>
    /\ up' = [up EXCEPT ![c] = Tail(@)]
    /\ LET piece == Head(up[c]) IN
       IF server[c] = NoPiece
       THEN server' = [server EXCEPT ![c] = piece] /\ UNCHANGED arrived
       ELSE /\ server' = [server EXCEPT ![c] = NoPiece]
            /\ arrived' = Append(arrived, [head |-> server[c], body |-> piece, at |-> dest[c]])
    /\ UNCHANGED <<client, conns, dest, down, upEnd, downEnd, broken, readers, packets,
                   sent, replied, received>>

\* What happens to the read half of a connection concerns its reader only.
Read(c) == reader[c] \notin {"none", "stopped"}

\* It sends a frame, the header of one, or one that breaks the format.
ServerSends(c, n, pieces) ==
    /\ Read(c) /\ c \notin downEnd \cup broken /\ packets < MaxPackets
    /\ pieces = 2 \/ Framed(n)
    /\ packets' = packets + 1
    /\ LET p == [id |-> packets + 1, peer |-> dest[c], len |-> n] IN
       /\ down' = [down EXCEPT ![c] = @ \o SubSeq(<<Header(p), Payload(p)>>, 1, pieces)]
       /\ replied' = replied \cup {p}
       \* a frame that is cut short is the last thing on the stream
       /\ downEnd' = IF pieces = 2 THEN downEnd ELSE downEnd \cup {c}
    /\ UNCHANGED <<client, conns, dest, up, upEnd, broken, readers, server, sent,
                   arrived, received>>

ServerCloses(c) ==
    /\ Read(c) /\ c \notin downEnd
    /\ downEnd' = downEnd \cup {c}
    /\ UNCHANGED <<client, conns, dest, up, down, upEnd, broken, readers, server, packets,
                   observers>>

\* The connection is reset, or given up by the kernel after retransmissions
\* without an answer.  What was on the way may or may not be read.
Reset(c) ==
    /\ Read(c) \/ c = writer
    /\ c \notin broken
    /\ broken' = broken \cup {c}
    /\ UNCHANGED <<client, conns, dest, up, down, upEnd, downEnd, readers, server, packets,
                   observers>>

\* What a call of send_to comes to: a write on a broken connection fails.
SendStep(s) ==
    \/ Lock(s)
    \/ DialFails(s)
    \/ WriteHeader(s)
    \/ WritePayload(s)
    \/ writer \in broken /\ WriteFails(s)

ReaderStep(c) == ReadHeader(c) \/ ReadPayload(c) \/ ReadFails(c) \/ Forward(c)

Next ==
    \/ /\ packets < MaxPackets
       /\ \E s \in Senders, d \in Peers[packets + 1], n \in Lengths : send_to(s, d, n)
    \/ \E s \in Senders : SendStep(s) \/ Dial(s) \/ WriteFails(s)
    \/ \E c \in Conns : ReaderStep(c)
    \/ recv_from
    \/ Stop
    \/ \E c \in Conns : ServerReads(c) \/ ServerCloses(c) \/ Reset(c)
    \/ \E c \in Conns, n \in Lengths, k \in 1 .. 2 : ServerSends(c, n, k)

Spec == Init /\ [][Next]_vars

\* The tasks and the timer of a dial run; tokio's mutex serves its waiters in
\* turn.  Nothing is assumed of the peer that is dialled.  Of the network:
\* bytes that a connection holds are read or the connection breaks, and the
\* server closes a connection whose other end was closed.
FairSpec ==
    /\ Spec
    /\ \A s \in Senders : WF_vars(SendStep(s)) /\ SF_vars(Lock(s))
    /\ \A c \in Conns : /\ WF_vars(ReaderStep(c))
                        /\ WF_vars(up[c] # <<>> /\ (ServerReads(c) \/ Reset(c)))
                        /\ WF_vars(c \in upEnd /\ ServerCloses(c))

-----------------------------------------------------------------------------
(* Properties                                                              *)

\* What a read of a frame by the server at one of its addresses yields.
Unframe(a) ==
    IF a.head.kind = "len" /\ a.body = Payload(a.head.of) /\ a.at = a.head.of.peer
    THEN a.head.of ELSE a

Upward == INSTANCE DatagramChannel
            WITH Datagram <- Packet, delivered <- [i \in DOMAIN arrived |-> Unframe(arrived[i])]

Downward == INSTANCE DatagramChannel
              WITH Datagram <- Packet, sent <- replied, delivered <- received

\* The transport is a datagram transport: what the server reads at one of
\* its addresses is a packet that was sent to this address, whole, and no
\* packet twice: frames of concurrent senders do not mix, and a connection
\* that failed within a frame carries nothing after it (transport.rs 140-186).
ImplementsUpward == Upward!Spec

\* The same for recv_from, whatever the server does to the framing of the
\* stream and whichever connections end or are replaced meanwhile: a frame
\* that is cut short is never passed on (transport.rs 227-255).
ImplementsDownward == Downward!Spec

\* Every call of send_to returns, also when the peer does not answer the
\* dial, the buffer of the connection is full or another task holds the mutex.
SendReturns == \A s \in Senders : pc[s] # "idle" ~> pc[s] = "idle"

\* No reader outlives the device for good, nor the socket it holds: not the
\* ones of connections that were replaced, nor one blocked on a full channel.
ReadersEnd ==
    \A c \in Conns : ~running ~> reader[c] \in {"none", "stopped"}
=============================================================================
