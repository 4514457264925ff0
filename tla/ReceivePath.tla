----------------------------- MODULE ReceivePath -----------------------------
(***************************************************************************)
(* How the bytes of one connection become messages: BASocket::Recv posts   *)
(* the free space of a BANetworkBuffer to WSARecv, the completion advances *)
(* the buffer's chain of units, and BASession::OnRecv reads every complete *)
(* message out of it before the next receive is posted.  One thread at a   *)
(* time does all of this (RecvBufExclusive of BANetworkEngine).            *)
(*                                                                         *)
(* A byte is the number of its place in the peer's stream, so a byte that  *)
(* is lost, repeated or out of place shows.                                *)
(***************************************************************************)
EXTENDS Naturals, SequencesExt

CONSTANTS
    Capacity,     \* MAX_UNIT_BUFFER_SIZE + 1, bytes in a unit
    BufCount,     \* MAX_NETWORK_BUF_COUNT, units posted to WSARecv
    HeaderSize,   \* sizeof(DWORD), NetMessage::_size
    Sizes,        \* NetMessage::TotalSize of what a peer sends
    AddressSize,  \* what AcceptEx writes: two addresses and 16 bytes each
    MaxMessages,  \* bound: messages the peer sends
    None          \* a byte that is not of the stream

ASSUME CapacityAssumption == Capacity \in Nat /\ Capacity > 0
\* With a single unit, a full one would leave WSARecv no space at all.
ASSUME BufCountAssumption == BufCount \in Nat /\ BufCount > 1
ASSUME HeaderAssumption == HeaderSize \in Nat /\ HeaderSize > 0
ASSUME SizesAssumption == \A z \in Sizes : z \in Nat /\ z >= HeaderSize
ASSUME AddressAssumption == AddressSize \in 0 .. Capacity

VARIABLES
    sent,      \* sizes of the messages the peer has sent
    arrived,   \* bytes of the stream the kernel has put into the units
    buffer,    \* _recv_buf
    wsa,       \* the WSABUFs of the last Recv
    trans,     \* trans_byte of its completion
    pc,        \* where the connection is
    delivered  \* history: what EnqueueMsg was given

recvVars == <<sent, arrived, buffer, wsa, trans, pc, delivered>>

----------------------------------------------------------------------------
(* The buffer: the chain of units from _cur_read to _tail (the units before *)
(* _cur_read have been freed), the index of _cur_write in it, and _size.    *)

Unit == [buf  : [1 .. Capacity -> Nat \cup {None}],
         head : 0 .. Capacity,
         tail : 0 .. Capacity]

NewUnit == [buf |-> [i \in 1 .. Capacity |-> None], head |-> 0, tail |-> 0]

NewBuffer(n) == [units |-> [i \in 1 .. n |-> NewUnit], write |-> 1, size |-> 0]

Writeable(u) == Capacity - u.tail
Readable(u)  == u.tail - u.head

\* The bytes in the buffer, in the order Peek and Read come to them.
Content(b) == FlattenSeq([i \in 1 .. Len(b.units) |->
                 SubSeq(b.units[i].buf, b.units[i].head + 1, b.units[i].tail)])

\* The loops over the chain subtract from n what each unit can take or give.
\* What remains of n at each unit:
Remaining(room, n) ==
    LET r[i \in 1 .. Len(room)] == IF i = 1 THEN n ELSE r[i - 1] - room[i - 1]
    IN  r

\* The loop ends at the first unit that can take or give all that remains.
Ends(room, n) == {i \in 1 .. Len(room) : Remaining(room, n)[i] <= room[i]}
EndOf(room, n) == CHOOSE i \in Ends(room, n) : \A j \in Ends(room, n) : i <= j

\* What UpdateRecv's loop looks at: it gives up on reaching the last unit.
WriteRoom(b) ==
    [i \in 1 .. (IF b.write = Len(b.units) THEN 1 ELSE Len(b.units) - b.write)
       |-> Writeable(b.units[b.write + i - 1])]

UpdateRecvFits(b, n) == Ends(WriteRoom(b), n) # {}

\* Mutant: the units that were passed keep their tail.
UpdateRecvLeavesTail(b, n) ==
    LET end  == b.write + EndOf(WriteRoom(b), n) - 1
        last == Remaining(WriteRoom(b), n)[EndOf(WriteRoom(b), n)]
    IN [units |-> [b.units EXCEPT ![end].tail = @ + last],
        write |-> end,
        size  |-> b.size + n]

\* Mutant: the whole completion is booked on the unit it began in.
UpdateRecvOneUnit(b, n) ==
    [units |-> [b.units EXCEPT ![b.write].tail = @ + n],
     write |-> b.write,
     size  |-> b.size + n]

\* BANetworkBuffer::UpdateRecv, where it returns TRUE.
UpdateRecv(b, n) ==
    LET end  == b.write + EndOf(WriteRoom(b), n) - 1
        last == Remaining(WriteRoom(b), n)[EndOf(WriteRoom(b), n)]
    IN [units |-> [i \in 1 .. Len(b.units) |->
                     CASE i \in b.write .. end - 1 ->
                            [b.units[i] EXCEPT !.tail = Capacity]
                       [] i = end -> [b.units[i] EXCEPT !.tail = @ + last]
                       [] OTHER -> b.units[i]],
        write |-> end,
        size  |-> b.size + n]

\* Mutant: the off-by-one of UpdateSend.
ReadOneLess(b, n) ==
    LET held == [i \in 1 .. Len(b.units) |-> Readable(b.units[i])]
        end  == EndOf(held, n)
        rest == SubSeq(b.units, end, Len(b.units))
    IN [units |-> [rest EXCEPT ![1].head = @ + Remaining(held, n)[end] - 1],
        write |-> b.write - end + 1,
        size  |-> b.size - n]

\* BABufferContainer::Read, where it does not return -1.
Read(b, n) ==
    LET held == [i \in 1 .. Len(b.units) |-> Readable(b.units[i])]
        end  == EndOf(held, n)
        rest == SubSeq(b.units, end, Len(b.units))
    IN [units |-> [rest EXCEPT ![1].head = @ + Remaining(held, n)[end]],
        write |-> b.write - end + 1,
        size  |-> b.size - n]

\* What Read, and Peek, copy out.
FirstBytes(b, n) == SubSeq(Content(b), 1, n)

\* Mutant: a buffer that holds exactly the bytes asked for is not readable.
HoldsMore(b, n) == b.size > n

\* BABufferContainer::Readable.
Holds(b, n) == b.size >= n

\* Mutant: nodes are pushed although the chain has them already.
GrownAlways(b) ==
    [b EXCEPT !.units = @ \o [i \in 1 .. BufCount |-> NewUnit]]

\* Mutant: the last unit posted has no successor.
GrownNoSpare(b) ==
    [b EXCEPT !.units =
       @ \o [i \in 1 .. b.write + BufCount - 1 - Len(@) |-> NewUnit]]

\* GetRecvWsaBuf's PushNode calls: every unit it posts has a successor.
Grown(b) ==
    [b EXCEPT !.units = @ \o [i \in 1 .. b.write + BufCount - Len(@) |-> NewUnit]]

\* The WSABUFs it fills in: the free space of BufCount units.
WsaBufs(b) ==
    [i \in 1 .. BufCount |->
       [unit |-> b.write + i - 1,
        at   |-> b.units[b.write + i - 1].tail,
        len  |-> Writeable(b.units[b.write + i - 1])]]

----------------------------------------------------------------------------
(* The stream and its messages *)

\* Bytes sent before the m-th message.
Before(m) == LET b[i \in 1 .. m] == IF i = 1 THEN 0 ELSE b[i - 1] + sent[i - 1]
             IN  b[m]

StreamSize == Before(Len(sent) + 1)

\* The size a header says: of the m-th message if its bytes are the m-th
\* header, anything otherwise.
SizeIn(header) ==
    IF \E m \in 1 .. Len(sent) :
         header = [k \in 1 .. HeaderSize |-> Before(m) + k]
    THEN {sent[CHOOSE m \in 1 .. Len(sent) : header[1] = Before(m) + 1]}
    ELSE Sizes

----------------------------------------------------------------------------

\* A socket that was accepted: BASocket::Accept has made AcceptEx write the
\* addresses into the first unit, and GetRecvWsaBuf pushed a second one.  Or a
\* socket that was dialled.
Init ==
    /\ sent = << >> /\ arrived = 0
    /\ \/ pc = "accepted" /\ buffer = NewBuffer(2)
       \/ pc = "dialled" /\ buffer = NewBuffer(1)
    /\ wsa = << >> /\ trans = 0
    /\ delivered = << >>

\* BASocket::Recv.
Recv(b) ==
    /\ buffer' = Grown(b)
    /\ wsa' = WsaBufs(Grown(b))
    /\ pc' = "posted"

\* BASocket::OnAccept reads the addresses away and posts the first receive.
OnAccept ==
    /\ pc = "accepted"
    /\ Recv(Read(UpdateRecv(buffer, AddressSize), AddressSize))
    /\ UNCHANGED <<sent, arrived, trans, delivered>>

\* BASocket::OnConnect, with zero bytes.
OnConnect ==
    /\ pc = "dialled"
    /\ Recv(Read(UpdateRecv(buffer, 0), 0))
    /\ UNCHANGED <<sent, arrived, trans, delivered>>

\* The peer sends a message.
Send(z) ==
    /\ Len(sent) < MaxMessages
    /\ sent' = Append(sent, z)
    /\ UNCHANGED <<arrived, buffer, wsa, trans, pc, delivered>>

\* The bytes of unit u when the next bytes of the stream have come to the first
\* n of the places.
Written(u, places, n) ==
    [p \in 1 .. Capacity |->
       IF \E k \in 1 .. n : places[k] = <<u, p>>
       THEN arrived + (CHOOSE k \in 1 .. n : places[k] = <<u, p>>)
       ELSE buffer.units[u].buf[p]]

\* The kernel fills the WSABUFs from the first on with the next n bytes.
Complete(n) ==
    LET places == FlattenSeq([i \in 1 .. Len(wsa) |->
                    [k \in 1 .. wsa[i].len |-> <<wsa[i].unit, wsa[i].at + k>>]])
    IN
    /\ pc = "posted"
    /\ arrived + n <= StreamSize
    /\ n <= Len(places)
    /\ buffer' = [buffer EXCEPT !.units =
         [u \in 1 .. Len(@) |-> [@[u] EXCEPT !.buf = Written(u, places, n)]]]
    /\ arrived' = arrived + n
    /\ trans' = n
    /\ pc' = "completed"
    /\ UNCHANGED <<sent, wsa, delivered>>

\* The connection ends: a completion of zero bytes or with an error, and the
\* engine closes the socket.
HangUp ==
    /\ pc = "posted"
    /\ pc' = "closed"
    /\ UNCHANGED <<sent, arrived, buffer, wsa, trans, delivered>>

\* BASocket::OnRecv.  When UpdateRecv returns FALSE the socket is closed and
\* nobody looks at the buffer again.
OnRecv ==
    /\ pc = "completed"
    /\ IF UpdateRecvFits(buffer, trans)
       THEN buffer' = UpdateRecv(buffer, trans) /\ pc' = "parse"
       ELSE pc' = "overrun" /\ UNCHANGED buffer
    /\ UNCHANGED <<sent, arrived, wsa, trans, delivered>>

\* Mutant: one message per completion.
ParseOnce ==
    /\ pc = "parse"
    /\ Holds(buffer, HeaderSize)
    /\ \E z \in SizeIn(FirstBytes(buffer, HeaderSize)) :
         /\ Holds(buffer, z)
         /\ delivered' = Append(delivered, FirstBytes(buffer, z))
         /\ Recv(Read(buffer, z))
    /\ UNCHANGED <<sent, arrived, trans>>

\* One iteration of BASession::OnRecv's loop: Peek the size, Read the message,
\* EnqueueMsg.
Parse ==
    /\ pc = "parse"
    /\ Holds(buffer, HeaderSize)
    /\ \E z \in SizeIn(FirstBytes(buffer, HeaderSize)) :
         /\ Holds(buffer, z)
         /\ delivered' = Append(delivered, FirstBytes(buffer, z))
         /\ buffer' = Read(buffer, z)
    /\ UNCHANGED <<sent, arrived, wsa, trans, pc>>

\* Peek returns false or Read -1: the loop ends, and BASocket::OnRecv posts the
\* next receive.
ParseEnd ==
    /\ pc = "parse"
    /\ Holds(buffer, HeaderSize) =>
         \E z \in SizeIn(FirstBytes(buffer, HeaderSize)) : ~Holds(buffer, z)
    /\ Recv(buffer)
    /\ UNCHANGED <<sent, arrived, trans, delivered>>

Closed == pc \in {"closed", "overrun"} /\ UNCHANGED recvVars

Receiver == OnAccept \/ OnConnect \/ OnRecv \/ Parse \/ ParseEnd

Next ==
    \/ \E z \in Sizes : Send(z)
    \/ \E n \in 1 .. StreamSize : Complete(n)
    \/ HangUp
    \/ Receiver
    \/ Closed

Spec == Init /\ [][Next]_recvVars

\* Workers keep serving completions, and the kernel hands over what has come.
\* Nothing makes the peer send or hang up.
FairSpec == /\ Spec
            /\ WF_recvVars(Receiver)
            /\ WF_recvVars(\E n \in 1 .. StreamSize : Complete(n))

----------------------------------------------------------------------------
(* Properties *)

\* Every variable keeps to its range; _cur_read never passes _cur_write, and no
\* unit is read beyond what was written.
TypeOK ==
    /\ sent \in Seq(Sizes)
    /\ arrived \in 0 .. StreamSize
    /\ buffer.units \in Seq(Unit)
    /\ buffer.write \in 1 .. Len(buffer.units)
    /\ \A i \in 1 .. Len(buffer.units) :
         buffer.units[i].head <= buffer.units[i].tail
    /\ trans \in 0 .. StreamSize
    /\ pc \in {"accepted", "dialled", "posted", "completed", "parse", "closed",
               "overrun"}

\* BASocket.cpp:211, "Never come in!": a completion never has more bytes than
\* UpdateRecv finds room for, wherever in the chain the writing stands.
NeverComeIn == pc # "overrun"

\* _size is what the chain holds, and the chain holds exactly the bytes that
\* have come and have not been delivered: what was written by the kernel
\* through the WSABUFs is where the counters say it is.
SizeMatchesChain ==
    pc \in {"posted", "parse"} =>
      /\ buffer.size = Len(Content(buffer))
      /\ Content(buffer) =
           [k \in 1 .. buffer.size |-> arrived - buffer.size + k]

\* When the receiver goes to wait it has delivered every message that was
\* complete: none waits for bytes of a later one.
NothingLeftUnread ==
    pc = "posted" => \A m \in 1 .. Len(sent) :
      Before(m + 1) <= arrived => Len(delivered) >= m

\* A connection's memory is bounded: the units posted and their successor, and
\* those a single incomplete message extends over.
ChainBounded ==
    pc = "posted" => \A z \in {y \in Sizes : \A x \in Sizes : x <= y} :
      Len(buffer.units) <= BufCount + 1 + ((z - 1 + Capacity - 1) \div Capacity)

\* The chain of buffers implements a stream of messages.
Stream == INSTANCE MessageStream

ImplementsStream == Stream!StreamSpec

\* A message that was sent is delivered, unless the connection ends.
MessagesDelivered ==
    \A m \in 1 .. MaxMessages :
      Len(sent) >= m ~> Len(delivered) >= m \/ pc = "closed"

=============================================================================
