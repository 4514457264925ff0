---------------------------- MODULE MessageStream ----------------------------
(***************************************************************************)
(* What the receiving side of a connection promises, without buffers: the  *)
(* peer writes messages into a byte stream, its bytes arrive in pieces of  *)
(* any size, and the session takes out whole messages in the order they    *)
(* were sent, never before their last byte has arrived.                    *)
(*                                                                         *)
(* A byte is the number of its place in the stream.                        *)
(***************************************************************************)
EXTENDS Naturals, Sequences

CONSTANT Sizes  \* the sizes a message can have

VARIABLES
    sent,      \* sizes of the messages the peer has sent
    arrived,   \* bytes that have arrived
    delivered  \* messages taken out, each as the sequence of its bytes

streamVars == <<sent, arrived, delivered>>

\* Bytes the peer has sent before its m-th message.
Before(s, m) == LET b[i \in 1 .. m] == IF i = 1 THEN 0 ELSE b[i - 1] + s[i - 1]
                IN b[m]

\* The m-th message of s.
Message(s, m) == [k \in 1 .. s[m] |-> Before(s, m) + k]

StreamInit == sent = << >> /\ arrived = 0 /\ delivered = << >>

Write(z) ==
    /\ sent' = Append(sent, z)
    /\ UNCHANGED <<arrived, delivered>>

Arrive ==
    /\ arrived' \in arrived + 1 .. Before(Append(sent, 0), Len(sent) + 1)
    /\ UNCHANGED <<sent, delivered>>

Take ==
    LET m == Len(delivered) + 1 IN
    /\ m <= Len(sent)
    /\ Before(sent, m) + sent[m] <= arrived
    /\ delivered' = Append(delivered, Message(sent, m))
    /\ UNCHANGED <<sent, arrived>>

StreamNext == (\E z \in Sizes : Write(z)) \/ Arrive \/ Take

StreamSpec == StreamInit /\ [][StreamNext]_streamVars

=============================================================================
