--------------------------- MODULE SocketProtocol ---------------------------
(***************************************************************************)
(* One session of the socket server, seen from the byte stream:            *)
(* SocketClient::doWork reads a header line with the length of a script,   *)
(* then the script, hands the script to the page and starts again.  TCP    *)
(* delivers the stream in pieces of any size; QTcpSocket moves it into its *)
(* read buffer only inside waitForReadyRead.                               *)
(*                                                                         *)
(* A byte is [msg, pos]: position 0 stands for the digits of the length of *)
(* message msg, 1 for the newline that ends the header, 1 + i for the i-th *)
(* byte of the script.  Client messages are well formed.                   *)
(***************************************************************************)
EXTENDS Naturals, Sequences

CONSTANTS
    Pipelining,   \* may the client send before the last script is evaluated?
    MaxMessages,  \* bound: messages of the client
    MaxCode,      \* bound: bytes in a script
    MaxRead,      \* max_nb_bytes_by_read (80 in the code)
    MaxWaits      \* header waits that may fail in a row (10 in the code)

\* A header fits into one read: after a read without newline, doWork waits for
\* bytes that are not in the buffer yet.
ASSUME SocketProtocolAssumption ==
    /\ Pipelining \in BOOLEAN
    /\ MaxMessages \in Nat
    /\ MaxCode \in Nat
    /\ MaxRead \in Nat /\ MaxRead >= 2
    /\ MaxWaits \in Nat /\ MaxWaits >= 1

VARIABLES
    \* the client and the network
    sent,       \* history: the messages sent, their lengths and newlines
    stream,     \* history: the bytes that reach the server, all of them
    wire,       \* the bytes of stream still under way
    closed,     \* the client has closed the connection
    disturbed,  \* history: bytes were late or lost
    \* the server
    pc,         \* where doWork is
    buffer,     \* read buffer of client_socket
    open,       \* client_socket is in ConnectedState
    data,       \* request_data
    need,       \* request_length
    waits,      \* k, the waits that have failed in a row
    taken,      \* history: the bytes taken out of request_data
    evaluated   \* history: what has been handed to evaluateJavaScript

client == <<sent, stream, closed>>
vars == <<client, wire, disturbed, pc, buffer, open, data, need, waits, taken,
          evaluated>>

Message == [len : 0..MaxCode, nl : 0..MaxCode]
Byte == [msg : 1..MaxMessages, pos : 0..MaxCode + 1]

TypeOK ==
    /\ sent \in Seq(Message) /\ Len(sent) <= MaxMessages
    /\ stream \in Seq(Byte)
    /\ wire \in Seq(Byte)
    /\ closed \in BOOLEAN
    /\ disturbed \in BOOLEAN
    /\ pc \in {"header", "headerWait", "body", "bodyWait", "evaluate", "ended"}
    /\ buffer \in Seq(Byte)
    /\ open \in BOOLEAN
    /\ data \in Seq(Byte)
    /\ need \in 0..MaxCode
    /\ waits \in 0..MaxWaits
    /\ taken \in Seq(Byte)
    /\ evaluated \in Seq(Seq(Byte))

Init ==
    /\ sent = <<>>
    /\ stream = <<>>
    /\ wire = <<>>
    /\ closed = FALSE
    /\ disturbed = FALSE
    /\ pc = "header"
    /\ buffer = <<>>
    /\ open = TRUE
    /\ data = <<>>
    /\ need = 0
    /\ waits = 0
    /\ taken = <<>>
    /\ evaluated = <<>>

-----------------------------------------------------------------------------
(* The client *)

Code(m, len) == [i \in 1..len |-> [msg |-> m, pos |-> 1 + i]]

Encode(m, len) == <<[msg |-> m, pos |-> 0], [msg |-> m, pos |-> 1]>>
                      \o Code(m, len)

\* The client sends a script of len bytes, with a newline at nl if nl > 0.
ClientSend ==
    /\ ~closed
    /\ Len(sent) < MaxMessages
    /\ Pipelining \/ Len(evaluated) >= Len(sent)
    /\ \E len \in 0..MaxCode : \E nl \in 0..len :
           /\ sent' = Append(sent, [len |-> len, nl |-> nl])
           /\ stream' = stream \o Encode(Len(sent) + 1, len)
           /\ wire' = wire \o Encode(Len(sent) + 1, len)
    /\ UNCHANGED <<closed, disturbed, pc, buffer, open, data, need, waits,
                   taken, evaluated>>

ClientClose ==
    /\ ~closed
    /\ closed' = TRUE
    /\ UNCHANGED <<sent, stream, wire, disturbed, pc, buffer, open, data, need,
                   waits, taken, evaluated>>

\* The client or the network dies and takes the end of the stream with it.
ClientBreaks ==
    /\ ~closed
    /\ wire # <<>>
    /\ closed' = TRUE
    /\ disturbed' = TRUE
    /\ \E n \in 0..Len(wire) - 1 :
           /\ wire' = SubSeq(wire, 1, n)
           /\ stream' = SubSeq(stream, 1, Len(stream) - Len(wire) + n)
    /\ UNCHANGED <<sent, pc, buffer, open, data, need, waits, taken, evaluated>>

-----------------------------------------------------------------------------
(* The socket *)

Least(a, b) == IF a <= b THEN a ELSE b

GotOneLess == Least(MaxRead - 1, Len(buffer))   \* mutant: room for a NUL
\* How much client_socket->read(buf, max_nb_bytes_by_read) gets.
Got == Least(MaxRead, Len(buffer))

\* waitForReadyRead returns true: more of the stream is in the buffer.
Receive ==
    /\ open
    /\ \E n \in 1..Len(wire) :
           /\ buffer' = buffer \o SubSeq(wire, 1, n)
           /\ wire' = SubSeq(wire, n + 1, Len(wire))

\* waitForReadyRead returns false: nothing came for 30 s, the end of the
\* stream has been read, or the socket is not connected any more.
WaitFails ==
    /\ open' \in {open, open /\ ~(closed /\ wire = <<>>)}
    /\ UNCHANGED <<buffer, wire>>

-----------------------------------------------------------------------------
(* SocketClient::doWork *)

IsNewline(b) == b.pos = 1 \/ (b.pos > 1 /\ sent[b.msg].nl = b.pos - 1)

Newlines(s) == {i \in 1..Len(s) : IsNewline(s[i])}

\* request_data.indexOf("\n"), counted from 1
IndexOfNewline(s) ==
    CHOOSE i \in Newlines(s) : \A j \in Newlines(s) : i <= j

\* What atoi can make of a line: the length if the line starts with one; a
\* line of a script starts with anything.
Atoi(line) == IF line[1].pos = 0 THEN {sent[line[1].msg].len} ELSE 0..MaxCode

\* One round of the header loop.  Once a newline has been read, the line before
\* it is cut off and gives the length.
ReadHeader ==
    /\ pc = "header"
    /\ buffer' = SubSeq(buffer, Got + 1, Len(buffer))
    /\ LET d == data \o SubSeq(buffer, 1, Got)
           index == IndexOfNewline(d)
       IN  \/ /\ Newlines(d) # {}
              /\ pc' = "body"
              /\ need' \in Atoi(d)
              /\ data' = SubSeq(d, index + 1, Len(d))
              /\ taken' = taken \o SubSeq(d, 1, index)
           \/ /\ Newlines(d) = {}
              /\ pc' = "headerWait"
              /\ data' = d
              /\ UNCHANGED <<need, taken>>
    /\ waits' = 0
    /\ UNCHANGED <<client, wire, disturbed, open, evaluated>>

\* ... the wait that follows a round without newline, ended by new bytes
HeaderArrives ==
    /\ pc = "headerWait"
    /\ Receive
    /\ pc' = "header"
    /\ UNCHANGED <<client, disturbed, open, data, need, waits, taken, evaluated>>

NeverLast == FALSE   \* mutant
LastWait == waits + 1 = MaxWaits

\* ... or repeated MaxWaits times in vain: client_disconnected.
HeaderWaitFails ==
    /\ pc = "headerWait"
    /\ WaitFails
    /\ waits' = waits + 1
    /\ \/ /\ ~LastWait
          /\ UNCHANGED <<pc, disturbed>>
       \/ /\ LastWait
          /\ pc' = "ended"
          /\ disturbed' = (disturbed \/ wire # <<>>)
    /\ UNCHANGED <<client, data, need, taken, evaluated>>

BodyOneMore == Len(data) <= need   \* mutant
BodyIncomplete == Len(data) < need

\* One round of the body loop.  read() returns 0 at the end of the buffer, and
\* -1 once the socket is not connected, where the loop does not wait.
ReadBody ==
    /\ pc = "body"
    /\ BodyIncomplete
    /\ buffer' = SubSeq(buffer, Got + 1, Len(buffer))
    /\ data' = data \o SubSeq(buffer, 1, Got)
    /\ pc' = IF Got = 0 /\ open THEN "bodyWait" ELSE "body"
    /\ UNCHANGED <<client, wire, disturbed, open, need, waits, taken, evaluated>>

BodyArrives ==
    /\ pc = "bodyWait"
    /\ Receive
    /\ pc' = "body"
    /\ UNCHANGED <<client, disturbed, open, data, need, waits, taken, evaluated>>

RetryAfterStall == "body"   \* mutant: try again, as the header loop does
AfterStall == "evaluate"

\* A wait that fails ends the body, however short it is.
BodyWaitFails ==
    /\ pc = "bodyWait"
    /\ WaitFails
    /\ pc' = AfterStall
    /\ disturbed' = (disturbed \/ wire # <<>>)
    /\ UNCHANGED <<client, data, need, waits, taken, evaluated>>

NotCleared == data   \* mutant
\* request_data.clear()
Cleared == <<>>

\* All of request_data is evaluated, also what exceeds request_length.
EvaluateJavaScript ==
    /\ pc = "evaluate" \/ (pc = "body" /\ ~BodyIncomplete)
    /\ evaluated' = Append(evaluated, data)
    /\ taken' = taken \o data
    /\ data' = Cleared
    /\ need' = 0
    /\ pc' = "header"
    /\ UNCHANGED <<client, wire, disturbed, buffer, open, waits>>

-----------------------------------------------------------------------------
Server == \/ ReadHeader \/ HeaderArrives \/ HeaderWaitFails
          \/ ReadBody \/ BodyArrives \/ BodyWaitFails
          \/ EvaluateJavaScript

Next == ClientSend \/ ClientClose \/ ClientBreaks \/ Server

\* doWork never stops by itself: its waits return after 30 s at the latest.
\* Clients and network owe it nothing.
Spec == Init /\ [][Next]_vars

FairSpec == Spec /\ WF_vars(Server)

-----------------------------------------------------------------------------
(* Properties *)

\* No byte of the stream is lost, duplicated or reordered between the network,
\* the read buffer, request_data and the scripts, even when headers and
\* scripts arrive in pieces or a wait fails half-way.
BytesConserved == taken \o data \o buffer \o wire = stream

\* As long as no byte is late or lost, the k-th evaluation is exactly the k-th
\* script sent.
ExactFraming ==
    ~disturbed =>
        \A k \in 1..Len(evaluated) :
            k <= Len(sent) /\ evaluated[k] = Code(k, sent[k].len)

\* As long as no byte is late or lost, doWork waits only for bytes that are
\* under way, or between two requests: it never sits on a complete request.
NeverWaitsInVain ==
    pc \in {"headerWait", "bodyWait"} /\ ~disturbed =>
        \/ wire # <<>>
        \/ pc = "headerWait" /\ data = <<>> /\ Len(evaluated) = Len(sent)

\* A client that falls silent or leaves, in the middle of a request too, does
\* not keep the only session of the server for ever.
SessionEnds == <>(pc = "ended")

\* A script that has been sent is evaluated unless bytes are late or lost or
\* the session had already been given up.
ScriptsEvaluated ==
    \A k \in 1..MaxMessages :
        (Len(sent) >= k /\ pc # "ended") ~>
            (Len(evaluated) >= k \/ disturbed)
=============================================================================
