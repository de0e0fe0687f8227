------------------------ MODULE SocketProtocolProofs ------------------------
(***************************************************************************)
(* One session of the socket server, for any number of messages, scripts   *)
(* of any length, any size of a read and any limit on failed waits.        *)
(*                                                                         *)
(* Every byte of the stream is in exactly one place, whatever the client   *)
(* and the network do (BytesConserved).  When the client waits for each    *)
(* evaluation before it sends again, what lies between network and         *)
(* request_data is at any time nothing, one whole message or the rest of   *)
(* one script (Framed), so scripts are evaluated exactly as sent.          *)
(***************************************************************************)
EXTENDS SocketProtocol, SequenceTheorems, WellFoundedInduction, TLAPS

\* A byte of a message that has been sent.
SentByte == [msg : 1..Len(sent), pos : 0..MaxCode + 1]

\* Only such bytes are anywhere.
Known ==
    /\ stream \in Seq(SentByte) /\ wire \in Seq(SentByte)
    /\ buffer \in Seq(SentByte) /\ data \in Seq(SentByte) /\ taken \in Seq(SentByte)

WaitsLeft == pc = "headerWait" => waits < MaxWaits

\* The bytes of the stream that have not been taken out of request_data.
Rest == data \o (buffer \o wire)

\* As long as no byte is late or lost: between two requests nothing is under
\* way, before the header of a request is cut off all of its message is, and
\* after that its script.  doWork waits only with an empty read buffer.
Framed ==
    ~disturbed /\ pc # "ended" =>
        /\ pc \in {"header", "headerWait"} =>
               \/ Len(evaluated) = Len(sent) /\ Rest = <<>>
               \/ /\ Len(evaluated) + 1 = Len(sent)
                  /\ Rest = Encode(Len(sent), sent[Len(sent)].len)
        /\ pc \in {"body", "bodyWait"} =>
               /\ Len(evaluated) + 1 = Len(sent)
               /\ need = sent[Len(sent)].len
               /\ Rest = Code(Len(sent), need)
        /\ pc = "headerWait" => buffer = <<>> /\ Newlines(data) = {}
        /\ pc = "bodyWait" => buffer = <<>> /\ Len(data) < need
        /\ pc # "evaluate"

\* What holds for every client ...
IInv == TypeOK /\ Known /\ WaitsLeft /\ BytesConserved

\* ... and what for one that does not pipeline.
FInv == IInv /\ Framed /\ ExactFraming

-----------------------------------------------------------------------------
(* Sequences *)

\* A sequence cut in two.
LEMMA Split ==
    ASSUME NEW S, NEW s \in Seq(S), NEW n \in 0..Len(s)
    PROVE  /\ SubSeq(s, 1, n) \in Seq(S) /\ Len(SubSeq(s, 1, n)) = n
           /\ SubSeq(s, n + 1, Len(s)) \in Seq(S)
           /\ Len(SubSeq(s, n + 1, Len(s))) = Len(s) - n
           /\ \A k \in 1..n : SubSeq(s, 1, n)[k] = s[k]
           /\ \A k \in 1..Len(s) - n : SubSeq(s, n + 1, Len(s))[k] = s[n + k]
           /\ SubSeq(s, 1, n) \o SubSeq(s, n + 1, Len(s)) = s
<1> DEFINE a == SubSeq(s, 1, n)
           b == SubSeq(s, n + 1, Len(s))
<1>1. Len(s) \in Nat /\ \A k \in 1..Len(s) : s[k] \in S
  OBVIOUS
<1>2. a \in Seq(S) /\ Len(a) = n /\ \A k \in 1..n : a[k] = s[k]
  BY <1>1, SubSeqProperties
<1>3. /\ b \in Seq(S) /\ Len(b) = Len(s) - n
      /\ \A k \in 1..Len(s) - n : b[k] = s[n + k]
  <2>1. \A k \in n + 1..Len(s) : s[k] \in S
    BY <1>1
  <2>2. n + 1 \in Int /\ Len(s) \in Int
    BY <1>1
  <2> QED BY <1>1, <2>1, <2>2, SubSeqProperties
<1>4. a \o b = s
  <2>1. 1 \in 1..Len(s) + 1 /\ n \in 1 - 1..Len(s) /\ Len(s) \in n..Len(s)
    BY <1>1
  <2>2. a \o b = SubSeq(s, 1, Len(s))
    BY <2>1, ConcatAdjacentSubSeq
  <2> QED BY <2>2, SubSeqFull
<1> QED BY <1>2, <1>3, <1>4

\* The beginning of a concatenation.
LEMMA ConcatPrefix ==
    ASSUME NEW S, NEW a \in Seq(S), NEW b \in Seq(S), NEW n \in 0..Len(b)
    PROVE  SubSeq(a \o b, 1, Len(a) + n) = a \o SubSeq(b, 1, n)
<1> DEFINE c == a \o b
           l == SubSeq(c, 1, Len(a) + n)
           r == a \o SubSeq(b, 1, n)
<1>1. /\ c \in Seq(S) /\ Len(c) = Len(a) + Len(b) /\ Len(a) \in Nat /\ Len(b) \in Nat
      /\ \A i \in 1..Len(a) + Len(b) : c[i] = IF i <= Len(a) THEN a[i] ELSE b[i - Len(a)]
  BY ConcatProperties
<1> HIDE DEF c
<1>2. Len(a) + n \in 0..Len(c)
  BY <1>1
<1>3. l \in Seq(S) /\ Len(l) = Len(a) + n /\ \A k \in 1..Len(a) + n : l[k] = c[k]
  BY <1>1, <1>2, Split
<1>4. /\ SubSeq(b, 1, n) \in Seq(S) /\ Len(SubSeq(b, 1, n)) = n
      /\ \A k \in 1..n : SubSeq(b, 1, n)[k] = b[k]
  BY Split
<1>5. /\ r \in Seq(S) /\ Len(r) = Len(a) + n
      /\ \A i \in 1..Len(a) + n :
             r[i] = IF i <= Len(a) THEN a[i] ELSE SubSeq(b, 1, n)[i - Len(a)]
  BY <1>4, ConcatProperties
<1>6. \A i \in 1..Len(a) + n : l[i] = r[i]
  BY <1>1, <1>3, <1>4, <1>5
<1> HIDE DEF l, r
<1>7. l = r
  BY <1>3, <1>5, <1>6, SeqEqual
<1> QED BY <1>7 DEF c, l, r

\* What follows equal beginnings is equal.
LEMMA CancelPrefix ==
    ASSUME NEW S, NEW a \in Seq(S), NEW b \in Seq(S), NEW c \in Seq(S), NEW d \in Seq(S),
           a \o b = c \o d, Len(a) = Len(c)
    PROVE  a = c /\ b = d
<1>1. /\ Len(a) \in Nat /\ Len(b) \in Nat /\ Len(d) \in Nat
      /\ Len(a \o b) = Len(a) + Len(b) /\ Len(c \o d) = Len(c) + Len(d)
      /\ \A i \in 1..Len(a) + Len(b) : (a \o b)[i] = IF i <= Len(a) THEN a[i] ELSE b[i - Len(a)]
      /\ \A i \in 1..Len(c) + Len(d) : (c \o d)[i] = IF i <= Len(c) THEN c[i] ELSE d[i - Len(c)]
  BY ConcatProperties
<1>2. Len(b) = Len(d)
  BY <1>1
<1>3. \A i \in 1..Len(a) : a[i] = c[i]
  BY <1>1, <1>2
<1>4. ASSUME NEW i \in 1..Len(b) PROVE b[i] = d[i]
  <2>1. Len(a) + i \in 1..Len(a) + Len(b) /\ ~(Len(a) + i <= Len(a)) /\ Len(a) + i - Len(a) = i
    BY <1>1
  <2> DEFINE j == Len(a) + i
  <2>2. j \in 1..Len(a) + Len(b) /\ ~(j <= Len(a)) /\ j - Len(a) = i
    BY <2>1
  <2>3. j \in 1..Len(c) + Len(d) /\ ~(j <= Len(c)) /\ j - Len(c) = i
    BY <1>2, <2>2
  <2> HIDE DEF j
  <2>4. (a \o b)[j] = b[i]
    BY <1>1, <2>2
  <2>5. (c \o d)[j] = d[i]
    BY <1>1, <2>3
  <2> QED BY <2>4, <2>5
<1> QED BY <1>2, <1>3, <1>4, SeqEqual

\* Bytes that move from one end of a boundary to the other are not lost.
LEMMA MoveOver ==
    ASSUME NEW S, NEW a \in Seq(S), NEW b \in Seq(S), NEW n \in 0..Len(b)
    PROVE  /\ a \o SubSeq(b, 1, n) \in Seq(S) /\ SubSeq(b, n + 1, Len(b)) \in Seq(S)
           /\ (a \o SubSeq(b, 1, n)) \o SubSeq(b, n + 1, Len(b)) = a \o b
<1> DEFINE x == SubSeq(b, 1, n)
           y == SubSeq(b, n + 1, Len(b))
<1>1. x \in Seq(S) /\ y \in Seq(S) /\ x \o y = b
  BY Split
<1> HIDE DEF x, y
<1>2. (a \o x) \o y = a \o (x \o y)
  <2>1. x \in Seq(S)
    BY <1>1
  <2>2. y \in Seq(S)
    BY <1>1
  <2> QED BY <2>1, <2>2, ConcatAssociative
<1>3. a \o x \in Seq(S)
  BY <1>1, ConcatProperties
<1>4. (a \o x) \o y = a \o b
  BY <1>1, <1>2
<1> QED BY <1>1, <1>3, <1>4 DEF x, y

\* A message, byte by byte.
LEMMA EncodeIs ==
    ASSUME NEW m \in 1..MaxMessages, NEW len \in 0..MaxCode, NEW P,
           \A i \in 0..MaxCode + 1 : [msg |-> m, pos |-> i] \in P
    PROVE  /\ Encode(m, len) \in Seq(P) /\ Code(m, len) \in Seq(P)
           /\ Len(Encode(m, len)) = len + 2 /\ Len(Code(m, len)) = len
           /\ \A i \in 1..len + 2 : Encode(m, len)[i] = [msg |-> m, pos |-> i - 1]
           /\ Encode(m, len) = <<[msg |-> m, pos |-> 0], [msg |-> m, pos |-> 1]>>
                                   \o Code(m, len)
<1> DEFINE h == <<[msg |-> m, pos |-> 0], [msg |-> m, pos |-> 1]>>
           c == Code(m, len)
<1>0. MaxCode \in Nat /\ len \in Nat
  BY SocketProtocolAssumption DEF SocketProtocolAssumption
<1>1. /\ h \in Seq(P) /\ Len(h) = 2
      /\ h[1] = [msg |-> m, pos |-> 0] /\ h[2] = [msg |-> m, pos |-> 1]
  <2>1. [msg |-> m, pos |-> 0] \in P /\ [msg |-> m, pos |-> 1] \in P
    BY <1>0
  <2> QED BY <2>1
<1>2. c \in Seq(P) /\ Len(c) = len /\ \A i \in 1..len : c[i] = [msg |-> m, pos |-> 1 + i]
  <2>1. \A i \in 1..len : [msg |-> m, pos |-> 1 + i] \in P
    BY <1>0
  <2>2. c \in [1..len -> P]
    BY <2>1 DEF Code
  <2>3. c \in Seq(P) /\ Len(c) = len
    BY <1>0, <2>2
  <2> QED BY <2>3 DEF Code
<1>3. Encode(m, len) = h \o c
  BY DEF Encode
<1> HIDE DEF h, c
<1>4. /\ h \o c \in Seq(P) /\ Len(h \o c) = len + 2
      /\ \A i \in 1..2 + len : (h \o c)[i] = IF i <= 2 THEN h[i] ELSE c[i - 2]
  <2>1. h \in Seq(P) /\ c \in Seq(P)
    BY <1>1, <1>2
  <2>2. /\ h \o c \in Seq(P) /\ Len(h \o c) = Len(h) + Len(c)
        /\ \A i \in 1..Len(h) + Len(c) :
               (h \o c)[i] = IF i <= Len(h) THEN h[i] ELSE c[i - Len(h)]
    BY <2>1, ConcatProperties
  <2> QED BY <1>0, <1>1, <1>2, <2>2
<1>5. ASSUME NEW i \in 1..len + 2
      PROVE  (h \o c)[i] = [msg |-> m, pos |-> i - 1]
  <2>1. CASE i = 1
    BY <1>0, <1>1, <1>4, <2>1
  <2>2. CASE i = 2
    BY <1>0, <1>1, <1>4, <2>2
  <2>3. CASE i > 2
    <3>1. (h \o c)[i] = c[i - 2] /\ i - 2 \in 1..len /\ 1 + (i - 2) = i - 1
      BY <1>0, <1>4, <2>3
    <3> QED BY <1>2, <3>1
  <2>4. i = 1 \/ i = 2 \/ i > 2
    BY <1>0
  <2> QED BY <2>1, <2>2, <2>3, <2>4
<1>6. /\ Encode(m, len) \in Seq(P) /\ Len(Encode(m, len)) = len + 2
      /\ \A i \in 1..len + 2 : Encode(m, len)[i] = [msg |-> m, pos |-> i - 1]
  BY <1>3, <1>4, <1>5
<1> QED BY <1>2, <1>6 DEF c, Encode

LEMMA Join ==
    ASSUME NEW S, NEW t \in Seq(S), NEW d \in Seq(S), NEW b \in Seq(S), NEW w \in Seq(S)
    PROVE  /\ ((t \o d) \o b) \o w = t \o (d \o (b \o w))
           /\ (t \o d) \o b = t \o (d \o b)
           /\ d \o (b \o w) = (d \o b) \o w
           /\ d \o (b \o w) \in Seq(S) /\ (t \o d) \o b \in Seq(S)
<1> DEFINE td == t \o d
           bw == b \o w
<1>1. td \in Seq(S)
  BY ConcatProperties, SMTT(60)
<1>2. bw \in Seq(S)
  BY ConcatProperties, SMTT(60)
<1> HIDE DEF td, bw
<1>3. (td \o b) \o w = td \o (b \o w)
  BY <1>1, ConcatAssociative, SMTT(60)
<1>4. (t \o d) \o bw = t \o (d \o bw)
  BY <1>2, ConcatAssociative, SMTT(60)
<1>5. ((t \o d) \o b) \o w = t \o (d \o (b \o w))
  BY <1>3, <1>4 DEF td, bw
<1>6. (t \o d) \o b = t \o (d \o b)
  BY ConcatAssociative, SMTT(60)
<1>7. d \o (b \o w) = (d \o b) \o w
  BY ConcatAssociative, SMTT(60)
<1>8. d \o bw \in Seq(S)
  BY <1>2, ConcatProperties, SMTT(60)
<1>9. td \o b \in Seq(S)
  BY <1>1, ConcatProperties, SMTT(60)
<1>10. d \o (b \o w) \in Seq(S) /\ (t \o d) \o b \in Seq(S)
  BY <1>8, <1>9 DEF td, bw
<1> QED BY <1>5, <1>6, <1>7, <1>10

\* The provers do better with a concatenation they cannot look into.
Cat(x, y) == x \o y

LEMMA CatAssociative ==
    ASSUME NEW S, NEW x \in Seq(S), NEW y \in Seq(S), NEW z \in Seq(S)
    PROVE  Cat(Cat(x, y), z) = Cat(x, Cat(y, z))
BY ConcatAssociative DEF Cat

LEMMA CatType ==
    ASSUME NEW S, NEW x \in Seq(S), NEW y \in Seq(S)
    PROVE  Cat(x, y) \in Seq(S) /\ Len(Cat(x, y)) = Len(x) + Len(y)
BY ConcatProperties DEF Cat

\* Bytes that move from b by way of d to t.
LEMMA Regroup ==
    ASSUME NEW S, NEW t \in Seq(S), NEW d \in Seq(S), NEW b \in Seq(S),
           NEW f \in Seq(S), NEW c \in Seq(S), NEW u, NEW e,
           Cat(u, e) = Cat(t, f), Cat(f, c) = Cat(d, b)
    PROVE  Cat(Cat(u, e), c) = Cat(Cat(t, d), b)
<1>1. Cat(Cat(t, f), c) = Cat(t, Cat(f, c))
  BY CatAssociative
<1>2. Cat(Cat(t, d), b) = Cat(t, Cat(d, b))
  BY CatAssociative
<1> QED BY <1>1, <1>2

-----------------------------------------------------------------------------
(* Steps of any client: types and conservation *)

LEMMA Bounds ==
    ASSUME IInv
    PROVE  /\ MaxMessages \in Nat /\ MaxCode \in Nat /\ MaxRead \in Nat /\ MaxRead >= 2
           /\ MaxWaits \in Nat /\ MaxWaits >= 1
           /\ Len(sent) \in Nat /\ Len(sent) <= MaxMessages
           /\ \A m \in 1..Len(sent) : sent[m] \in Message
           /\ \A m \in 1..Len(sent) : sent[m].len \in 0..MaxCode
           /\ Got \in 0..Len(buffer) /\ Len(buffer) \in Nat /\ Len(data) \in Nat
           /\ Len(wire) \in Nat
<1>1. /\ MaxMessages \in Nat /\ MaxCode \in Nat /\ MaxRead \in Nat /\ MaxRead >= 2
      /\ MaxWaits \in Nat /\ MaxWaits >= 1
  BY SocketProtocolAssumption DEF SocketProtocolAssumption
<1>2. /\ Len(sent) \in Nat /\ Len(sent) <= MaxMessages
      /\ \A m \in 1..Len(sent) : sent[m] \in Message
  BY DEF IInv, TypeOK
<1>3. \A m \in 1..Len(sent) : sent[m].len \in 0..MaxCode
  BY <1>2 DEF Message
<1>4. Len(buffer) \in Nat /\ Len(data) \in Nat /\ Len(wire) \in Nat
  BY DEF IInv, TypeOK
<1>5. Got \in 0..Len(buffer)
  BY <1>1, <1>4 DEF Got, Least
<1> QED BY <1>1, <1>2, <1>3, <1>4, <1>5

\* The types of the streams follow from Known.
LEMMA KnownTypes ==
    ASSUME Known', Len(sent') <= MaxMessages, Len(sent') \in Nat
    PROVE  /\ stream' \in Seq(Byte) /\ wire' \in Seq(Byte) /\ buffer' \in Seq(Byte)
           /\ data' \in Seq(Byte) /\ taken' \in Seq(Byte)
<1>1. SentByte' \subseteq Byte
  <2>1. 1..Len(sent') \subseteq 1..MaxMessages
    BY SocketProtocolAssumption DEF SocketProtocolAssumption
  <2> QED BY <2>1 DEF SentByte, Byte
<1> QED BY <1>1, SeqMonotonic DEF Known

\* A step that moves bytes from the wire to request_data and on.
LEMMA BytesMove ==
    ASSUME IInv, UNCHANGED client,
           wire' \in Seq(SentByte), buffer' \in Seq(SentByte), data' \in Seq(SentByte),
           taken' \in Seq(SentByte),
           Cat(Cat(Cat(taken', data'), buffer'), wire')
               = Cat(Cat(Cat(taken, data), buffer), wire)
    PROVE  /\ Known' /\ BytesConserved'
           /\ sent' \in Seq(Message) /\ Len(sent') <= MaxMessages /\ closed' \in BOOLEAN
           /\ stream' \in Seq(Byte) /\ wire' \in Seq(Byte) /\ buffer' \in Seq(Byte)
           /\ data' \in Seq(Byte) /\ taken' \in Seq(Byte)
<1>1. /\ sent' = sent /\ stream' = stream /\ closed' = closed
      /\ SentByte' = SentByte
  BY DEF client, SentByte
<1>2. Known'
  BY <1>1 DEF IInv, Known
<1>3. BytesConserved'
  <2>1. Cat(Cat(Cat(taken, data), buffer), wire) = stream
    BY DEF IInv, BytesConserved, Cat
  <2>2. Cat(Cat(Cat(taken', data'), buffer'), wire') = stream'
    BY <1>1, <2>1
  <2> QED BY <2>2 DEF BytesConserved, Cat
<1>4. sent' \in Seq(Message) /\ Len(sent') <= MaxMessages /\ closed' \in BOOLEAN
  BY <1>1 DEF IInv, TypeOK
<1> QED BY <1>1, <1>2, <1>3, <1>4, KnownTypes, Bounds

\* waitForReadyRead moves bytes into the read buffer.
LEMMA ReceiveMoves ==
    ASSUME IInv, Receive
    PROVE  /\ buffer' \in Seq(SentByte) /\ wire' \in Seq(SentByte)
           /\ Cat(buffer', wire') = Cat(buffer, wire)
           /\ Cat(Cat(Cat(taken, data), buffer'), wire')
                  = Cat(Cat(Cat(taken, data), buffer), wire)
<1>1. PICK n \in 1..Len(wire) : /\ buffer' = buffer \o SubSeq(wire, 1, n)
                                /\ wire' = SubSeq(wire, n + 1, Len(wire))
  BY DEF Receive
<1>2. n \in 0..Len(wire) /\ buffer \in Seq(SentByte) /\ wire \in Seq(SentByte)
  BY Bounds DEF IInv, Known
<1>3. /\ buffer' \in Seq(SentByte) /\ wire' \in Seq(SentByte)
      /\ Cat(buffer', wire') = Cat(buffer, wire)
  BY <1>1, <1>2, MoveOver DEF Cat
<1>4. Cat(taken, data) \in Seq(SentByte)
  BY CatType DEF IInv, Known
<1>5. /\ Cat(Cat(Cat(taken, data), buffer'), wire')
            = Cat(Cat(taken, data), Cat(buffer', wire'))
      /\ Cat(Cat(Cat(taken, data), buffer), wire)
            = Cat(Cat(taken, data), Cat(buffer, wire))
  BY <1>2, <1>3, <1>4, CatAssociative
<1> QED BY <1>3, <1>5

\* read() moves bytes from the read buffer to request_data.
LEMMA ReadMoves ==
    ASSUME IInv
    PROVE  LET d == data \o SubSeq(buffer, 1, Got)
               b == SubSeq(buffer, Got + 1, Len(buffer))
           IN  /\ d \in Seq(SentByte) /\ b \in Seq(SentByte)
               /\ Cat(d, b) = Cat(data, buffer)
               /\ Len(d) \in Nat /\ \A k \in 1..Len(d) : d[k] \in SentByte
<1>1. Got \in 0..Len(buffer) /\ buffer \in Seq(SentByte) /\ data \in Seq(SentByte)
  BY Bounds DEF IInv, Known
<1> DEFINE d == data \o SubSeq(buffer, 1, Got)
           b == SubSeq(buffer, Got + 1, Len(buffer))
<1>2. d \in Seq(SentByte) /\ b \in Seq(SentByte) /\ Cat(d, b) = Cat(data, buffer)
  BY <1>1, MoveOver DEF Cat
<1> HIDE DEF d
<1>3. Len(d) \in Nat /\ \A k \in 1..Len(d) : d[k] \in SentByte
  BY <1>2
<1> QED BY <1>2, <1>3 DEF d

\* The client sends one more message.
LEMMA SendKeepsInv == IInv /\ ClientSend => IInv'
<1> SUFFICES ASSUME IInv, ClientSend PROVE IInv'
  OBVIOUS
<1>1. PICK len \in 0..MaxCode : \E nl \in 0..len :
           /\ sent' = Append(sent, [len |-> len, nl |-> nl])
           /\ stream' = stream \o Encode(Len(sent) + 1, len)
           /\ wire' = wire \o Encode(Len(sent) + 1, len)
  BY DEF ClientSend
<1>2. PICK nl \in 0..len :
           /\ sent' = Append(sent, [len |-> len, nl |-> nl])
           /\ stream' = stream \o Encode(Len(sent) + 1, len)
           /\ wire' = wire \o Encode(Len(sent) + 1, len)
  BY <1>1
<1> DEFINE m == Len(sent) + 1
           e == Encode(m, len)
<1>3. /\ UNCHANGED <<closed, disturbed, pc, buffer, open, data, need, waits, taken, evaluated>>
      /\ Len(sent) < MaxMessages
  BY DEF ClientSend
<1>4. /\ MaxCode \in Nat /\ MaxMessages \in Nat /\ Len(sent) \in Nat /\ m \in 1..MaxMessages
      /\ len \in Nat /\ nl \in 0..MaxCode
  BY <1>3, Bounds
<1>5. [len |-> len, nl |-> nl] \in Message
  BY <1>4 DEF Message
<1>6. sent' \in Seq(Message) /\ Len(sent') = m
  BY <1>2, <1>5, AppendProperties DEF IInv, TypeOK
<1>7. e \in Seq(SentByte')
  <2>1. \A i \in 0..MaxCode + 1 : [msg |-> m, pos |-> i] \in SentByte'
    BY <1>4, <1>6 DEF SentByte
  <2> QED BY <1>4, <2>1, EncodeIs
<1> HIDE DEF e
<1>8. /\ stream \in Seq(SentByte') /\ wire \in Seq(SentByte') /\ buffer \in Seq(SentByte')
      /\ data \in Seq(SentByte') /\ taken \in Seq(SentByte')
  <2>1. 1..Len(sent) \subseteq 1..Len(sent')
    BY <1>4, <1>6
  <2>2. SentByte \subseteq SentByte'
    BY <2>1 DEF SentByte
  <2> QED BY <2>2, SeqMonotonic DEF IInv, Known
<1>9. stream' \in Seq(SentByte') /\ wire' \in Seq(SentByte')
  <2>1. stream' = stream \o e /\ wire' = wire \o e
    BY <1>2 DEF e
  <2> QED BY <1>7, <1>8, <2>1, ConcatProperties
<1>10. Known'
  BY <1>3, <1>8, <1>9 DEF Known
<1>11. BytesConserved'
  <2> DEFINE a == (taken \o data) \o buffer
  <2>1. a \in Seq(SentByte')
    BY <1>8, Join
  <2>2. a \o wire = stream
    BY DEF IInv, BytesConserved
  <2> HIDE DEF a
  <2>3. (a \o wire) \o e = a \o (wire \o e)
    <3>1. wire \in Seq(SentByte')
      BY <1>8
    <3> QED BY <1>7, <2>1, <3>1, ConcatAssociative
  <2>4. a \o wire' = stream'
    BY <1>2, <2>2, <2>3 DEF e
  <2> QED BY <1>3, <2>4 DEF a, BytesConserved
<1>12. TypeOK'
  <2>1. Len(sent') \in Nat /\ Len(sent') <= MaxMessages
    BY <1>4, <1>6
  <2> QED BY <1>3, <1>6, <1>10, <2>1, KnownTypes DEF IInv, TypeOK
<1> QED BY <1>3, <1>10, <1>11, <1>12 DEF IInv, WaitsLeft

\* The client closes the connection.
LEMMA CloseKeepsInv == IInv /\ ClientClose => IInv'
BY DEF ClientClose, IInv, TypeOK, Known, SentByte, WaitsLeft, BytesConserved

\* The end of the stream is lost.
LEMMA BreakKeepsInv == IInv /\ ClientBreaks => IInv'
<1> SUFFICES ASSUME IInv, ClientBreaks PROVE IInv'
  OBVIOUS
<1>1. PICK n \in 0..Len(wire) - 1 :
           /\ wire' = SubSeq(wire, 1, n)
           /\ stream' = SubSeq(stream, 1, Len(stream) - Len(wire) + n)
  BY DEF ClientBreaks
<1>2. /\ UNCHANGED <<sent, pc, buffer, open, data, need, waits, taken, evaluated>>
      /\ closed' = TRUE /\ disturbed' = TRUE
  BY DEF ClientBreaks
<1> DEFINE a == (taken \o data) \o buffer
<1>3. /\ a \in Seq(SentByte) /\ wire \in Seq(SentByte) /\ a \o wire = stream
      /\ n \in 0..Len(wire) /\ Len(wire) \in Nat
  BY Join, Bounds DEF IInv, Known, BytesConserved
<1> HIDE DEF a
<1>4. Len(a) \in Nat /\ Len(stream) = Len(a) + Len(wire)
  BY <1>3, ConcatProperties
<1>5. Len(stream) - Len(wire) + n = Len(a) + n
  BY <1>3, <1>4
<1>6. stream' = a \o wire'
  BY <1>1, <1>3, <1>5, ConcatPrefix
<1>7. wire' \in Seq(SentByte)
  BY <1>1, <1>3, Split
<1>8. stream' \in Seq(SentByte)
  BY <1>3, <1>6, <1>7, ConcatProperties
<1>9. Known'
  BY <1>2, <1>7, <1>8 DEF IInv, Known, SentByte
<1>10. BytesConserved'
  BY <1>2, <1>6 DEF a, BytesConserved
<1>11. TypeOK'
  <2>1. Len(sent') \in Nat /\ Len(sent') <= MaxMessages
    BY <1>2, Bounds
  <2> QED BY <1>2, <1>9, <2>1, KnownTypes DEF IInv, TypeOK
<1> QED BY <1>2, <1>9, <1>10, <1>11 DEF IInv, WaitsLeft

\* Every nonempty set of natural numbers has a least element.
LEMMA LeastOf ==
    ASSUME NEW T, T \subseteq Nat, T # {}
    PROVE  \E x \in T : \A y \in T : x <= y
<1>1. PICK x \in T : \A y \in T : ~ (<<y, x>> \in OpToRel(<, Nat))
  BY NatLessThanWellFounded, WFMin
<1>2. \A y \in T : ~ (y < x)
  <2> SUFFICES ASSUME NEW y \in T, y < x PROVE FALSE
    OBVIOUS
  <2>1. <<y, x>> \in Nat \X Nat /\ <<y, x>>[1] = y /\ <<y, x>>[2] = x
    OBVIOUS
  <2> QED BY <1>1, <2>1 DEF OpToRel
<1> QED BY <1>2

\* The newline that ends the header is the first one.
LEMMA IndexIs ==
    ASSUME NEW d \in Seq(SentByte), Newlines(d) # {}
    PROVE  /\ IndexOfNewline(d) \in 1..Len(d) /\ IsNewline(d[IndexOfNewline(d)])
           /\ \A j \in Newlines(d) : IndexOfNewline(d) <= j
<1>1. Len(d) \in Nat /\ Newlines(d) \subseteq Nat /\ Newlines(d) \subseteq 1..Len(d)
  BY DEF Newlines
<1>2. \E i \in Newlines(d) : \A j \in Newlines(d) : i <= j
  BY <1>1, LeastOf
<1>3. /\ IndexOfNewline(d) \in Newlines(d)
      /\ \A j \in Newlines(d) : IndexOfNewline(d) <= j
  BY <1>2 DEF IndexOfNewline
<1> QED BY <1>1, <1>3 DEF Newlines

\* New bytes end a wait.
LEMMA ArrivalKeepsInv == IInv /\ (HeaderArrives \/ BodyArrives) => IInv'
<1> SUFFICES ASSUME IInv, HeaderArrives \/ BodyArrives PROVE IInv'
  OBVIOUS
<1>1. /\ Receive /\ pc' \in {"header", "body"}
      /\ UNCHANGED <<client, disturbed, open, data, need, waits, taken, evaluated>>
  BY DEF HeaderArrives, BodyArrives
<1>2. /\ buffer' \in Seq(SentByte) /\ wire' \in Seq(SentByte)
      /\ Cat(Cat(Cat(taken, data), buffer'), wire')
            = Cat(Cat(Cat(taken, data), buffer), wire)
  BY <1>1, ReceiveMoves
<1>3. data' = data /\ taken' = taken /\ data' \in Seq(SentByte) /\ taken' \in Seq(SentByte)
  BY <1>1 DEF IInv, Known
<1>4. Cat(Cat(Cat(taken', data'), buffer'), wire')
          = Cat(Cat(Cat(taken, data), buffer), wire)
  BY <1>2, <1>3
<1>5. UNCHANGED client
  BY <1>1
<1>6. /\ Known' /\ BytesConserved'
      /\ sent' \in Seq(Message) /\ Len(sent') <= MaxMessages /\ closed' \in BOOLEAN
      /\ stream' \in Seq(Byte) /\ wire' \in Seq(Byte) /\ buffer' \in Seq(Byte)
      /\ data' \in Seq(Byte) /\ taken' \in Seq(Byte)
  BY <1>2, <1>3, <1>4, <1>5, BytesMove
<1>7. TypeOK'
  BY <1>1, <1>6 DEF IInv, TypeOK
<1> QED BY <1>1, <1>6, <1>7 DEF IInv, WaitsLeft

\* A wait fails.
LEMMA WaitFailsKeepsInv == IInv /\ (HeaderWaitFails \/ BodyWaitFails) => IInv'
<1> SUFFICES ASSUME IInv, HeaderWaitFails \/ BodyWaitFails PROVE IInv'
  OBVIOUS
<1>1. WaitFails /\ UNCHANGED <<client, data, need, taken, evaluated, buffer, wire>>
  BY DEF HeaderWaitFails, BodyWaitFails, WaitFails
<1>2. open' \in BOOLEAN
  BY <1>1 DEF WaitFails, IInv, TypeOK
<1>3. waits \in Nat /\ waits <= MaxWaits /\ MaxWaits \in Nat /\ disturbed \in BOOLEAN
  BY Bounds DEF IInv, TypeOK
<1>4. pc' \in {"headerWait", "ended", "evaluate"} /\ disturbed' \in BOOLEAN
  <2>1. CASE HeaderWaitFails
    BY <1>3, <2>1 DEF HeaderWaitFails
  <2>2. CASE BodyWaitFails
    BY <1>3, <2>2 DEF BodyWaitFails, AfterStall
  <2> QED BY <2>1, <2>2
<1>5. waits' \in 0..MaxWaits /\ (pc' = "headerWait" => waits' < MaxWaits)
  <2>1. CASE HeaderWaitFails
    <3>1. waits < MaxWaits /\ waits' = waits + 1 /\ (pc' = "ended" \/ ~LastWait)
      BY <2>1 DEF HeaderWaitFails, IInv, WaitsLeft
    <3> QED BY <1>3, <3>1 DEF LastWait
  <2>2. CASE BodyWaitFails
    BY <1>3, <2>2 DEF BodyWaitFails, AfterStall
  <2> QED BY <2>1, <2>2
<1>6. Known' /\ BytesConserved'
  BY <1>1 DEF client, IInv, Known, BytesConserved, SentByte
<1>7. TypeOK'
  BY <1>1, <1>2, <1>4, <1>5 DEF client, IInv, TypeOK
<1> QED BY <1>5, <1>6, <1>7 DEF IInv, WaitsLeft

\* The length that a line gives is one that some script can have.
LEMMA AtoiRange ==
    ASSUME IInv, NEW line \in Seq(SentByte), Len(line) > 0
    PROVE  Atoi(line) \subseteq 0..MaxCode
<1>1. line[1] \in SentByte
  OBVIOUS
<1>2. line[1].msg \in 1..Len(sent)
  BY <1>1 DEF SentByte
<1> QED BY <1>2, Bounds DEF Atoi

\* A round of the header loop.
LEMMA ReadHeaderKeepsInv == IInv /\ ReadHeader => IInv'
<1> SUFFICES ASSUME IInv, ReadHeader PROVE IInv'
  OBVIOUS
<1> DEFINE d == data \o SubSeq(buffer, 1, Got)
           index == IndexOfNewline(d)
<1>1. /\ pc = "header" /\ waits' = 0
      /\ UNCHANGED <<client, wire, disturbed, open, evaluated>>
      /\ buffer' = SubSeq(buffer, Got + 1, Len(buffer))
  BY DEF ReadHeader
<1>2. \/ /\ Newlines(d) # {} /\ pc' = "body" /\ need' \in Atoi(d)
         /\ data' = SubSeq(d, index + 1, Len(d)) /\ taken' = taken \o SubSeq(d, 1, index)
      \/ /\ Newlines(d) = {} /\ pc' = "headerWait" /\ data' = d
         /\ UNCHANGED <<need, taken>>
  BY DEF ReadHeader
<1>3. /\ d \in Seq(SentByte) /\ buffer' \in Seq(SentByte)
      /\ Cat(d, buffer') = Cat(data, buffer)
  BY <1>1, ReadMoves
<1> HIDE DEF d
<1>4. /\ taken \in Seq(SentByte) /\ data \in Seq(SentByte) /\ buffer \in Seq(SentByte)
      /\ wire \in Seq(SentByte)
  BY DEF IInv, Known
<1>5. /\ data' \in Seq(SentByte) /\ taken' \in Seq(SentByte)
      /\ Cat(taken', data') = Cat(taken, d) /\ need' \in 0..MaxCode
      /\ pc' \in {"body", "headerWait"}
  <2>1. CASE Newlines(d) # {}
    <3>1. index \in 1..Len(d)
      BY <1>3, <2>1, IndexIs
    <3>2. index \in 0..Len(d) /\ Len(d) > 0
      BY <1>3, <3>1
    <3>3. /\ data' = SubSeq(d, index + 1, Len(d)) /\ taken' = taken \o SubSeq(d, 1, index)
          /\ need' \in Atoi(d) /\ pc' = "body"
      BY <1>2, <2>1
    <3>4. data' \in Seq(SentByte) /\ taken' \in Seq(SentByte)
      BY <1>3, <1>4, <3>2, <3>3, MoveOver
    <3>5. Cat(taken', data') = Cat(taken, d)
      BY <1>3, <1>4, <3>2, <3>3, MoveOver DEF Cat
    <3> QED BY <1>3, <3>2, <3>3, <3>4, <3>5, AtoiRange
  <2>2. CASE Newlines(d) = {}
    BY <1>2, <1>3, <1>4, <2>2 DEF IInv, TypeOK
  <2> QED BY <2>1, <2>2
<1>6. wire' = wire /\ wire' \in Seq(SentByte) /\ UNCHANGED client
  BY <1>1, <1>4
<1>7. Cat(Cat(taken', data'), buffer') = Cat(Cat(taken, data), buffer)
  BY <1>3, <1>4, <1>5, Regroup
<1>8. Cat(Cat(Cat(taken', data'), buffer'), wire')
          = Cat(Cat(Cat(taken, data), buffer), wire)
  BY <1>6, <1>7
<1>9. /\ Known' /\ BytesConserved'
      /\ sent' \in Seq(Message) /\ Len(sent') <= MaxMessages /\ closed' \in BOOLEAN
      /\ stream' \in Seq(Byte) /\ wire' \in Seq(Byte) /\ buffer' \in Seq(Byte)
      /\ data' \in Seq(Byte) /\ taken' \in Seq(Byte)
  BY <1>3, <1>5, <1>6, <1>8, BytesMove
<1>10. MaxWaits \in Nat /\ MaxWaits >= 1
  BY SocketProtocolAssumption DEF SocketProtocolAssumption
<1>11. TypeOK'
  BY <1>1, <1>5, <1>9, <1>10 DEF IInv, TypeOK
<1> QED BY <1>1, <1>9, <1>10, <1>11 DEF IInv, WaitsLeft

\* A round of the body loop.
LEMMA ReadBodyKeepsInv == IInv /\ ReadBody => IInv'
<1> SUFFICES ASSUME IInv, ReadBody PROVE IInv'
  OBVIOUS
<1>1. /\ pc' \in {"body", "bodyWait"}
      /\ UNCHANGED <<client, wire, disturbed, open, need, waits, taken, evaluated>>
      /\ buffer' = SubSeq(buffer, Got + 1, Len(buffer))
      /\ data' = data \o SubSeq(buffer, 1, Got)
  BY DEF ReadBody
<1>2. /\ data' \in Seq(SentByte) /\ buffer' \in Seq(SentByte)
      /\ Cat(data', buffer') = Cat(data, buffer)
  BY <1>1, ReadMoves
<1>3. /\ taken \in Seq(SentByte) /\ data \in Seq(SentByte) /\ buffer \in Seq(SentByte)
      /\ wire \in Seq(SentByte)
  BY DEF IInv, Known
<1>4. /\ wire' = wire /\ taken' = taken /\ UNCHANGED client
      /\ wire' \in Seq(SentByte) /\ taken' \in Seq(SentByte)
  BY <1>1, <1>3
<1>5. Cat(Cat(taken', data'), buffer') = Cat(Cat(taken, data), buffer)
  <2>1. Cat(taken', data') = Cat(taken, data')
    BY <1>4
  <2> QED BY <1>2, <1>3, <2>1, Regroup
<1>6. Cat(Cat(Cat(taken', data'), buffer'), wire')
          = Cat(Cat(Cat(taken, data), buffer), wire)
  BY <1>4, <1>5
<1>7. /\ Known' /\ BytesConserved'
      /\ sent' \in Seq(Message) /\ Len(sent') <= MaxMessages /\ closed' \in BOOLEAN
      /\ stream' \in Seq(Byte) /\ wire' \in Seq(Byte) /\ buffer' \in Seq(Byte)
      /\ data' \in Seq(Byte) /\ taken' \in Seq(Byte)
  BY <1>2, <1>4, <1>6, BytesMove
<1>8. TypeOK'
  BY <1>1, <1>7 DEF IInv, TypeOK
<1> QED BY <1>1, <1>7, <1>8 DEF IInv, WaitsLeft

\* request_data is evaluated and cleared.
LEMMA EvaluateKeepsInv == IInv /\ EvaluateJavaScript => IInv'
<1> SUFFICES ASSUME IInv, EvaluateJavaScript PROVE IInv'
  OBVIOUS
<1>1. /\ evaluated' = Append(evaluated, data) /\ taken' = taken \o data /\ data' = <<>>
      /\ need' = 0 /\ pc' = "header"
      /\ UNCHANGED <<client, wire, disturbed, buffer, open, waits>>
  BY DEF EvaluateJavaScript, Cleared
<1>2. /\ taken \in Seq(SentByte) /\ data \in Seq(SentByte) /\ buffer \in Seq(SentByte)
      /\ wire \in Seq(SentByte)
  BY DEF IInv, Known
<1>3. /\ taken' \in Seq(SentByte) /\ data' \in Seq(SentByte)
      /\ Cat(taken', data') = Cat(taken, data)
  <2>1. taken' = Cat(taken, data)
    BY <1>1 DEF Cat
  <2>2. taken' \in Seq(SentByte)
    BY <1>2, <2>1, CatType
  <2>3. taken' \o <<>> = taken'
    BY <2>2, ConcatEmptySeq
  <2>4. data' \in Seq(SentByte)
    BY <1>1
  <2> QED BY <1>1, <2>1, <2>2, <2>3, <2>4 DEF Cat
<1>4. /\ wire' = wire /\ buffer' = buffer /\ UNCHANGED client
      /\ wire' \in Seq(SentByte) /\ buffer' \in Seq(SentByte)
  BY <1>1, <1>2
<1>5. Cat(Cat(Cat(taken', data'), buffer'), wire')
          = Cat(Cat(Cat(taken, data), buffer), wire)
  BY <1>3, <1>4
<1>6. /\ Known' /\ BytesConserved'
      /\ sent' \in Seq(Message) /\ Len(sent') <= MaxMessages /\ closed' \in BOOLEAN
      /\ stream' \in Seq(Byte) /\ wire' \in Seq(Byte) /\ buffer' \in Seq(Byte)
      /\ data' \in Seq(Byte) /\ taken' \in Seq(Byte)
  BY <1>3, <1>4, <1>5, BytesMove
<1>7. evaluated' \in Seq(Seq(Byte))
  BY <1>1, AppendProperties DEF IInv, TypeOK
<1>8. MaxCode \in Nat
  BY SocketProtocolAssumption DEF SocketProtocolAssumption
<1>9. TypeOK'
  BY <1>1, <1>6, <1>7, <1>8 DEF IInv, TypeOK
<1> QED BY <1>1, <1>6, <1>9 DEF IInv, WaitsLeft

LEMMA InitInv == Init => IInv
<1> SUFFICES ASSUME Init PROVE IInv
  OBVIOUS
<1>1. /\ MaxMessages \in Nat /\ MaxCode \in Nat /\ MaxWaits \in Nat
  BY SocketProtocolAssumption DEF SocketProtocolAssumption
<1>2. \A S : <<>> \in Seq(S)
  OBVIOUS
<1>3. TypeOK /\ Known /\ WaitsLeft
  <2>1. Len(sent) = 0
    BY DEF Init
  <2>2. TypeOK
    <3>1. <<>> \in Seq(Message) /\ <<>> \in Seq(Byte) /\ <<>> \in Seq(Seq(Byte))
      BY <1>2
    <3>2. 0 \in 0..MaxCode /\ 0 \in 0..MaxWaits /\ 0 <= MaxMessages
      BY <1>1
    <3> QED BY <2>1, <3>1, <3>2 DEF Init, TypeOK
  <2>3. Known
    BY <1>2 DEF Init, Known
  <2> QED BY <2>2, <2>3 DEF Init, WaitsLeft
<1>4. BytesConserved
  BY DEF Init, BytesConserved
<1> QED BY <1>3, <1>4 DEF IInv

\* Every step keeps the bytes together, whatever the client does.
LEMMA NextKeepsInv == IInv /\ [Next]_vars => IInv'
<1> SUFFICES ASSUME IInv, [Next]_vars PROVE IInv'
  OBVIOUS
<1>1. CASE ClientSend
  BY <1>1, SendKeepsInv
<1>2. CASE ClientClose
  BY <1>2, CloseKeepsInv
<1>3. CASE ClientBreaks
  BY <1>3, BreakKeepsInv
<1>4. CASE ReadHeader
  BY <1>4, ReadHeaderKeepsInv
<1>5. CASE HeaderArrives \/ BodyArrives
  BY <1>5, ArrivalKeepsInv
<1>6. CASE HeaderWaitFails \/ BodyWaitFails
  BY <1>6, WaitFailsKeepsInv
<1>7. CASE ReadBody
  BY <1>7, ReadBodyKeepsInv
<1>8. CASE EvaluateJavaScript
  BY <1>8, EvaluateKeepsInv
<1>9. CASE UNCHANGED vars
  BY <1>9 DEF vars, client, IInv, TypeOK, Known, SentByte, WaitsLeft, BytesConserved
<1> QED
  BY <1>1, <1>2, <1>3, <1>4, <1>5, <1>6, <1>7, <1>8, <1>9 DEF Next, Server

\* The inductive invariant of a session with any client.
THEOREM Invariance == Spec => []IInv
<1>1. Init => IInv
  BY InitInv
<1>2. IInv /\ [Next]_vars => IInv'
  BY NextKeepsInv
<1> QED BY <1>1, <1>2, PTL DEF Spec

\* Lengths, positions and waits stay within their bounds: atoi is never given
\* a byte of a message that was not sent.
THEOREM TypeCorrect == Spec => []TypeOK
<1>1. IInv => TypeOK
  BY DEF IInv
<1> QED BY <1>1, Invariance, PTL

\* No byte of the stream is lost, duplicated or reordered on its way into a
\* script, however it is cut into pieces.
THEOREM BytesConservedHolds == Spec => []BytesConserved
<1>1. IInv => BytesConserved
  BY DEF IInv
<1> QED BY <1>1, Invariance, PTL

-----------------------------------------------------------------------------
(* Steps of a client that does not pipeline: framing *)

\* The parts of the rest of the stream.
LEMMA RestIs ==
    ASSUME IInv
    PROVE  /\ Rest \in Seq(SentByte)
           /\ Len(Rest) = Len(data) + (Len(buffer) + Len(wire))
           /\ Rest = Cat(data, Cat(buffer, wire))
           /\ Rest = Cat(Cat(data, buffer), wire)
           /\ data \in Seq(SentByte) /\ buffer \in Seq(SentByte) /\ wire \in Seq(SentByte)
           /\ Len(data) \in Nat /\ Len(buffer) \in Nat /\ Len(wire) \in Nat
<1>1. data \in Seq(SentByte) /\ buffer \in Seq(SentByte) /\ wire \in Seq(SentByte)
  BY DEF IInv, Known
<1>2. Rest = Cat(data, Cat(buffer, wire))
  BY DEF Rest, Cat
<1>3. Cat(buffer, wire) \in Seq(SentByte) /\ Len(Cat(buffer, wire)) = Len(buffer) + Len(wire)
  BY <1>1, CatType
<1>4. Rest \in Seq(SentByte) /\ Len(Rest) = Len(data) + (Len(buffer) + Len(wire))
  BY <1>1, <1>2, <1>3, CatType
<1>5. Rest = Cat(Cat(data, buffer), wire)
  BY <1>1, <1>2, CatAssociative
<1> QED BY <1>1, <1>2, <1>4, <1>5, Bounds

LEMMA CatEmpty ==
    ASSUME NEW S, NEW x \in Seq(S)
    PROVE  Cat(x, <<>>) = x /\ Cat(<<>>, x) = x
BY ConcatEmptySeq DEF Cat

LEMMA CatNothing == Cat(<<>>, <<>>) = <<>>
<1>1. <<>> \in Seq({})
  OBVIOUS
<1> QED BY <1>1, CatEmpty

LEMMA NoBytes == ASSUME NEW S, NEW x \in Seq(S), Len(x) = 0 PROVE x = <<>>
BY EmptySeq

\* The last message sent.
LEMMA LastMessage ==
    ASSUME IInv, Len(sent) > 0
    PROVE  LET m == Len(sent)
               e == Encode(m, sent[m].len)
               c == Code(m, sent[m].len)
           IN  /\ e \in Seq(SentByte) /\ c \in Seq(SentByte)
               /\ Len(e) = sent[m].len + 2 /\ Len(c) = sent[m].len
               /\ e[1] = [msg |-> m, pos |-> 0] /\ e[2] = [msg |-> m, pos |-> 1]
               /\ e = <<[msg |-> m, pos |-> 0], [msg |-> m, pos |-> 1]>> \o c
               /\ sent[m].len \in Nat
<1> DEFINE m == Len(sent)
           len == sent[m].len
<1>1. m \in 1..MaxMessages /\ m \in 1..Len(sent) /\ len \in 0..MaxCode /\ len \in Nat
  BY Bounds
<1> HIDE DEF len
<1>2. \A i \in 0..MaxCode + 1 : [msg |-> m, pos |-> i] \in SentByte
  BY <1>1 DEF SentByte
<1>3. /\ Encode(m, len) \in Seq(SentByte) /\ Code(m, len) \in Seq(SentByte)
      /\ Len(Encode(m, len)) = len + 2 /\ Len(Code(m, len)) = len
      /\ \A i \in 1..len + 2 : Encode(m, len)[i] = [msg |-> m, pos |-> i - 1]
      /\ Encode(m, len) = <<[msg |-> m, pos |-> 0], [msg |-> m, pos |-> 1]>>
                              \o Code(m, len)
  BY <1>1, <1>2, EncodeIs
<1>4. 1 \in 1..len + 2 /\ 2 \in 1..len + 2 /\ 1 - 1 = 0 /\ 2 - 1 = 1
  BY <1>1
<1>5. /\ Encode(m, len)[1] = [msg |-> m, pos |-> 0]
      /\ Encode(m, len)[2] = [msg |-> m, pos |-> 1]
  BY <1>3, <1>4
<1> QED BY <1>1, <1>3, <1>5 DEF len

\* A beginning of a message with its newline in it: it is in the second place.
LEMMA HeaderLine ==
    ASSUME IInv, Len(sent) > 0, NEW d \in Seq(SentByte), NEW r \in Seq(SentByte),
           Cat(d, r) = Encode(Len(sent), sent[Len(sent)].len)
    PROVE  /\ Len(d) >= 2 => Newlines(d) # {}
           /\ Newlines(d) # {} =>
                  /\ Len(d) >= 2 /\ IndexOfNewline(d) = 2
                  /\ Atoi(d) = {sent[Len(sent)].len}
                  /\ SubSeq(d, 1, 2) = <<[msg |-> Len(sent), pos |-> 0],
                                         [msg |-> Len(sent), pos |-> 1]>>
<1> DEFINE m == Len(sent)
           e == Encode(m, sent[m].len)
<1>1. /\ e[1] = [msg |-> m, pos |-> 0] /\ e[2] = [msg |-> m, pos |-> 1]
      /\ m \in Nat
  BY LastMessage, Bounds
<1>2. Cat(d, r) = e
  OBVIOUS
<1> HIDE DEF e
<1>3. /\ Len(d) \in Nat /\ Len(r) \in Nat
      /\ \A i \in 1..Len(d) : d[i] = e[i]
  BY <1>2, ConcatProperties DEF Cat
<1>4. Len(d) >= 1 => d[1] = [msg |-> m, pos |-> 0]
  BY <1>1, <1>3
<1>5. Len(d) >= 2 => d[2] = [msg |-> m, pos |-> 1]
  BY <1>1, <1>3
<1>6. Len(d) >= 1 => ~IsNewline(d[1])
  BY <1>4 DEF IsNewline
<1>7. Len(d) >= 2 => 2 \in Newlines(d)
  BY <1>3, <1>5 DEF IsNewline, Newlines
<1>8. ASSUME Newlines(d) # {}
      PROVE  /\ Len(d) >= 2 /\ IndexOfNewline(d) = 2 /\ Atoi(d) = {sent[m].len}
             /\ SubSeq(d, 1, 2) = <<[msg |-> m, pos |-> 0], [msg |-> m, pos |-> 1]>>
  <2> DEFINE x == IndexOfNewline(d)
  <2>1. /\ x \in 1..Len(d) /\ IsNewline(d[x])
        /\ \A j \in Newlines(d) : x <= j
    BY <1>8, IndexIs
  <2> HIDE DEF x
  <2>2. x # 1 /\ Len(d) >= 2
    BY <1>3, <1>6, <2>1
  <2>3. x = 2
    BY <1>3, <1>7, <2>1, <2>2
  <2>4. Atoi(d) = {sent[m].len}
    BY <1>4, <2>2, <1>3 DEF Atoi
  <2>5. 2 \in 0..Len(d)
    BY <1>3, <2>2
  <2>6. /\ SubSeq(d, 1, 2) \in Seq(SentByte) /\ Len(SubSeq(d, 1, 2)) = 2
        /\ SubSeq(d, 1, 2)[1] = d[1] /\ SubSeq(d, 1, 2)[2] = d[2]
    BY <2>5, Split
  <2>7. SubSeq(d, 1, 2) = <<d[1], d[2]>>
    <3> DEFINE q == SubSeq(d, 1, 2)
    <3>1. q \in Seq(SentByte) /\ Len(q) = 2 /\ q[1] = d[1] /\ q[2] = d[2]
      BY <2>6
    <3> HIDE DEF q
    <3>2. q = <<d[1], d[2]>>
      BY <3>1
    <3> QED BY <3>2 DEF q
  <2> QED BY <1>4, <1>5, <2>2, <2>3, <2>4, <2>7 DEF x
<1> QED BY <1>7, <1>8

\* A step that neither sends nor evaluates keeps the evaluations exact.
LEMMA ExactKept ==
    ASSUME ExactFraming, UNCHANGED <<sent, evaluated>>, ~disturbed' => ~disturbed
    PROVE  ExactFraming'
BY DEF ExactFraming, Code

\* Between two requests nothing is under way.
LEMMA NothingUnderWay ==
    ASSUME IInv, Rest = <<>>
    PROVE  data = <<>> /\ buffer = <<>> /\ wire = <<>>
<1>1. Len(Rest) = 0
  OBVIOUS
<1>2. Len(data) = 0 /\ Len(buffer) = 0 /\ Len(wire) = 0
  BY <1>1, RestIs
<1> QED BY <1>2, RestIs, NoBytes

\* The next message is sent when the last one has been evaluated.
LEMMA SendKeepsFraming ==
    ASSUME ~Pipelining, FInv, ClientSend
    PROVE  Framed' /\ ExactFraming'
<1>1. PICK len \in 0..MaxCode : \E nl \in 0..len :
           /\ sent' = Append(sent, [len |-> len, nl |-> nl])
           /\ wire' = wire \o Encode(Len(sent) + 1, len)
  BY DEF ClientSend
<1>2. PICK nl \in 0..len :
           /\ sent' = Append(sent, [len |-> len, nl |-> nl])
           /\ wire' = wire \o Encode(Len(sent) + 1, len)
  BY <1>1
<1>3. /\ UNCHANGED <<closed, disturbed, pc, buffer, open, data, need, waits, taken, evaluated>>
      /\ Len(evaluated) >= Len(sent) /\ Len(sent) < MaxMessages
  BY DEF ClientSend
<1> DEFINE m == Len(sent) + 1
<1>4. /\ IInv /\ Len(sent) \in Nat /\ Len(evaluated) \in Nat /\ sent \in Seq(Message)
      /\ MaxMessages \in Nat /\ MaxCode \in Nat
  BY Bounds DEF FInv, IInv, TypeOK
<1>5. /\ Len(sent') = m /\ sent'[m] = [len |-> len, nl |-> nl]
      /\ \A k \in 1..Len(sent) : sent'[k] = sent[k]
  <2>1. [len |-> len, nl |-> nl] \in Message
    BY <1>4 DEF Message
  <2> QED BY <1>2, <1>4, <2>1, AppendProperties
<1>6. ExactFraming'
  <2> SUFFICES ASSUME ~disturbed', NEW k \in 1..Len(evaluated')
               PROVE  k <= Len(sent') /\ evaluated'[k] = Code(k, sent'[k].len)
    BY DEF ExactFraming, Code
  <2>1. ~disturbed /\ k \in 1..Len(evaluated) /\ evaluated'[k] = evaluated[k]
    BY <1>3
  <2>2. k <= Len(sent) /\ evaluated[k] = Code(k, sent[k].len)
    BY <2>1 DEF FInv, ExactFraming
  <2>3. k \in 1..Len(sent) /\ sent'[k] = sent[k]
    BY <1>4, <1>5, <2>1, <2>2
  <2> QED BY <1>4, <1>5, <2>1, <2>2, <2>3
<1>7. Framed'
  <2> SUFFICES ASSUME ~disturbed', pc' # "ended"
               PROVE  /\ pc' \in {"header", "headerWait"}
                      /\ Len(evaluated') + 1 = Len(sent')
                      /\ Rest' = Encode(Len(sent'), sent'[Len(sent')].len)
                      /\ buffer' = <<>> /\ (Newlines(data) = {})'
    BY DEF Framed
  <2>1. ~disturbed /\ pc # "ended" /\ pc' = pc
    BY <1>3
  <2>2. pc \in {"header", "headerWait"} /\ Len(evaluated) = Len(sent) /\ Rest = <<>>
    BY <1>3, <1>4, <2>1 DEF FInv, Framed, IInv, TypeOK
  <2>3. data = <<>> /\ buffer = <<>> /\ wire = <<>>
    BY <1>4, <2>2, NothingUnderWay
  <2> DEFINE e == Encode(m, len)
  <2>4. e \in Seq(Byte)
    <3>1. \A i \in 0..MaxCode + 1 : [msg |-> m, pos |-> i] \in Byte
      BY <1>3, <1>4 DEF Byte
    <3>2. m \in 1..MaxMessages
      BY <1>3, <1>4
    <3> QED BY <3>1, <3>2, EncodeIs
  <2>5. wire' = Cat(<<>>, e)
    BY <1>2, <2>3 DEF Cat
  <2>6. Rest' = Cat(<<>>, Cat(<<>>, wire'))
    BY <1>3, <2>3 DEF Rest, Cat
  <2> HIDE DEF e
  <2>7. Rest' = e
    BY <2>4, <2>5, <2>6, CatEmpty
  <2>8. (Newlines(data) = {})'
    BY <1>3, <2>3 DEF Newlines
  <2> QED BY <1>3, <1>5, <2>1, <2>2, <2>3, <2>7, <2>8 DEF e
<1> QED BY <1>6, <1>7

\* Waits that end, with new bytes or in vain, leave the rest of the stream.
LEMMA WaitKeepsFraming ==
    ASSUME FInv, HeaderArrives \/ BodyArrives \/ HeaderWaitFails \/ BodyWaitFails
    PROVE  Framed' /\ ExactFraming'
<1>1. /\ UNCHANGED <<sent, data, need, evaluated>> /\ (~disturbed' => ~disturbed)
      /\ IInv
  BY DEF HeaderArrives, BodyArrives, HeaderWaitFails, BodyWaitFails, client, FInv, IInv, TypeOK
<1>2. ExactFraming'
  BY <1>1, ExactKept DEF FInv
<1>3. CASE HeaderArrives \/ BodyArrives
  <2>1. Rest' = Rest
    <3>1. Cat(buffer', wire') = Cat(buffer, wire)
      BY <1>1, <1>3, ReceiveMoves DEF HeaderArrives, BodyArrives
    <3>2. Rest' = Cat(data', Cat(buffer', wire'))
      BY DEF Rest, Cat
    <3>3. Rest = Cat(data, Cat(buffer, wire))
      BY DEF Rest, Cat
    <3> QED BY <1>1, <3>1, <3>2, <3>3
  <2>2. \/ pc = "headerWait" /\ pc' = "header" /\ disturbed' = disturbed
        \/ pc = "bodyWait" /\ pc' = "body" /\ disturbed' = disturbed
    BY <1>3 DEF HeaderArrives, BodyArrives
  <2> QED BY <1>1, <1>2, <2>1, <2>2 DEF FInv, Framed, Encode, Code
<1>4. CASE HeaderWaitFails
  <2>1. pc = "headerWait" /\ UNCHANGED <<buffer, wire>> /\ (pc' = "ended" \/ UNCHANGED <<pc, disturbed>>)
    BY <1>4 DEF HeaderWaitFails, WaitFails
  <2> QED BY <1>1, <1>2, <2>1 DEF FInv, Framed, Rest, Encode, Code, Newlines, IsNewline
<1>5. CASE BodyWaitFails
  <2>1. pc = "bodyWait" /\ disturbed' = (disturbed \/ wire # <<>>)
    BY <1>5 DEF BodyWaitFails
  <2>2. ASSUME ~disturbed, wire = <<>> PROVE FALSE
    <3>1. /\ Len(evaluated) + 1 = Len(sent) /\ need = sent[Len(sent)].len
          /\ Rest = Code(Len(sent), need) /\ buffer = <<>> /\ Len(data) < need
      BY <2>1, <2>2 DEF FInv, Framed
    <3>2. Len(evaluated) \in Nat /\ Len(sent) > 0
      BY <3>1 DEF FInv, IInv, TypeOK
    <3>3. Len(Rest) = need /\ need \in Nat
      BY <1>1, <3>1, <3>2, LastMessage
    <3>4. Len(Rest) = Len(data) + (Len(buffer) + Len(wire)) /\ Len(data) \in Nat
      BY <1>1, RestIs
    <3>5. Len(buffer) = 0 /\ Len(wire) = 0
      BY <2>2, <3>1
    <3> QED BY <3>1, <3>3, <3>4, <3>5
  <2>3. disturbed'
    BY <2>1, <2>2
  <2> QED BY <1>2, <2>3 DEF Framed
<1> QED BY <1>3, <1>4, <1>5

\* The header of the only message under way is read and cut off.
LEMMA ReadHeaderKeepsFraming ==
    ASSUME FInv, ReadHeader
    PROVE  Framed' /\ ExactFraming'
<1> DEFINE d == data \o SubSeq(buffer, 1, Got)
           index == IndexOfNewline(d)
           r == Cat(buffer', wire)
           m == Len(sent)
           len == sent[m].len
<1>1. /\ pc = "header" /\ wire' = wire
      /\ UNCHANGED <<sent, disturbed, evaluated>>
      /\ buffer' = SubSeq(buffer, Got + 1, Len(buffer))
  BY DEF ReadHeader, client
<1>2. \/ /\ Newlines(d) # {} /\ pc' = "body" /\ need' \in Atoi(d)
         /\ data' = SubSeq(d, index + 1, Len(d))
      \/ /\ Newlines(d) = {} /\ pc' = "headerWait" /\ data' = d
         /\ UNCHANGED need
  BY DEF ReadHeader
<1>3. ExactFraming'
  BY <1>1, ExactKept DEF FInv
<1>4. IInv /\ Got \in 0..Len(buffer) /\ Len(buffer) \in Nat /\ MaxRead \in Nat /\ MaxRead >= 2
  BY Bounds DEF FInv
<1>5. /\ d \in Seq(SentByte) /\ buffer' \in Seq(SentByte)
      /\ Cat(d, buffer') = Cat(data, buffer)
      /\ Len(d) = Len(data) + Got /\ Len(buffer') = Len(buffer) - Got
      /\ Len(data) \in Nat
  <2>1. /\ SubSeq(buffer, 1, Got) \in Seq(SentByte) /\ Len(SubSeq(buffer, 1, Got)) = Got
        /\ Len(buffer') = Len(buffer) - Got /\ data \in Seq(SentByte)
    BY <1>1, <1>4, Split, RestIs
  <2>2. Len(d) = Len(data) + Got
    BY <2>1, ConcatProperties
  <2> QED BY <1>1, <1>4, <2>1, <2>2, ReadMoves, RestIs
<1> HIDE DEF d
<1>6. r \in Seq(SentByte) /\ Rest = Cat(d, r)
  <2>1. Rest = Cat(Cat(d, buffer'), wire) /\ wire \in Seq(SentByte)
    BY <1>4, <1>5, RestIs
  <2> QED BY <1>5, <2>1, CatType, CatAssociative
<1>7. ASSUME ~disturbed
      PROVE  \/ Len(evaluated) = Len(sent) /\ Rest = <<>>
             \/ /\ Len(evaluated) + 1 = Len(sent) /\ Len(sent) > 0
                /\ Rest = Encode(m, len)
  <2>1. \/ Len(evaluated) = Len(sent) /\ Rest = <<>>
        \/ Len(evaluated) + 1 = Len(sent) /\ Rest = Encode(m, len)
    BY <1>1, <1>7 DEF FInv, Framed
  <2>2. Len(evaluated) \in Nat
    BY <1>4 DEF IInv, TypeOK
  <2> QED BY <2>1, <2>2
<1>8. Rest' = Cat(data', r)
  BY <1>1 DEF Rest, Cat
<1> HIDE DEF r
<1>9. CASE ~disturbed /\ Newlines(d) = {}
  <2>1. pc' = "headerWait" /\ data' = d
    BY <1>2, <1>9
  <2>2. Rest' = Rest
    BY <1>6, <1>8, <2>1
  <2>3. Len(d) < 2
    <3>1. CASE Rest = <<>>
      <4>1. Len(data) = 0 /\ Len(buffer) = 0
        BY <1>4, <3>1, NothingUnderWay
      <4> QED BY <1>4, <1>5, <4>1
    <3>2. CASE Len(sent) > 0 /\ Rest = Encode(m, len)
      <4>1. Len(d) >= 2 => Newlines(d) # {}
        BY <1>4, <1>5, <1>6, <3>2, HeaderLine
      <4> QED BY <1>4, <1>5, <1>9, <4>1
    <3> QED BY <1>7, <1>9, <3>1, <3>2
  <2>4. Len(buffer') = 0
    BY <1>4, <1>5, <2>3 DEF Got, Least
  <2>5. buffer' = <<>>
    BY <1>5, <2>4, NoBytes
  <2>6. (Newlines(data) = {})'
    BY <1>1, <1>9, <2>1 DEF Newlines, IsNewline
  <2> QED BY <1>1, <1>3, <1>7, <1>9, <2>1, <2>2, <2>5, <2>6 DEF Framed, Encode, Code
<1>10. CASE ~disturbed /\ Newlines(d) # {}
  <2>1. /\ Len(evaluated) + 1 = Len(sent) /\ Len(sent) > 0 /\ Rest = Encode(m, len)
    <3>1. Rest # <<>>
      <4> SUFFICES ASSUME Rest = <<>> PROVE FALSE
        OBVIOUS
      <4>1. Len(data) = 0 /\ Len(buffer) = 0
        BY <1>4, NothingUnderWay
      <4>2. Len(d) = 0
        BY <1>4, <1>5, <4>1
      <4> QED BY <1>10, <4>2 DEF Newlines
    <3> QED BY <1>7, <1>10, <3>1
  <2>2. /\ Len(d) >= 2 /\ index = 2 /\ Atoi(d) = {len}
        /\ SubSeq(d, 1, 2) = <<[msg |-> m, pos |-> 0], [msg |-> m, pos |-> 1]>>
    BY <1>4, <1>5, <1>6, <1>10, <2>1, HeaderLine
  <2>3. pc' = "body" /\ need' = len /\ data' = SubSeq(d, 2 + 1, Len(d))
    BY <1>2, <1>10, <2>2
  <2> DEFINE h == SubSeq(d, 1, 2)
             c == Code(m, len)
  <2>4. 2 \in 0..Len(d)
    BY <1>5, <2>2
  <2>5. /\ h \in Seq(SentByte) /\ data' \in Seq(SentByte) /\ Cat(h, data') = d /\ Len(h) = 2
    BY <1>5, <2>3, <2>4, Split DEF Cat
  <2>6. c \in Seq(SentByte) /\ Rest = Cat(h, c)
    BY <1>4, <2>1, <2>2, LastMessage DEF Cat
  <2> HIDE DEF h, c
  <2>7. Cat(h, Cat(data', r)) = Cat(h, c) /\ Cat(data', r) \in Seq(SentByte)
    <3>1. r \in Seq(SentByte) /\ data' \in Seq(SentByte) /\ h \in Seq(SentByte)
      BY <1>6, <2>5
    <3>2. Cat(Cat(h, data'), r) = Cat(h, Cat(data', r))
      BY <3>1, CatAssociative
    <3>3. Cat(data', r) \in Seq(SentByte)
      BY <3>1, CatType
    <3>4. Cat(d, r) = Cat(h, c)
      BY <1>6, <2>6
    <3> QED BY <2>5, <3>2, <3>3, <3>4
  <2>8. Cat(data', r) = c
    <3> DEFINE x == Cat(data', r)
    <3>1. x \in Seq(SentByte) /\ h \o x = h \o c
      BY <2>7 DEF Cat
    <3> HIDE DEF x
    <3>2. x = c
      BY <2>5, <2>6, <3>1, CancelPrefix
    <3> QED BY <3>2 DEF x
  <2>9. Rest' = Code(m, len)
    BY <1>8, <2>8 DEF c
  <2> QED BY <1>1, <1>3, <1>10, <2>1, <2>3, <2>9 DEF Framed, Code
<1> QED BY <1>1, <1>3, <1>9, <1>10 DEF Framed

\* A round of the body loop leaves the rest of the script.
LEMMA ReadBodyKeepsFraming ==
    ASSUME FInv, ReadBody
    PROVE  Framed' /\ ExactFraming'
<1>1. /\ pc = "body" /\ wire' = wire /\ Len(data) < need
      /\ UNCHANGED <<sent, disturbed, need, evaluated>>
      /\ buffer' = SubSeq(buffer, Got + 1, Len(buffer))
      /\ data' = data \o SubSeq(buffer, 1, Got)
      /\ pc' = IF Got = 0 /\ open THEN "bodyWait" ELSE "body"
  BY DEF ReadBody, BodyIncomplete, client
<1>2. ExactFraming'
  BY <1>1, ExactKept DEF FInv
<1>3. IInv /\ Got \in 0..Len(buffer) /\ Len(buffer) \in Nat /\ MaxRead \in Nat /\ MaxRead >= 2
  BY Bounds DEF FInv
<1>4. Rest' = Rest
  <2>1. Cat(data', buffer') = Cat(data, buffer) /\ data' \in Seq(SentByte)
        /\ buffer' \in Seq(SentByte)
    BY <1>1, <1>3, ReadMoves
  <2>2. Rest = Cat(Cat(data, buffer), wire) /\ wire \in Seq(SentByte)
    BY <1>3, RestIs
  <2>3. Rest' = Cat(data', Cat(buffer', wire))
    BY <1>1 DEF Rest, Cat
  <2>4. Cat(data', Cat(buffer', wire)) = Cat(Cat(data', buffer'), wire)
    BY <2>1, <2>2, CatAssociative
  <2> QED BY <2>1, <2>2, <2>3, <2>4
<1>5. ASSUME pc' = "bodyWait" PROVE buffer' = <<>> /\ Len(data') < need
  <2>1. Got = 0
    BY <1>1, <1>5
  <2>2. Len(buffer) = 0
    BY <1>3, <2>1 DEF Got, Least
  <2>3. buffer = <<>>
    BY <1>3, <2>2, RestIs, NoBytes
  <2>4. SubSeq(buffer, 1, 0) = <<>> /\ 0 \in 0..Len(buffer)
    BY <1>3, <2>3
  <2>5. buffer' = <<>>
    BY <1>1, <2>1, <2>3
  <2>6. data' = data
    <3>1. data' = Cat(data, <<>>)
      BY <1>1, <2>1, <2>4 DEF Cat
    <3> QED BY <1>3, <3>1, RestIs, CatEmpty
  <2> QED BY <1>1, <2>5, <2>6
<1> QED BY <1>1, <1>2, <1>4, <1>5 DEF FInv, Framed, Code

\* What is evaluated is the script.
LEMMA EvaluateKeepsFraming ==
    ASSUME FInv, EvaluateJavaScript
    PROVE  Framed' /\ ExactFraming'
<1>1. /\ evaluated' = Append(evaluated, data) /\ data' = <<>> /\ pc' = "header"
      /\ UNCHANGED <<sent, wire, disturbed, buffer>>
      /\ pc = "evaluate" \/ (pc = "body" /\ ~(Len(data) < need))
  BY DEF EvaluateJavaScript, Cleared, BodyIncomplete, client
<1> SUFFICES ASSUME ~disturbed PROVE Framed' /\ ExactFraming'
  BY <1>1 DEF Framed, ExactFraming
<1> DEFINE m == Len(sent)
<1>2. /\ pc = "body" /\ Len(evaluated) + 1 = m /\ need = sent[m].len
      /\ Rest = Code(m, need)
  BY <1>1 DEF FInv, Framed
<1>3. /\ IInv /\ evaluated \in Seq(Seq(Byte)) /\ Len(evaluated) \in Nat /\ m > 0
  BY <1>2 DEF FInv, IInv, TypeOK
<1>4. Len(Rest) = need /\ need \in Nat
  BY <1>2, <1>3, LastMessage
<1>5. /\ Len(Rest) = Len(data) + (Len(buffer) + Len(wire))
      /\ data \in Seq(SentByte) /\ buffer \in Seq(SentByte) /\ wire \in Seq(SentByte)
      /\ Len(data) \in Nat /\ Len(buffer) \in Nat /\ Len(wire) \in Nat
      /\ Rest = Cat(data, Cat(buffer, wire))
  BY <1>3, RestIs
<1>6. Len(buffer) = 0 /\ Len(wire) = 0
  BY <1>1, <1>2, <1>4, <1>5
<1>7. buffer = <<>> /\ wire = <<>>
  BY <1>5, <1>6, NoBytes
<1>8. Cat(<<>>, <<>>) = <<>>
  BY CatNothing
<1>9. data = Code(m, sent[m].len)
  BY <1>2, <1>5, <1>7, <1>8, CatEmpty
<1>10. data \in Seq(Byte)
  BY <1>3 DEF IInv, TypeOK
<1>11. /\ Len(evaluated') = m /\ evaluated'[m] = data
       /\ \A k \in 1..Len(evaluated) : evaluated'[k] = evaluated[k]
  BY <1>1, <1>2, <1>3, <1>10, AppendProperties
<1>12. ExactFraming'
  <2> SUFFICES ASSUME NEW k \in 1..m
               PROVE  k <= m /\ evaluated'[k] = Code(k, sent[k].len)
    BY <1>1, <1>11 DEF ExactFraming, Code
  <2>1. k <= m /\ (k = m \/ k \in 1..Len(evaluated))
    BY <1>2, <1>3
  <2>2. \A i \in 1..Len(evaluated) : evaluated[i] = Code(i, sent[i].len)
    BY DEF FInv, ExactFraming
  <2> QED BY <1>9, <1>11, <2>1, <2>2
<1>13. Rest' = <<>>
  <2>1. Rest' = Cat(<<>>, Cat(<<>>, <<>>))
    BY <1>1, <1>7 DEF Rest, Cat
  <2> QED BY <1>8, <2>1
<1>14. Framed'
  BY <1>1, <1>11, <1>13 DEF Framed
<1> QED BY <1>12, <1>14

LEMMA InitFramed == Init => FInv
<1> SUFFICES ASSUME Init PROVE FInv
  OBVIOUS
<1>1. Rest = <<>>
  <2>1. Rest = Cat(<<>>, Cat(<<>>, <<>>))
    BY DEF Init, Rest, Cat
  <2> QED BY <2>1, CatNothing
<1>2. Framed
  BY <1>1 DEF Init, Framed
<1>3. ExactFraming
  BY DEF Init, ExactFraming
<1> QED BY <1>2, <1>3, InitInv DEF FInv

LEMMA NextKeepsFraming ==
    ASSUME ~Pipelining, FInv, [Next]_vars
    PROVE  FInv'
<1>1. IInv'
  BY NextKeepsInv DEF FInv
<1>2. CASE ClientSend
  BY <1>1, <1>2, SendKeepsFraming DEF FInv
<1>3. CASE ClientClose
  BY <1>1, <1>3, ExactKept
     DEF ClientClose, FInv, Framed, Rest, Encode, Code, Newlines, IsNewline
<1>4. CASE ClientBreaks
  BY <1>1, <1>4 DEF ClientBreaks, FInv, Framed, ExactFraming
<1>5. CASE ReadHeader
  BY <1>1, <1>5, ReadHeaderKeepsFraming DEF FInv
<1>6. CASE HeaderArrives \/ BodyArrives \/ HeaderWaitFails \/ BodyWaitFails
  BY <1>1, <1>6, WaitKeepsFraming DEF FInv
<1>7. CASE ReadBody
  BY <1>1, <1>7, ReadBodyKeepsFraming DEF FInv
<1>8. CASE EvaluateJavaScript
  BY <1>1, <1>8, EvaluateKeepsFraming DEF FInv
<1>9. CASE UNCHANGED vars
  BY <1>1, <1>9, ExactKept
     DEF vars, client, FInv, Framed, Rest, Encode, Code, Newlines, IsNewline
<1> QED
  BY <1>2, <1>3, <1>4, <1>5, <1>6, <1>7, <1>8, <1>9 DEF Next, Server

\* The inductive invariant of a session with a client that does not pipeline.
THEOREM FramingInvariance ==
    ASSUME ~Pipelining
    PROVE  Spec => []FInv
<1>1. Init => FInv
  BY InitFramed
<1>2. FInv /\ [Next]_vars => FInv'
  BY NextKeepsFraming
<1> QED BY <1>1, <1>2, PTL DEF Spec

\* Scripts are evaluated exactly as they were sent, in the order they were
\* sent, as long as no byte is late or lost.
THEOREM ExactFramingHolds ==
    ASSUME ~Pipelining
    PROVE  Spec => []ExactFraming
<1>1. FInv => ExactFraming
  BY DEF FInv
<1> QED BY <1>1, FramingInvariance, PTL

\* doWork never waits while a complete request is in its hands.
THEOREM NeverWaitsInVainHolds ==
    ASSUME ~Pipelining
    PROVE  Spec => []NeverWaitsInVain
<1>1. FInv => NeverWaitsInVain
  <2> SUFFICES ASSUME FInv, pc \in {"headerWait", "bodyWait"}, ~disturbed, wire = <<>>
               PROVE  pc = "headerWait" /\ data = <<>> /\ Len(evaluated) = Len(sent)
    BY DEF NeverWaitsInVain
  <2>1. IInv /\ buffer = <<>> /\ Len(evaluated) \in Nat
    BY DEF FInv, Framed, IInv, TypeOK
  <2>2. Rest = data /\ data \in Seq(SentByte)
    <3>1. Rest = Cat(data, Cat(<<>>, <<>>)) /\ data \in Seq(SentByte)
      BY <2>1, RestIs
    <3>2. Cat(<<>>, <<>>) = <<>>
      BY CatNothing
    <3> QED BY <3>1, <3>2, CatEmpty
  <2>3. CASE pc = "headerWait"
    <3>1. CASE Rest = <<>> /\ Len(evaluated) = Len(sent)
      BY <2>2, <2>3, <3>1
    <3>2. CASE Len(evaluated) + 1 = Len(sent) /\ Rest = Encode(Len(sent), sent[Len(sent)].len)
      <4>1. Len(sent) > 0 /\ Cat(data, <<>>) = Encode(Len(sent), sent[Len(sent)].len)
        BY <2>1, <2>2, <3>2, CatEmpty
      <4>2. <<>> \in Seq(SentByte)
        OBVIOUS
      <4>3. Len(data) >= 2 => Newlines(data) # {}
        BY <2>1, <2>2, <4>1, <4>2, HeaderLine
      <4>4. Len(Rest) = sent[Len(sent)].len + 2 /\ sent[Len(sent)].len \in Nat
        BY <2>1, <3>2, <4>1, LastMessage
      <4> QED BY <2>2, <2>3, <4>3, <4>4 DEF FInv, Framed
    <3> QED BY <2>3, <3>1, <3>2 DEF FInv, Framed
  <2>4. CASE pc = "bodyWait"
    <3>1. /\ Len(evaluated) + 1 = Len(sent) /\ need = sent[Len(sent)].len
          /\ Rest = Code(Len(sent), need) /\ Len(data) < need
      BY <2>4 DEF FInv, Framed
    <3>2. Len(Rest) = need /\ need \in Nat
      BY <2>1, <3>1, LastMessage
    <3> QED BY <2>2, <3>1, <3>2
  <2> QED BY <2>3, <2>4
<1> QED BY <1>1, FramingInvariance, PTL
=============================================================================
