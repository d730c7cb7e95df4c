---------------------------- MODULE ClientStream -----------------------------
(***************************************************************************)
(* The bytes a browser sends on one connection and the thread that reads   *)
(* them: HttpRequestParser::Feed up to a request, the handler's answer,    *)
(* and after an upgrade the loop of WebSocketConnection::Receive.          *)
(*                                                                         *)
(* TCP may cut the stream anywhere.  Of a request the parts matter: its    *)
(* line, its fields, the blank line and the bytes of its body.  A frame is *)
(* a number of bytes, of which the parser looks at the first ones: which   *)
(* frame a byte is from and its place there stand for its value.           *)
(***************************************************************************)
EXTENDS Naturals, Sequences

CONSTANTS Requests,    \* [line, fields, body] the browsers send
          BodyLength,  \* the value of Content-Length, where there is one
          FrameKinds,  \* [op, ext, mask, len] the browsers send
          MaxFrames,   \* bound on the frames sent
          Sizes,       \* sizes of the texts the server sends
          None

Lines == {"page", "status", "elsewhere", "websocket", "malformed", "nopath"}
Fields == {"length", "upgrade", "key"}
Ops == {"text", "binary", "ping", "close"}

ASSUME StreamAssumption ==
  /\ BodyLength \in Nat /\ MaxFrames \in Nat
  /\ Requests \subseteq [line : Lines, fields : SUBSET Fields, body : Nat]
  /\ FrameKinds \subseteq [op : Ops, ext : {0, 2, 8}, mask : {0, 4}, len : Nat]
  /\ None \notin Requests /\ None \notin {"page", "status", "404", "101"}

\* A browser's Content-Length is the length of its body.
ASSUME BodyAssumption ==
  \A r \in Requests : r.body = IF "length" \in r.fields THEN BodyLength ELSE 0

\* SendFrame passes the size on as an int.
ASSUME SizeAssumption == \A n \in Sizes : n \in Nat /\ n <= 2147483647

VARIABLES
  request,      \* what the browser asked, or None
  frames,       \* the frames it has sent
  leaving,      \* it has closed its side
  wire,         \* bytes sent and not yet received
  buf,          \* m_buf of the parser, then m_recvBuf
  phase,        \* where the client thread stands
  answer,       \* what it answered
  out,          \* Receive's outPayload: the frame it is from, 0 if empty
  parsed,       \* frames taken out of m_recvBuf
  heard,        \* history: parsed, when Receive last returned
  commands,     \* history: the frames ProcessWsCommand was called with
  text          \* size of the last text the server sent, and its header

browserVars == <<request, frames, leaving>>
vars == <<browserVars, wire, buf, phase, answer, out, parsed, heard, commands, text>>

Answers == {None, "page", "status", "404", "101"}
Header == [first : 0..127, ext : Seq(0..255)]

TypeOK ==
  /\ request \in Requests \cup {None} /\ leaving \in BOOLEAN
  /\ frames \in Seq(FrameKinds) /\ Len(frames) <= MaxFrames
  /\ phase \in {"request", "receive", "parse", "closed"} /\ answer \in Answers
  /\ out \in 0..MaxFrames /\ parsed \in 0..MaxFrames /\ heard \in 0..parsed
  /\ commands \in Seq(1..MaxFrames)
  /\ text.size \in Sizes /\ text.header \in Header

-----------------------------------------------------------------------------
(* Requests.                                                               *)

Run(x, n) == [i \in 1..n |-> x]
Part(x, fields) == IF x \in fields THEN <<x>> ELSE <<>>

\* The parts of a request, as the browser sends them.
Parts(r) == <<r.line>> \o Part("length", r.fields) \o Part("upgrade", r.fields)
              \o Part("key", r.fields) \o <<"blank">> \o Run("byte", r.body)

Has(q, x) == \E i \in DOMAIN q : q[i] = x
Place(q, x) == CHOOSE i \in DOMAIN q : q[i] = x /\ \A j \in 1..i - 1 : q[j] # x

\* Parts after the blank line that belong to the request.
Needed(head) == IF Has(head, "length") THEN BodyLength ELSE 0

\* Feed has a whole request.  An unknown method or ".." makes ParseHeaders fail.
Complete(q) ==
  /\ Has(q, "blank") /\ q[1] # "malformed"
  /\ LET end == Place(q, "blank")
     IN  Len(q) >= end + Needed(SubSeq(q, 1, end))

\* What the thread does with it: None where it only closes the connection.
AnswerOf(head) ==
  CASE head[1] = "nopath" -> None
    [] head[1] # "nopath" /\ Has(head, "upgrade") ->
         IF Has(head, "key") THEN "101" ELSE None
    [] head[1] \in {"page", "status"} /\ ~Has(head, "upgrade") -> head[1]
    [] head[1] \in {"elsewhere", "websocket"} /\ ~Has(head, "upgrade") -> "404"

-----------------------------------------------------------------------------
(* Frames.                                                                 *)

HeaderLength(f) == 2 + f.ext + f.mask
Length(f) == HeaderLength(f) + f.len
Bytes(k, f) == [i \in 1..Length(f) |-> [frame |-> k, at |-> i]]

\* SendFrame: one byte of length, or a mark and two or eight bytes.
Weights == <<1, 256, 65536, 16777216>>
Byte(n, i) == (n \div Weights[i + 1]) % 256

\* Lengths of 2^32 and more do not occur.
LongForm(n) == <<0, 0, 0, 0, Byte(n, 3), Byte(n, 2), Byte(n, 1), Byte(n, 0)>>

\* Mutated form of EncodeLength: the two bytes are swapped.
EncodeLengthSwapped(n) ==
  CASE n < 126 -> [first |-> n, ext |-> <<>>]
    [] n >= 126 /\ n < 65536 -> [first |-> 126, ext |-> <<Byte(n, 0), Byte(n, 1)>>]
    [] n >= 65536 -> [first |-> 127, ext |-> LongForm(n)]

\* Mutated form of EncodeLength: the long form is missing.
EncodeLengthShort(n) ==
  CASE n < 126 -> [first |-> n, ext |-> <<>>]
    [] n >= 126 -> [first |-> 126, ext |-> <<n \div 256, n % 256>>]

EncodeLength(n) ==
  CASE n < 126 -> [first |-> n, ext |-> <<>>]
    [] n >= 126 /\ n < 65536 -> [first |-> 126, ext |-> <<Byte(n, 1), Byte(n, 0)>>]
    [] n >= 65536 -> [first |-> 127, ext |-> LongForm(n)]

\* The browser's reading of the two forms (RFC 6455).
DecodedLength(h) ==
  CASE h.first < 126 -> h.first
    [] h.first = 126 -> h.ext[1] * 256 + h.ext[2]
    [] h.first = 127 -> ((h.ext[5] * 256 + h.ext[6]) * 256 + h.ext[7]) * 256 + h.ext[8]

Init ==
  /\ request = None /\ frames = <<>> /\ leaving = FALSE
  /\ wire = <<>> /\ buf = <<>>
  /\ phase = "request" /\ answer = None
  /\ out = 0 /\ parsed = 0 /\ heard = 0 /\ commands = <<>>
  /\ \E n \in Sizes : text = [size |-> n, header |-> EncodeLength(n)]

-----------------------------------------------------------------------------
(* The browser and the network.                                            *)

SendRequest ==
  /\ request = None /\ ~leaving
  /\ \E r \in Requests : request' = r /\ wire' = Parts(r)
  /\ UNCHANGED <<frames, leaving, buf, phase, answer, out, parsed, heard, commands, text>>

\* Not before the handshake's answer.
SendFrame ==
  /\ answer = "101" /\ ~leaving /\ Len(frames) < MaxFrames
  /\ \E f \in FrameKinds : /\ frames' = Append(frames, f)
                           /\ wire' = wire \o Bytes(Len(frames) + 1, f)
  /\ UNCHANGED <<request, leaving, buf, phase, answer, out, parsed, heard, commands, text>>

Leave ==
  /\ ~leaving /\ leaving' = TRUE
  /\ UNCHANGED <<request, frames, wire, buf, phase, answer, out, parsed, heard, commands, text>>

-----------------------------------------------------------------------------
(* The client thread.                                                      *)

\* recv returns some of what has arrived.
Receives(n) == /\ n \in 1..Len(wire)
               /\ buf' = buf \o SubSeq(wire, 1, n)
               /\ wire' = SubSeq(wire, n + 1, Len(wire))

\* recv and Feed, which wants more.
FeedWaits ==
  /\ phase = "request"
  /\ \E n \in 1..Len(wire) : Receives(n)
  /\ ~Complete(buf')
  /\ UNCHANGED <<browserVars, phase, answer, out, parsed, heard, commands, text>>

\* Feed has a request, which is answered; only an upgrade keeps the socket.
\* m_recvBuf starts empty.
FeedCompletes ==
  /\ phase = "request"
  /\ \E n \in 1..Len(wire) :
       LET q == buf \o SubSeq(wire, 1, n)
       IN  /\ Complete(q)
           /\ answer' = AnswerOf(SubSeq(q, 1, Place(q, "blank")))
           /\ wire' = SubSeq(wire, n + 1, Len(wire))
  /\ buf' = <<>>
  /\ phase' = IF answer' = "101" THEN "receive" ELSE "closed"
  /\ UNCHANGED <<browserVars, out, parsed, heard, commands, text>>

\* Receive: more bytes, or none within 50 ms, which changes nothing.
ReceiveSome ==
  /\ phase = "receive"
  /\ \E n \in 1..Len(wire) : Receives(n)
  /\ phase' = "parse"
  /\ UNCHANGED <<browserVars, answer, out, parsed, heard, commands, text>>

\* The frame at the front of the buffer.
Front == frames[buf[1].frame]

\* Mutated form of FrameComplete: one byte too many is waited for.
FrameCompleteLate ==
  /\ Len(buf) >= 2
  /\ Len(buf) >= 2 + Front.ext
  /\ Len(buf) > Length(Front)

FrameComplete ==
  /\ Len(buf) >= 2
  /\ Len(buf) >= 2 + Front.ext
  /\ Len(buf) >= Length(Front)

\* Mutated form of ParseFrame: a mask key is taken for payload.
ParseFrameMask ==
  /\ phase = "parse" /\ FrameComplete /\ Front.op # "close"
  /\ out' = IF Front.op \in {"text", "binary"}
              THEN IF Front.len = 0 THEN 0 ELSE buf[1].frame
              ELSE out
  /\ buf' = SubSeq(buf, 2 + Front.ext + Front.len + 1, Len(buf))
  /\ parsed' = parsed + 1
  /\ UNCHANGED <<browserVars, wire, phase, answer, heard, commands, text>>

\* Mutated form of ParseFrame: an earlier text is kept, not the last.
ParseFrameKeepsFirst ==
  /\ phase = "parse" /\ FrameComplete /\ Front.op # "close"
  /\ out' = IF Front.op \in {"text", "binary"} /\ Front.len > 0 /\ out = 0
              THEN buf[1].frame ELSE out
  /\ buf' = SubSeq(buf, Length(Front) + 1, Len(buf))
  /\ parsed' = parsed + 1
  /\ UNCHANGED <<browserVars, wire, phase, answer, heard, commands, text>>

\* One turn of Receive's loop; later payloads overwrite earlier ones.
ParseFrame ==
  /\ phase = "parse" /\ FrameComplete /\ Front.op # "close"
  /\ out' = IF Front.op \in {"text", "binary"}
              THEN IF Front.len = 0 THEN 0 ELSE buf[1].frame
              ELSE out
  /\ buf' = SubSeq(buf, Length(Front) + 1, Len(buf))
  /\ parsed' = parsed + 1
  /\ UNCHANGED <<browserVars, wire, phase, answer, heard, commands, text>>

\* A close frame: Receive returns false, whatever outPayload holds.
ParseClose ==
  /\ phase = "parse" /\ FrameComplete /\ Front.op = "close"
  /\ phase' = "closed"
  /\ UNCHANGED <<browserVars, wire, buf, answer, out, parsed, heard, commands, text>>

\* Nothing whole is left: Receive returns, and its payload is a command.
ReceiveReturns ==
  /\ phase = "parse" /\ ~FrameComplete
  /\ phase' = "receive"
  /\ commands' = IF out = 0 THEN commands ELSE Append(commands, out)
  /\ out' = 0 /\ heard' = parsed
  /\ UNCHANGED <<browserVars, wire, buf, answer, parsed, text>>

\* Mutated form of ReceiveEnds: there is no timeout.
ReceiveEndsLeaving ==
  /\ phase \in {"request", "receive"} /\ wire = <<>>
  /\ leaving
  /\ phase' = "closed"
  /\ UNCHANGED <<browserVars, wire, buf, answer, out, parsed, heard, commands, text>>

\* recv says the browser is gone, or that a request does not come in time.
ReceiveEnds ==
  /\ phase \in {"request", "receive"} /\ wire = <<>>
  /\ leaving \/ phase = "request"
  /\ phase' = "closed"
  /\ UNCHANGED <<browserVars, wire, buf, answer, out, parsed, heard, commands, text>>

\* The thread has seen m_running clear.
ServerStops ==
  /\ phase \in {"request", "receive"}
  /\ phase' = "closed"
  /\ UNCHANGED <<browserVars, wire, buf, answer, out, parsed, heard, commands, text>>

\* SendText, of a waveform or the status.
SendText ==
  /\ phase \in {"receive", "parse"}
  /\ \E n \in Sizes \ {text.size} : text' = [size |-> n, header |-> EncodeLength(n)]
  /\ UNCHANGED <<browserVars, wire, buf, phase, answer, out, parsed, heard, commands>>

ThreadStep == \/ FeedWaits \/ FeedCompletes
              \/ ReceiveSome \/ ParseFrame \/ ParseClose \/ ReceiveReturns
              \/ ReceiveEnds

Next == \/ SendRequest \/ SendFrame \/ Leave
        \/ ThreadStep \/ ServerStops \/ SendText

Spec == Init /\ [][Next]_vars

\* The thread runs, and every recv returns: a request times out after 5 s.  That
\* a send returns, which has no timeout, is assumed here of a browser that reads
\* (HttpServer has one that does not).
FairSpec == Spec /\ WF_vars(ThreadStep)

-----------------------------------------------------------------------------
(* Properties.                                                             *)

\* Receive never loses its place: what is buffered and what is under way are
\* the frames not yet taken, from the first byte of the next one.
AtFrameStart ==
  phase \in {"receive", "parse"} =>
    LET rest == buf \o wire
    IN  rest # <<>> => /\ rest[1] = [frame |-> parsed + 1, at |-> 1]
                       /\ rest[Len(rest)].frame = Len(frames)

\* The browser reads the length the server meant (SendFrame).
LengthsAgree == DecodedLength(text.header) = text.size

\* However the stream is cut, the connection is a conversation in whole
\* messages: which answer and which commands there are depends on the cuts
\* only in which frames arrive together.
Kind(f) == CASE f.op \in {"text", "binary"} -> IF f.len = 0 THEN "blank" ELSE "say"
             [] f.op = "ping" -> "pass"
             [] f.op = "close" -> "bye"
Conv == INSTANCE Conversation WITH
          Nothing <- None, Upgrade <- "101",
          AnswerTo <- [r \in Requests |->
                         IF r.line = "malformed" THEN None ELSE AnswerOf(Parts(r))],
          Say <- "say", Blank <- "blank", Pass <- "pass", Bye <- "bye",
          open <- phase # "closed", acted <- commands,
          said <- [i \in DOMAIN frames |-> Kind(frames[i])]
ConvSpec == Conv!Spec

\* A thread does not wait for ever for a request, malformed ones included.
RequestEnds == request # None ~> phase # "request"

\* A text is heard with nothing more sent after it, unless the connection ends.
TextHeard ==
  \A k \in 1..MaxFrames : Len(frames) >= k ~> heard >= k \/ phase = "closed"

=============================================================================
