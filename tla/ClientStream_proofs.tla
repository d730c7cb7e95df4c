------------------------ MODULE ClientStream_proofs --------------------------
(***************************************************************************)
(* Proofs about a connection for all requests, frames and cuts of the      *)
(* stream.  Buffer and wire together are one sequence that no cut changes: *)
(* while a request is read it is the request's parts, afterwards each byte *)
(* tells the next one, to the last frame's end.                            *)
(***************************************************************************)
EXTENDS ClientStream, SequenceTheorems, TLAPS

USE StreamAssumption

-----------------------------------------------------------------------------
(* Lengths                                                                 *)

LEMMA ByteRange ==
  ASSUME NEW n \in Nat, NEW i \in 0..3
  PROVE  Byte(n, i) \in 0..255
<1>1. Weights[i + 1] \in Nat \ {0}
  BY SMT DEF Weights
<1>2. n \div Weights[i + 1] \in Nat
  BY <1>1
<1> QED BY <1>2 DEF Byte

\* The bytes of a number make the number again.
LEMMA BytesAgree ==
  ASSUME NEW n \in Nat, n <= 2147483647
  PROVE  /\ n < 65536 => Byte(n, 1) * 256 + Byte(n, 0) = n
         /\ ((Byte(n, 3) * 256 + Byte(n, 2)) * 256 + Byte(n, 1)) * 256 + Byte(n, 0) = n
<1> DEFINE a == n \div 256
           b == n \div 65536
           c == n \div 16777216
<1>1. /\ Byte(n, 0) = n % 256 /\ Byte(n, 1) = a % 256
      /\ Byte(n, 2) = b % 256 /\ Byte(n, 3) = c % 256
  BY SMT DEF Byte, Weights
<1>2. a = 256 * b + (a % 256) /\ b = 256 * c + (b % 256) /\ n = 256 * a + (n % 256)
  BY SMT
<1>3. c \in 0..127 /\ (n < 65536 => b = 0) /\ a \in Nat /\ b \in Nat
  BY SMT
<1>4. c % 256 = c
  BY <1>3, SMT
<1> HIDE DEF a, b, c
<1>5. a % 256 \in 0..255 /\ b % 256 \in 0..255 /\ n % 256 \in 0..255
  BY <1>3, SMT
<1> QED BY <1>1, <1>2, <1>3, <1>4, <1>5, SMT

LEMMA EncodingAgrees ==
  ASSUME NEW n \in Sizes
  PROVE  EncodeLength(n) \in Header /\ DecodedLength(EncodeLength(n)) = n
<1> DEFINE h == EncodeLength(n)
<1>0. n \in Nat
  BY SizeAssumption, SMT
<1>a. /\ n < 65536 => Byte(n, 1) * 256 + Byte(n, 0) = n
      /\ ((Byte(n, 3) * 256 + Byte(n, 2)) * 256 + Byte(n, 1)) * 256 + Byte(n, 0) = n
  BY SizeAssumption, BytesAgree, SMT
<1>1. \A i \in 0..3 : Byte(n, i) \in 0..255
  BY <1>0, ByteRange
<1>2. CASE n < 126
  <2>1. h = [first |-> n, ext |-> << >>]
    BY <1>0, <1>2 DEF EncodeLength
  <2>2. DecodedLength(h) = n
    BY <1>2, <2>1 DEF DecodedLength
  <2>3. n \in 0..127 /\ << >> \in Seq(0..255)
    BY <1>0, <1>2, EmptySeq
  <2> QED BY <2>1, <2>2, <2>3 DEF Header
<1>3. CASE n >= 126 /\ n < 65536
  <2>1. h = [first |-> 126, ext |-> <<Byte(n, 1), Byte(n, 0)>>]
    BY <1>0, <1>3 DEF EncodeLength
  <2>2. DecodedLength(h) = n
    BY <1>0, <1>a, <1>3, <2>1, SMT DEF DecodedLength
  <2>3. <<Byte(n, 1), Byte(n, 0)>> \in Seq(0..255)
    BY <1>1
  <2> QED BY <2>1, <2>2, <2>3 DEF Header
<1>4. CASE n >= 65536
  <2>1. h = [first |-> 127, ext |-> LongForm(n)]
    BY <1>0, <1>4, SMT DEF EncodeLength
  <2>2. DecodedLength(h) = n
    BY <1>0, <1>a, <2>1, SMT DEF DecodedLength, LongForm
  <2>3. LongForm(n) \in Seq(0..255)
    BY <1>1, SMT DEF LongForm
  <2> QED BY <2>1, <2>2, <2>3 DEF Header
<1> QED BY <1>0, <1>2, <1>3, <1>4

-----------------------------------------------------------------------------
(* Requests                                                                *)

\* What there is on the wire.
Places == [frame : Nat, at : Nat]
Pieces == Lines \cup Fields \cup {"blank", "byte"} \cup Places

LEMMA RunFacts ==
  ASSUME NEW n \in Nat
  PROVE  /\ Run("byte", n) \in Seq(Pieces) /\ Len(Run("byte", n)) = n
         /\ \A i \in 1..n : Run("byte", n)[i] = "byte"
BY DEF Run, Pieces

\* u is s with t behind it.
IsConcat(u, s, t) ==
  /\ u \in Seq(Pieces) /\ Len(s) \in Nat /\ Len(t) \in Nat
  /\ Len(u) = Len(s) + Len(t)
  /\ \A i \in 1..Len(s) : u[i] = s[i]
  /\ \A i \in 1..Len(t) : u[Len(s) + i] = t[i]

LEMMA Concat ==
  ASSUME NEW s \in Seq(Pieces), NEW t \in Seq(Pieces)
  PROVE  IsConcat(s \o t, s, t)
<1> DEFINE u == s \o t
<1>2. Len(s) \in Nat /\ Len(t) \in Nat
  BY LenProperties
<1>3. /\ u \in Seq(Pieces) /\ Len(u) = Len(s) + Len(t)
      /\ \A i \in 1..Len(s) + Len(t) : u[i] = IF i <= Len(s) THEN s[i] ELSE t[i - Len(s)]
  BY ConcatProperties
<1> HIDE DEF u
<1>4. ASSUME NEW i \in 1..Len(s) PROVE u[i] = s[i]
  BY <1>2, <1>3
<1>5. ASSUME NEW i \in 1..Len(t) PROVE u[Len(s) + i] = t[i]
  <2>1. Len(s) + i \in 1..Len(s) + Len(t) /\ ~(Len(s) + i <= Len(s)) /\ Len(s) + i - Len(s) = i
    BY <1>2
  <2> QED BY <1>3, <2>1
<1>6. IsConcat(u, s, t)
  BY <1>2, <1>3, <1>4, <1>5 DEF IsConcat
<1> QED BY <1>6 DEF u

\* A field before the blank line, or not.
Added(t, s, x, F) ==
  /\ t \in Seq(Pieces) /\ t # << >> /\ t[1] = s[1]
  /\ \A y : (\E i \in 1..Len(t) : t[i] = y)
            <=> (\E i \in 1..Len(s) : s[i] = y) \/ (x \in F /\ y = x)

LEMMA PartAdded ==
  ASSUME NEW s \in Seq(Pieces), s # << >>, NEW x \in Fields, NEW F
  PROVE  Added(s \o Part(x, F), s, x, F)
<1>1. Len(s) \in Nat \ {0}
  BY EmptySeq
<1>2. CASE x \in F
  <2> DEFINE p == <<x>>
             t == s \o p
  <2>1. s \o Part(x, F) = t /\ p \in Seq(Pieces) /\ Len(p) = 1 /\ p[1] = x
    BY <1>2 DEF Part, Pieces
  <2> HIDE DEF p
  <2>2. IsConcat(t, s, p)
    BY <2>1, Concat
  <2> HIDE DEF t
  <2>3. /\ t \in Seq(Pieces) /\ Len(t) = Len(s) + 1
        /\ \A i \in 1..Len(s) : t[i] = s[i]
        /\ t[Len(s) + 1] = x
    BY <2>1, <2>2, SMT DEF IsConcat
  <2>4. t # << >> /\ t[1] = s[1]
    BY <1>1, <2>3, EmptySeq
  <2>5. \A y : (\E i \in 1..Len(t) : t[i] = y) <=> (\E i \in 1..Len(s) : s[i] = y) \/ y = x
    BY <1>1, <2>3
  <2> QED BY <1>2, <2>1, <2>3, <2>4, <2>5 DEF Added
<1>3. CASE x \notin F
  <2>1. s \o Part(x, F) = s
    BY <1>3, ConcatEmptySeq DEF Part
  <2> QED BY <1>3, <2>1 DEF Added
<1> QED BY <1>2, <1>3

\* A request is a line and fields, the blank line, and a body.
Shape(r, p, end) ==
  /\ p \in Seq(Pieces) /\ end \in Nat \ {0, 1} /\ Len(p) = end + r.body
  /\ p[1] = r.line /\ p[end] = "blank"
  /\ \A i \in 1..end - 1 : p[i] # "blank"
  /\ \A x \in Fields : (\E i \in 1..end : p[i] = x) <=> x \in r.fields
  /\ \A i \in 1..r.body : p[end + i] = "byte"

LEMMA PartsShape ==
  ASSUME NEW r \in Requests
  PROVE  \E end : Shape(r, Parts(r), end)
<1> DEFINE h0 == <<r.line>>
           h1 == h0 \o Part("length", r.fields)
           h2 == h1 \o Part("upgrade", r.fields)
           h3 == h2 \o Part("key", r.fields)
           h4 == h3 \o <<"blank">>
           p == h4 \o Run("byte", r.body)
<1>1. Parts(r) = p
  BY DEF Parts
<1>2. /\ h0 \in Seq(Pieces) /\ h0 # << >> /\ h0[1] = r.line
      /\ \A y : (\E i \in 1..Len(h0) : h0[i] = y) <=> y = r.line
  BY DEF Pieces
<1>3. r.line \in Lines /\ r.fields \subseteq Fields /\ r.body \in Nat
  OBVIOUS
<1> HIDE DEF h0
<1>4. /\ h1 \in Seq(Pieces) /\ h1 # << >> /\ h1[1] = r.line
      /\ \A y : (\E i \in 1..Len(h1) : h1[i] = y)
                <=> y = r.line \/ ("length" \in r.fields /\ y = "length")
  <2>1. "length" \in Fields
    BY DEF Fields
  <2>2. Added(h1, h0, "length", r.fields)
    BY <1>2, <2>1, PartAdded
  <2> HIDE DEF h1
  <2> QED BY <1>2, <2>2 DEF Added
<1> HIDE DEF h1
<1>5. /\ h2 \in Seq(Pieces) /\ h2 # << >> /\ h2[1] = r.line
      /\ \A y : (\E i \in 1..Len(h2) : h2[i] = y)
                <=> \/ y = r.line \/ ("length" \in r.fields /\ y = "length")
                    \/ ("upgrade" \in r.fields /\ y = "upgrade")
  <2>1. "upgrade" \in Fields
    BY DEF Fields
  <2>2. Added(h2, h1, "upgrade", r.fields)
    BY <1>4, <2>1, PartAdded
  <2> HIDE DEF h2
  <2> QED BY <1>4, <2>2 DEF Added
<1> HIDE DEF h2
<1>6. /\ h3 \in Seq(Pieces) /\ h3 # << >> /\ h3[1] = r.line
      /\ \A y : (\E i \in 1..Len(h3) : h3[i] = y)
                <=> \/ y = r.line \/ ("length" \in r.fields /\ y = "length")
                    \/ ("upgrade" \in r.fields /\ y = "upgrade")
                    \/ ("key" \in r.fields /\ y = "key")
  <2>1. "key" \in Fields
    BY DEF Fields
  <2>2. Added(h3, h2, "key", r.fields)
    BY <1>5, <2>1, PartAdded
  <2> HIDE DEF h3
  <2> QED BY <1>5, <2>2 DEF Added
<1>7. \A i \in 1..Len(h3) : h3[i] # "blank"
  BY <1>3, <1>6 DEF Lines
<1>8. \A x \in Fields : (\E i \in 1..Len(h3) : h3[i] = x) <=> x \in r.fields
  BY <1>3, <1>6 DEF Lines, Fields
<1> HIDE DEF h3
<1>9. Len(h3) \in Nat \ {0}
  BY <1>6, EmptySeq
<1>10. /\ h4 \in Seq(Pieces) /\ Len(h4) = Len(h3) + 1
       /\ \A i \in 1..Len(h3) : h4[i] = h3[i]
       /\ h4[Len(h3) + 1] = "blank"
  <2> DEFINE b == <<"blank">>
  <2>1. b \in Seq(Pieces) /\ Len(b) = 1 /\ b[1] = "blank"
    BY DEF Pieces
  <2> HIDE DEF b
  <2>2. IsConcat(h3 \o b, h3, b)
    BY <1>6, <2>1, Concat
  <2>3. h4 = h3 \o b
    BY DEF b
  <2> HIDE DEF h4
  <2> QED BY <1>9, <2>1, <2>2, <2>3, SMT DEF IsConcat
<1> HIDE DEF h4
<1>11. /\ p \in Seq(Pieces) /\ Len(p) = Len(h3) + 1 + r.body
       /\ \A i \in 1..Len(h3) + 1 : p[i] = h4[i]
       /\ \A i \in 1..r.body : p[Len(h3) + 1 + i] = "byte"
  <2> DEFINE b == Run("byte", r.body)
  <2>1. b \in Seq(Pieces) /\ Len(b) = r.body /\ \A i \in 1..r.body : b[i] = "byte"
    BY <1>3, RunFacts
  <2> HIDE DEF b
  <2>2. IsConcat(h4 \o b, h4, b)
    BY <1>10, <2>1, Concat
  <2>3. p = h4 \o b
    BY DEF b
  <2> HIDE DEF p
  <2> QED BY <1>3, <1>9, <1>10, <2>1, <2>2, <2>3, SMT DEF IsConcat
<1> HIDE DEF p
<1> DEFINE end == Len(h3) + 1
<1>12. /\ p[1] = r.line /\ p[end] = "blank"
       /\ \A i \in 1..end - 1 : p[i] = h3[i]
  <2> DEFINE l == Len(h3)
  <2>1. l \in Nat \ {0} /\ h3[1] = r.line
    BY <1>6, <1>9
  <2>2. /\ \A i \in 1..l : h4[i] = h3[i]
        /\ h4[l + 1] = "blank"
        /\ \A i \in 1..l + 1 : p[i] = h4[i]
    BY <1>10, <1>11
  <2> HIDE DEF l
  <2>3. \A i \in 1..l : i \in 1..l + 1
    BY <2>1
  <2>4. 1 \in 1..l /\ l + 1 \in 1..l + 1 /\ (l + 1) - 1 = l
    BY <2>1
  <2>5. p[1] = r.line /\ p[l + 1] = "blank" /\ \A i \in 1..(l + 1) - 1 : p[i] = h3[i]
    BY <2>1, <2>2, <2>3, <2>4
  <2> QED BY <2>5 DEF l
<1>13. \A x \in Fields : (\E i \in 1..end : p[i] = x) <=> x \in r.fields
  <2>1. \A x \in Fields : p[end] # x
    BY <1>12 DEF Fields
  <2>2. \A x \in Fields : (\E i \in 1..end : p[i] = x) <=> (\E i \in 1..Len(h3) : h3[i] = x)
    BY <1>9, <1>12, <2>1
  <2> QED BY <1>8, <2>2
<1>14. Shape(r, p, end)
  BY <1>7, <1>9, <1>11, <1>12, <1>13 DEF Shape
<1> QED BY <1>1, <1>14

\* What AnswerOf finds in a head of this request.
ReplyTo(r) ==
  CASE r.line = "nopath" -> None
    [] r.line # "nopath" /\ "upgrade" \in r.fields ->
         IF "key" \in r.fields THEN "101" ELSE None
    [] r.line \in {"page", "status"} /\ "upgrade" \notin r.fields -> r.line
    [] r.line \in {"elsewhere", "websocket"} /\ "upgrade" \notin r.fields -> "404"

LEMMA AnswerFromHead ==
  ASSUME NEW r \in Requests, NEW h, h[1] = r.line,
         \A x \in Fields : Has(h, x) <=> x \in r.fields
  PROVE  AnswerOf(h) = ReplyTo(r)
<1>1. /\ Has(h, "upgrade") <=> "upgrade" \in r.fields
      /\ Has(h, "key") <=> "key" \in r.fields
  BY DEF Fields
<1>2. CASE "upgrade" \in r.fields
  <2>1. Has(h, "upgrade")
    BY <1>1, <1>2
  <2>2. CASE "key" \in r.fields
    <3>1. Has(h, "key")
      BY <1>1, <2>2
    <3> QED BY <1>2, <2>1, <2>2, <3>1 DEF AnswerOf, ReplyTo
  <2>3. CASE "key" \notin r.fields
    <3>1. ~Has(h, "key")
      BY <1>1, <2>3
    <3> QED BY <1>2, <2>1, <2>3, <3>1 DEF AnswerOf, ReplyTo
  <2> QED BY <2>2, <2>3
<1>3. CASE "upgrade" \notin r.fields
  <2>1. ~Has(h, "upgrade")
    BY <1>1, <1>3
  <2> QED BY <1>3, <2>1 DEF AnswerOf, ReplyTo
<1> QED BY <1>2, <1>3

LEMMA ReplyType ==
  ASSUME NEW r \in Requests, r.line # "malformed"
  PROVE  ReplyTo(r) \in Answers
BY DEF ReplyTo, Answers, Lines

LEMMA AnswerToWhole ==
  ASSUME NEW r \in Requests
  PROVE  AnswerOf(Parts(r)) = ReplyTo(r)
<1> DEFINE p == Parts(r)
<1>1. PICK end : Shape(r, p, end)
  BY PartsShape
<1> HIDE DEF p
<1>2. p[1] = r.line /\ DOMAIN p = 1..Len(p) /\ r.body \in Nat
  BY <1>1 DEF Shape
<1>3. ASSUME NEW x \in Fields PROVE Has(p, x) <=> x \in r.fields
  <2>1. ASSUME NEW i \in 1..Len(p), p[i] = x PROVE i \in 1..end
    <3>1. CASE i > end
      <4>1. i - end \in 1..r.body /\ end + (i - end) = i
        BY <1>1, <1>2, <3>1 DEF Shape
      <4>2. p[i] = "byte"
        BY <1>1, <4>1 DEF Shape
      <4> QED BY <2>1, <4>2 DEF Fields
    <3> QED BY <1>1, <3>1 DEF Shape
  <2>2. 1..end \subseteq 1..Len(p)
    BY <1>1, <1>2 DEF Shape
  <2>3. (\E i \in 1..end : p[i] = x) <=> x \in r.fields
    BY <1>1 DEF Shape
  <2> QED BY <1>2, <2>1, <2>2, <2>3 DEF Has
<1>4. AnswerOf(p) = ReplyTo(r)
  BY <1>2, <1>3, AnswerFromHead
<1> QED BY <1>4 DEF p

\* When Feed has a request, it has all of it, and answers that request.
LEMMA WholeRequest ==
  ASSUME NEW r \in Requests, NEW q \in Seq(Pieces), NEW w \in Seq(Pieces),
         q \o w = Parts(r), Complete(q)
  PROVE  /\ w = << >> /\ r.line # "malformed"
         /\ AnswerOf(SubSeq(q, 1, Place(q, "blank"))) = ReplyTo(r)
<1> DEFINE p == Parts(r)
<1>1. PICK end : Shape(r, p, end)
  BY PartsShape
<1>2. IsConcat(p, q, w)
  BY Concat
<1> HIDE DEF p
<1>3. /\ end \in Nat \ {0, 1} /\ r.body \in Nat /\ Len(p) = end + r.body
      /\ Len(q) \in Nat /\ Len(w) \in Nat /\ Len(p) = Len(q) + Len(w)
      /\ DOMAIN q = 1..Len(q)
  <2>1. end \in Nat \ {0, 1} /\ Len(p) = end + r.body
    BY <1>1 DEF Shape
  <2>2. Len(q) \in Nat /\ Len(w) \in Nat /\ Len(p) = Len(q) + Len(w)
    BY <1>2 DEF IsConcat
  <2> QED BY <2>1, <2>2, LenProperties
<1>4. \A i \in 1..Len(q) : p[i] = q[i]
  BY <1>2 DEF IsConcat
<1>5. PICK b \in 1..Len(q) : q[b] = "blank"
  BY <1>3 DEF Complete, Has
<1>6. end \in 1..Len(q) /\ q[end] = "blank" /\ \A j \in 1..end - 1 : q[j] # "blank"
  <2>1. b \notin 1..end - 1
    BY <1>1, <1>4, <1>5 DEF Shape
  <2>2. end \in 1..Len(q)
    BY <1>3, <1>5, <2>1
  <2> QED BY <1>1, <1>3, <1>4, <2>2 DEF Shape
<1>7. Place(q, "blank") = end
  <2> DEFINE P(i) == q[i] = "blank" /\ \A j \in 1..i - 1 : q[j] # "blank"
  <2>1. end \in DOMAIN q /\ P(end)
    BY <1>3, <1>6
  <2>2. ASSUME NEW i \in DOMAIN q, P(i) PROVE i = end
    <3>1. ~(i < end)
      BY <1>3, <1>6, <2>2
    <3>2. ~(end < i)
      BY <1>3, <1>6, <2>2
    <3> QED BY <1>3, <3>1, <3>2
  <2>3. Place(q, "blank") = CHOOSE i \in DOMAIN q : P(i)
    BY DEF Place
  <2> HIDE DEF P
  <2> QED BY <2>1, <2>2, <2>3
<1> DEFINE h == SubSeq(q, 1, end)
<1>8. Len(h) = end /\ DOMAIN h = 1..end /\ \A i \in 1..end : h[i] = p[i]
  <2>1. /\ h \in Seq(Pieces) /\ Len(h) = end
        /\ \A i \in 1..end : h[i] = q[i]
    BY <1>3, <1>6
  <2> HIDE DEF h
  <2> QED BY <1>3, <1>4, <1>6, <2>1
<1> HIDE DEF h
<1>9. h[1] = r.line /\ \A x \in Fields : Has(h, x) <=> x \in r.fields
  <2>1. h[1] = p[1] /\ p[1] = r.line
    BY <1>1, <1>3, <1>8 DEF Shape
  <2>2. ASSUME NEW x \in Fields PROVE Has(h, x) <=> x \in r.fields
    <3>1. (\E i \in 1..end : p[i] = x) <=> x \in r.fields
      BY <1>1 DEF Shape
    <3> QED BY <1>8, <3>1 DEF Has
  <2> QED BY <2>1, <2>2
<1>10. AnswerOf(h) = ReplyTo(r)
  BY <1>9, AnswerFromHead
<1>11. Len(q) >= end + Needed(h) /\ q[1] # "malformed"
  BY <1>7 DEF Complete, h
<1>12. Needed(h) = r.body
  <2>1. "length" \in Fields
    BY DEF Fields
  <2>2. CASE "length" \in r.fields
    BY <1>9, <2>1, <2>2, BodyAssumption DEF Needed
  <2>3. CASE "length" \notin r.fields
    BY <1>9, <2>1, <2>3, BodyAssumption DEF Needed
  <2> QED BY <2>2, <2>3
<1>13. w = << >>
  <2>1. Len(w) = 0
    BY <1>3, <1>11, <1>12
  <2> QED BY <2>1, EmptySeq
<1>14. r.line # "malformed"
  BY <1>1, <1>3, <1>4, <1>6, <1>11 DEF Shape
<1> QED BY <1>7, <1>10, <1>13, <1>14 DEF h

-----------------------------------------------------------------------------
(* Frames                                                                  *)

LEMMA Associates ==
  ASSUME NEW a \in Seq(Pieces), NEW b \in Seq(Pieces), NEW c \in Seq(Pieces)
  PROVE  (a \o b) \o c = a \o (b \o c)
BY ConcatAssociative

LEMMA CutKeeps ==
  ASSUME NEW b \in Seq(Pieces), NEW w \in Seq(Pieces), NEW n \in 1..Len(w)
  PROVE  /\ b \o SubSeq(w, 1, n) \in Seq(Pieces)
         /\ SubSeq(w, n + 1, Len(w)) \in Seq(Pieces)
         /\ (b \o SubSeq(w, 1, n)) \o SubSeq(w, n + 1, Len(w)) = b \o w
<1> DEFINE u == SubSeq(w, 1, n)
           v == SubSeq(w, n + 1, Len(w))
<1>1. Len(w) \in Nat /\ n \in Nat /\ n <= Len(w) /\ n >= 1
  BY LenProperties
<1>2. u \in Seq(Pieces)
  BY <1>1
<1>3. v \in Seq(Pieces)
  BY <1>1
<1>4. u \o v = w
  <2>1. /\ 1 \in 1..Len(w) + 1 /\ n \in 1 - 1..Len(w) /\ Len(w) \in n..Len(w)
    BY <1>1
  <2>2. u \o v = SubSeq(w, 1, Len(w))
    BY <2>1, ConcatAdjacentSubSeq
  <2> QED BY <2>2, SubSeqFull
<1> HIDE DEF u, v
<1>5. b \o u \in Seq(Pieces)
  BY <1>2, ConcatProperties
<1>6. (b \o u) \o v = b \o w
  <2>1. (b \o u) \o v = b \o (u \o v)
    BY <1>2, <1>3, SMT
  <2> QED BY <1>4, <2>1
<1> QED BY <1>3, <1>5, <1>6 DEF u, v

LEMMA LengthFacts ==
  ASSUME NEW f \in FrameKinds
  PROVE  Length(f) \in Nat \ {0, 1} /\ f.op \in Ops /\ f.len \in Nat
<1>1. f \in [op : Ops, ext : {0, 2, 8}, mask : {0, 4}, len : Nat]
  OBVIOUS
<1> QED BY <1>1 DEF Length, HeaderLength

\* Every byte tells the next one; k frames are gone.
InPlace(c, fs) ==
  \A i \in 1..Len(c) :
     /\ c[i].frame \in 1..Len(fs) /\ c[i].at \in Nat \ {0}
     /\ c[i].at <= Length(fs[c[i].frame])
SameFrame(c, fs) ==
  \A i \in 1..Len(c) : \A d \in Nat :
     c[i].at + d <= Length(fs[c[i].frame]) =>
       /\ i + d <= Len(c)
       /\ c[i + d] = [frame |-> c[i].frame, at |-> c[i].at + d]
NextFrame(c, fs) ==
  \A i \in 1..Len(c) :
     c[i].at = Length(fs[c[i].frame]) =>
       IF i = Len(c) THEN c[i].frame = Len(fs)
                     ELSE c[i + 1] = [frame |-> c[i].frame + 1, at |-> 1]
Starts(c, k, fs) == IF Len(c) = 0 THEN k = Len(fs) ELSE c[1] = [frame |-> k + 1, at |-> 1]
Chain(c, k, fs) == /\ c \in Seq(Pieces) /\ k \in 0..Len(fs)
                   /\ InPlace(c, fs) /\ SameFrame(c, fs) /\ NextFrame(c, fs)
                   /\ Starts(c, k, fs)

\* u is s without its first n.
IsRest(u, s, n) ==
  /\ n \in 0..Len(s) /\ Len(u) = Len(s) - n
  /\ \A i \in 1..Len(s) - n : u[i] = s[i + n]

\* The last byte of the last frame ends it.
LEMMA ChainEnds ==
  ASSUME NEW fs \in Seq(FrameKinds), NEW k, NEW c, Chain(c, k, fs), Len(c) # 0
  PROVE  c[1] = [frame |-> k + 1, at |-> 1] /\ c[Len(c)].frame = Len(fs)
<1> DEFINE l == Len(c)
           F == Length(fs[c[l].frame])
<1>1. l \in Nat \ {0} /\ l \in 1..Len(c)
  BY LenProperties DEF Chain
<1>2. c[l].at \in Nat /\ c[l].at <= F
  BY <1>1 DEF Chain, InPlace
<1>3. F \in Nat
  BY <1>1, LengthFacts DEF Chain, InPlace
<1>4. c[l].at = F
  <2>1. \A d \in Nat : c[l].at + d <= F => l + d <= l
    BY <1>1 DEF Chain, SameFrame
  <2> HIDE DEF l, F
  <2>2. ~(c[l].at + 1 <= F)
    BY <1>1, <2>1
  <2> QED BY <1>2, <1>3, <2>2
<1>5. c[l].frame = Len(fs)
  BY <1>1, <1>4 DEF Chain, NextFrame
<1> QED BY <1>5 DEF Chain, Starts

\* The front frame is whole once its length is there, and then goes.
LEMMA ChainTakes ==
  ASSUME NEW fs \in Seq(FrameKinds), NEW k, NEW c, Chain(c, k, fs), Len(c) # 0
  PROVE  /\ k + 1 \in 1..Len(fs) /\ c[1].frame = k + 1
         /\ Length(fs[k + 1]) \in 1..Len(c)
         /\ \A u \in Seq(Pieces) :
              IsRest(u, c, Length(fs[k + 1])) => Chain(u, k + 1, fs)
<1> DEFINE L == Length(fs[k + 1])
<1>1. Len(c) \in Nat \ {0} /\ 1 \in 1..Len(c) /\ c[1] = [frame |-> k + 1, at |-> 1]
      /\ k \in Nat /\ Len(fs) \in Nat
  BY LenProperties DEF Chain, Starts
<1>2. c[1].frame = k + 1 /\ c[1].at = 1
  BY <1>1
<1>3. k + 1 \in 1..Len(fs)
  BY <1>1, <1>2 DEF Chain, InPlace
<1>4. L \in Nat \ {0, 1}
  BY <1>3, LengthFacts
<1> HIDE DEF L
<1>5. L \in 1..Len(c) /\ c[L] = [frame |-> k + 1, at |-> L]
  <2>1. L - 1 \in Nat /\ 1 + (L - 1) = L /\ 1 + (L - 1) <= L
    BY <1>4
  <2>2. 1 + (L - 1) <= Len(c) /\ c[1 + (L - 1)] = [frame |-> k + 1, at |-> 1 + (L - 1)]
    BY <1>1, <1>2, <2>1 DEF Chain, SameFrame, L
  <2> QED BY <1>1, <1>4, <2>1, <2>2
<1>6. ASSUME NEW u \in Seq(Pieces), IsRest(u, c, L) PROVE Chain(u, k + 1, fs)
  <2>1. /\ Len(u) = Len(c) - L /\ Len(u) \in Nat
        /\ \A i \in 1..Len(u) : u[i] = c[i + L] /\ i + L \in 1..Len(c)
    BY <1>1, <1>5, <1>6 DEF IsRest
  <2>0. Len(u) \in Nat /\ Len(c) = Len(u) + L
    <3>1. Len(u) = Len(c) - L /\ Len(u) \in Nat
      BY <2>1
    <3> QED BY <1>1, <1>4, <3>1
  <2>2. InPlace(u, fs)
    BY <2>1 DEF Chain, InPlace
  <2>3. SameFrame(u, fs)
    <3> SUFFICES ASSUME NEW i \in 1..Len(u), NEW d \in Nat,
                        u[i].at + d <= Length(fs[u[i].frame])
                 PROVE  /\ i + d <= Len(u)
                        /\ u[i + d] = [frame |-> u[i].frame, at |-> u[i].at + d]
      BY DEF SameFrame
    <3> DEFINE j == i + L
    <3>1. j \in 1..Len(c) /\ u[i] = c[j] /\ i \in Nat /\ j = i + L
      BY <1>4, <2>1
    <3> HIDE DEF j
    <3>2. /\ j + d <= Len(c)
          /\ c[j + d] = [frame |-> u[i].frame, at |-> u[i].at + d]
      BY <3>1 DEF Chain, SameFrame
    <3>3. i + d \in 1..Len(u) /\ j + d = (i + d) + L
      BY <1>1, <1>4, <2>1, <3>1, <3>2
    <3>4. u[i + d] = c[j + d]
      BY <2>1, <3>3
    <3> QED BY <3>2, <3>3, <3>4
  <2>4. NextFrame(u, fs)
    <3> SUFFICES ASSUME NEW i \in 1..Len(u), u[i].at = Length(fs[u[i].frame])
                 PROVE  IF i = Len(u) THEN u[i].frame = Len(fs)
                                      ELSE u[i + 1] = [frame |-> u[i].frame + 1, at |-> 1]
      BY DEF NextFrame
    <3>1. IF i + L = Len(c) THEN u[i].frame = Len(fs)
                            ELSE c[(i + L) + 1] = [frame |-> u[i].frame + 1, at |-> 1]
      BY <2>1 DEF Chain, NextFrame
    <3>0. i \in Nat /\ i <= Len(u) /\ i >= 1
      BY <2>1
    <3>2. CASE i = Len(u)
      <4>1. i + L = Len(c)
        BY <2>0, <3>2
      <4> QED BY <3>1, <3>2, <4>1
    <3>3. CASE i # Len(u)
      <4>1. i + 1 \in 1..Len(u) /\ (i + L) + 1 = (i + 1) + L /\ i + L # Len(c)
        BY <1>1, <1>4, <2>0, <3>0, <3>3
      <4>2. u[i + 1] = c[(i + L) + 1]
        BY <2>1, <4>1
      <4> QED BY <3>1, <3>3, <4>1, <4>2
    <3> QED BY <3>2, <3>3
  <2>5. Starts(u, k + 1, fs)
    <3>1. IF L = Len(c) THEN k + 1 = Len(fs) ELSE c[L + 1] = [frame |-> (k + 1) + 1, at |-> 1]
      <4>1. c[L].at = Length(fs[c[L].frame]) /\ c[L].frame = k + 1
        BY <1>5 DEF L
      <4> QED BY <1>5, <4>1 DEF Chain, NextFrame
    <3>2. CASE Len(u) = 0
      BY <1>1, <1>4, <2>1, <3>1, <3>2 DEF Starts
    <3>3. CASE Len(u) # 0
      <4>1. 1 \in 1..Len(u) /\ 1 + L = L + 1 /\ L # Len(c)
        BY <1>1, <1>4, <2>1, <3>3
      <4> QED BY <2>1, <3>1, <3>3, <4>1 DEF Starts
    <3> QED BY <3>2, <3>3
  <2> QED BY <1>1, <1>3, <2>2, <2>3, <2>4, <2>5 DEF Chain
<1> QED BY <1>2, <1>3, <1>5, <1>6 DEF L

\* A new frame goes behind.
LEMMA ChainSends ==
  ASSUME NEW fs \in Seq(FrameKinds), NEW f \in FrameKinds, NEW k, NEW c, Chain(c, k, fs)
  PROVE  Chain(c \o Bytes(Len(fs) + 1, f), k, Append(fs, f))
<1> DEFINE b == Bytes(Len(fs) + 1, f)
           gs == Append(fs, f)
           u == c \o b
           L == Length(f)
           n == Len(c)
           m == Len(fs)
<1>1. L \in Nat \ {0, 1}
  BY LengthFacts
<1>2. m \in Nat /\ n \in Nat /\ c \in Seq(Pieces)
  BY LenProperties DEF Chain
<1> HIDE DEF L
<1>3. b \in Seq(Pieces) /\ Len(b) = L /\ \A i \in 1..L : b[i] = [frame |-> m + 1, at |-> i]
  <2>1. b = [i \in 1..L |-> [frame |-> m + 1, at |-> i]]
    BY DEF Bytes, L
  <2> HIDE DEF b, m
  <2>2. \A i \in 1..L : [frame |-> m + 1, at |-> i] \in Pieces
    BY <1>1, <1>2 DEF Pieces, Places
  <2> QED BY <1>1, <2>1, <2>2
<1>4. /\ gs \in Seq(FrameKinds) /\ Len(gs) = m + 1 /\ gs[m + 1] = f
      /\ \A i \in 1..m : gs[i] = fs[i]
  BY <1>2
<1> HIDE DEF b, gs
<1>5. IsConcat(u, c, b)
  BY <1>2, <1>3, Concat
<1> HIDE DEF u
<1>6. /\ u \in Seq(Pieces) /\ Len(u) = n + L
      /\ \A i \in 1..n : u[i] = c[i]
      /\ \A i \in 1..L : u[n + i] = [frame |-> m + 1, at |-> i]
  BY <1>3, <1>5 DEF IsConcat
<1>7. ASSUME NEW i \in 1..n
      PROVE  /\ u[i] = c[i] /\ c[i].frame \in 1..m /\ c[i].at \in Nat \ {0}
             /\ gs[u[i].frame] = fs[c[i].frame]
             /\ c[i].at <= Length(fs[c[i].frame])
  BY <1>4, <1>6 DEF Chain, InPlace
<1>8. ASSUME NEW i \in 1..Len(u), i \notin 1..n
      PROVE  /\ i - n \in 1..L /\ n + (i - n) = i
             /\ u[i] = [frame |-> m + 1, at |-> i - n]
             /\ u[i].frame = m + 1 /\ u[i].at = i - n
             /\ gs[u[i].frame] = f
  <2>1. i - n \in 1..L /\ n + (i - n) = i
    BY <1>1, <1>2, <1>6, <1>8
  <2>2. u[i] = [frame |-> m + 1, at |-> i - n]
    BY <1>6, <2>1
  <2> QED BY <1>4, <2>1, <2>2
<1> HIDE DEF n, m
<1>9. InPlace(u, gs)
  <2> SUFFICES ASSUME NEW i \in 1..Len(u)
               PROVE  /\ u[i].frame \in 1..Len(gs) /\ u[i].at \in Nat \ {0}
                      /\ u[i].at <= Length(gs[u[i].frame])
    BY DEF InPlace
  <2>1. CASE i \in 1..n
    <3>1. u[i].frame \in 1..m /\ u[i].at \in Nat \ {0} /\ u[i].at <= Length(gs[u[i].frame])
      BY <1>7, <2>1
    <3> QED BY <1>2, <1>4, <3>1
  <2>2. CASE i \notin 1..n
    <3>1. u[i].frame = m + 1 /\ u[i].at = i - n /\ i - n \in 1..L /\ Length(gs[u[i].frame]) = L
      BY <1>8, <2>2 DEF L
    <3> QED BY <1>1, <1>2, <1>4, <3>1
  <2> QED BY <2>1, <2>2
<1>10. SameFrame(u, gs)
  <2> SUFFICES ASSUME NEW i \in 1..Len(u), NEW d \in Nat,
                      u[i].at + d <= Length(gs[u[i].frame])
               PROVE  /\ i + d <= Len(u)
                      /\ u[i + d] = [frame |-> u[i].frame, at |-> u[i].at + d]
    BY DEF SameFrame
  <2>1. CASE i \in 1..n
    <3>1. i + d <= n /\ c[i + d] = [frame |-> u[i].frame, at |-> u[i].at + d]
      <4>1. c[i].at + d <= Length(fs[c[i].frame]) /\ u[i] = c[i]
        BY <1>7, <2>1
      <4>2. i \in 1..Len(c) /\ SameFrame(c, fs)
        BY <2>1 DEF Chain, n
      <4>3. i + d <= Len(c) /\ c[i + d] = [frame |-> c[i].frame, at |-> c[i].at + d]
        BY <4>1, <4>2 DEF SameFrame
      <4> QED BY <4>1, <4>3 DEF n
    <3>2. i + d \in 1..n /\ i + d <= Len(u)
      BY <1>1, <1>2, <1>6, <3>1
    <3> QED BY <1>6, <3>1, <3>2
  <2>2. CASE i \notin 1..n
    <3>1. /\ i - n \in 1..L /\ n + (i - n) = i /\ u[i].frame = m + 1 /\ u[i].at = i - n
          /\ (i - n) + d <= L
      <4>1. /\ i - n \in 1..L /\ n + (i - n) = i /\ u[i].frame = m + 1 /\ u[i].at = i - n
            /\ Length(gs[u[i].frame]) = L
        BY <1>8, <2>2 DEF L
      <4> QED BY <4>1
    <3>2. (i - n) + d \in 1..L /\ n + ((i - n) + d) = i + d /\ i + d <= Len(u)
      <4> DEFINE e == i - n
      <4>1. e \in Nat \ {0} /\ e + d <= L /\ n + e = i /\ Len(u) = n + L
        BY <1>6, <3>1
      <4> HIDE DEF e
      <4>2. e + d \in 1..L /\ n + (e + d) = i + d /\ i + d <= Len(u)
        BY <1>1, <1>2, <4>1
      <4> QED BY <4>2 DEF e
    <3>3. u[n + ((i - n) + d)] = [frame |-> m + 1, at |-> (i - n) + d]
      BY <1>6, <3>2
    <3> QED BY <3>1, <3>2, <3>3
  <2> QED BY <2>1, <2>2
<1>11. NextFrame(u, gs)
  <2> SUFFICES ASSUME NEW i \in 1..Len(u), u[i].at = Length(gs[u[i].frame])
               PROVE  IF i = Len(u) THEN u[i].frame = Len(gs)
                                    ELSE u[i + 1] = [frame |-> u[i].frame + 1, at |-> 1]
    BY DEF NextFrame
  <2>1. CASE i \in 1..n
    <3>1. IF i = n THEN c[i].frame = m
                   ELSE c[i + 1] = [frame |-> c[i].frame + 1, at |-> 1]
      BY <1>7, <2>1 DEF Chain, NextFrame, n, m
    <3>2. i # Len(u) /\ i \in Nat
      BY <1>1, <1>2, <1>6, <2>1
    <3>3. CASE i = n
      <4>1. u[n + 1] = [frame |-> m + 1, at |-> 1]
        BY <1>1, <1>6
      <4> QED BY <1>7, <2>1, <3>1, <3>2, <3>3, <4>1
    <3>4. CASE i # n
      <4>1. i + 1 \in 1..n
        BY <1>2, <2>1, <3>4
      <4> QED BY <1>6, <1>7, <2>1, <3>1, <3>2, <3>4, <4>1
    <3> QED BY <3>3, <3>4
  <2>2. CASE i \notin 1..n
    <3>1. u[i].frame = m + 1 /\ u[i].at = i - n /\ i - n = L
      BY <1>8, <2>2 DEF L
    <3>2. i = Len(u)
      BY <1>1, <1>2, <1>6, <3>1
    <3> QED BY <1>4, <3>1, <3>2
  <2> QED BY <2>1, <2>2
<1>12. Starts(u, k, gs)
  <2>1. Len(u) \in Nat \ {0}
    BY <1>1, <1>2, <1>6
  <2>2. CASE n = 0
    <3>1. k = m
      BY <2>2 DEF Chain, Starts, n, m
    <3>2. u[n + 1] = [frame |-> m + 1, at |-> 1]
      BY <1>1, <1>6
    <3> QED BY <2>1, <2>2, <3>1, <3>2 DEF Starts
  <2>3. CASE n # 0
    <3>1. c[1] = [frame |-> k + 1, at |-> 1]
      BY <2>3 DEF Chain, Starts, n
    <3>2. 1 \in 1..n
      BY <1>2, <2>3
    <3> QED BY <1>6, <2>1, <3>1, <3>2 DEF Starts
  <2> QED BY <2>2, <2>3
<1>13. k \in 0..Len(gs)
  BY <1>2, <1>4 DEF Chain, m
<1>14. Chain(u, k, gs)
  BY <1>6, <1>9, <1>10, <1>11, <1>12, <1>13 DEF Chain
<1> QED BY <1>14 DEF u, b, gs

-----------------------------------------------------------------------------
(* The invariant                                                           *)

Rest == buf \o wire
IsText(f) == f.op \in {"text", "binary"}

\* While a request is read, what is buffered and under way is that request.
RequestInv ==
  phase = "request" =>
    /\ answer = None /\ frames = << >> /\ out = 0 /\ parsed = 0 /\ heard = 0
    /\ buf \in Seq(Pieces) /\ wire \in Seq(Pieces)
    /\ Rest = IF request = None THEN << >> ELSE Parts(request)

\* Afterwards it is the frames not yet taken.
FramesInv ==
  phase \in {"receive", "parse"} =>
    /\ request # None /\ answer = "101"
    /\ buf \in Seq(Pieces) /\ wire \in Seq(Pieces)
    /\ Chain(Rest, parsed, frames)

\* out is of the batch's last text: none, or l.
NoText(o, h, k, fs) == o = 0 /\ \A i \in h + 1..k : ~IsText(fs[i])
LastIs(l, o, h, k, fs) ==
  /\ l \in h + 1..k /\ IsText(fs[l])
  /\ \A j \in l + 1..k : ~IsText(fs[j])
  /\ o = IF fs[l].len = 0 THEN 0 ELSE l
Batch(o, h, k, fs) == NoText(o, h, k, fs) \/ \E l \in Nat : LastIs(l, o, h, k, fs)

BatchInv ==
  phase \in {"receive", "parse"} =>
    /\ \A i \in 1..parsed : frames[i].op # "close"
    /\ Batch(out, heard, parsed, frames)
    /\ phase = "receive" => out = 0 /\ heard = parsed

TextInv == text.size \in Sizes /\ text.header = EncodeLength(text.size)

StreamInv == TypeOK /\ RequestInv /\ FramesInv /\ BatchInv /\ TextInv

LEMMA InitHolds == Init => StreamInv
<1> SUFFICES ASSUME Init PROVE StreamInv
  OBVIOUS
<1>1. TextInv
  <2>1. PICK n \in Sizes : text = [size |-> n, header |-> EncodeLength(n)]
    BY DEF Init
  <2> QED BY <2>1 DEF TextInv
<1>2. TypeOK
  <2>1. text.header \in Header
    BY <1>1, EncodingAgrees DEF TextInv
  <2>2. frames \in Seq(FrameKinds) /\ commands \in Seq(1..MaxFrames) /\ Len(frames) = 0
    BY DEF Init
  <2>3. /\ request \in Requests \cup {None} /\ leaving \in BOOLEAN
        /\ phase \in {"request", "receive", "parse", "closed"} /\ answer \in Answers
    BY DEF Init, Answers
  <2>4. /\ out \in 0..MaxFrames /\ parsed \in 0..MaxFrames /\ heard \in 0..parsed
        /\ Len(frames) <= MaxFrames
    BY <2>2 DEF Init
  <2> QED BY <1>1, <2>1, <2>2, <2>3, <2>4 DEF TypeOK, TextInv
<1>3. RequestInv
  <2>1. << >> \in Seq(Pieces) /\ << >> \o << >> = << >>
    BY ConcatEmptySeq
  <2> QED BY <2>1 DEF Init, RequestInv, Rest
<1> QED BY <1>1, <1>2, <1>3 DEF Init, StreamInv, FramesInv, BatchInv

\* What a new frame does to a batch.
LEMMA BatchKeeps ==
  ASSUME NEW fs, NEW gs, NEW o, NEW h, NEW k \in Nat, h \in Nat,
         \A i \in 1..k : gs[i] = fs[i], Batch(o, h, k, fs)
  PROVE  Batch(o, h, k, gs)
<1>1. CASE NoText(o, h, k, fs)
  <2>1. ASSUME NEW i \in h + 1..k PROVE ~IsText(gs[i])
    <3>1. i \in 1..k
      OBVIOUS
    <3> QED BY <1>1, <3>1 DEF NoText
  <2> QED BY <1>1, <2>1 DEF Batch, NoText
<1>2. ASSUME NEW l \in Nat, LastIs(l, o, h, k, fs) PROVE LastIs(l, o, h, k, gs)
  <2>1. l \in 1..k /\ l \in h + 1..k
    BY <1>2 DEF LastIs
  <2>2. gs[l] = fs[l]
    BY <2>1
  <2>3. ASSUME NEW j \in l + 1..k PROVE ~IsText(gs[j])
    <3>1. j \in 1..k
      BY <2>1
    <3> QED BY <1>2, <3>1 DEF LastIs
  <2> QED BY <1>2, <2>1, <2>2, <2>3 DEF LastIs
<1> QED BY <1>1, <1>2 DEF Batch

\* What taking a frame does to it.
LEMMA BatchTakes ==
  ASSUME NEW fs, NEW o, NEW p, NEW h \in Nat, NEW k \in Nat, h <= k, Batch(o, h, k, fs),
         p = IF IsText(fs[k + 1]) THEN IF fs[k + 1].len = 0 THEN 0 ELSE k + 1 ELSE o
  PROVE  Batch(p, h, k + 1, fs)
<1>1. CASE IsText(fs[k + 1])
  <2>1. k + 1 \in h + 1..k + 1 /\ k + 1 \in Nat /\ (k + 1) + 1..k + 1 = {}
    OBVIOUS
  <2>2. LastIs(k + 1, p, h, k + 1, fs)
    BY <1>1, <2>1 DEF LastIs
  <2> QED BY <2>1, <2>2 DEF Batch
<1>2. CASE ~IsText(fs[k + 1])
  <2>1. p = o
    BY <1>2
  <2>2. CASE NoText(o, h, k, fs)
    <3>1. ASSUME NEW i \in h + 1..k + 1 PROVE ~IsText(fs[i])
      <4>1. i = k + 1 \/ i \in h + 1..k
        OBVIOUS
      <4> QED BY <1>2, <2>2, <4>1 DEF NoText
    <3> QED BY <2>1, <2>2, <3>1 DEF Batch, NoText
  <2>3. ASSUME NEW l \in Nat, LastIs(l, o, h, k, fs) PROVE LastIs(l, p, h, k + 1, fs)
    <3>1. l \in h + 1..k + 1
      BY <2>3 DEF LastIs
    <3>2. ASSUME NEW j \in l + 1..k + 1 PROVE ~IsText(fs[j])
      <4>1. j = k + 1 \/ j \in l + 1..k
        OBVIOUS
      <4> QED BY <1>2, <2>3, <4>1 DEF LastIs
    <3> QED BY <2>1, <2>3, <3>1, <3>2 DEF LastIs
  <2> QED BY <2>2, <2>3 DEF Batch
<1> QED BY <1>1, <1>2

\* The front of the buffer is the first byte of the next frame.
LEMMA FrontFacts ==
  ASSUME StreamInv, phase = "parse", FrameComplete
  PROVE  /\ parsed + 1 \in 1..Len(frames) /\ buf[1].frame = parsed + 1
         /\ Front = frames[parsed + 1] /\ Front \in FrameKinds
         /\ SubSeq(buf, Length(Front) + 1, Len(buf)) \in Seq(Pieces)
         /\ Chain(SubSeq(buf, Length(Front) + 1, Len(buf)) \o wire, parsed + 1, frames)
<1>1. /\ buf \in Seq(Pieces) /\ wire \in Seq(Pieces) /\ Chain(Rest, parsed, frames)
      /\ frames \in Seq(FrameKinds)
  BY DEF StreamInv, FramesInv, TypeOK
<1>2. IsConcat(Rest, buf, wire)
  BY <1>1, Concat DEF Rest
<1>3. Len(buf) \in Nat \ {0, 1} /\ Len(wire) \in Nat /\ Len(Rest) = Len(buf) + Len(wire)
  BY <1>2 DEF FrameComplete, IsConcat
<1>4. Rest[1] = buf[1]
  <2>1. 1 \in 1..Len(buf)
    BY <1>3
  <2> QED BY <1>2, <2>1 DEF IsConcat
<1> HIDE DEF Rest
<1>5. /\ parsed + 1 \in 1..Len(frames) /\ Rest[1].frame = parsed + 1
      /\ \A u \in Seq(Pieces) :
           IsRest(u, Rest, Length(frames[parsed + 1])) => Chain(u, parsed + 1, frames)
  <2>1. Len(Rest) # 0
    BY <1>3
  <2> QED BY <1>1, <2>1, ChainTakes
<1>6. Front = frames[parsed + 1] /\ Front \in FrameKinds
  BY <1>1, <1>4, <1>5 DEF Front
<1> DEFINE L == Length(Front)
           v == SubSeq(buf, L + 1, Len(buf))
           u == v \o wire
<1>7. L \in Nat \ {0, 1} /\ L <= Len(buf)
  BY <1>6, LengthFacts DEF FrameComplete
<1> HIDE DEF L
<1>8. /\ v \in Seq(Pieces) /\ Len(v) = Len(buf) - L
      /\ \A i \in 1..Len(buf) - L : v[i] = buf[i + L]
  BY <1>1, <1>3, <1>7
<1> HIDE DEF v
<1>9. IsConcat(u, v, wire)
  BY <1>1, <1>8, Concat
<1> HIDE DEF u
<1>10. IsRest(u, Rest, L)
  <2>1. Len(u) = Len(Rest) - L /\ L \in 0..Len(Rest)
    BY <1>3, <1>7, <1>8, <1>9 DEF IsConcat
  <2>2. ASSUME NEW i \in 1..Len(Rest) - L PROVE u[i] = Rest[i + L]
    <3>1. CASE i <= Len(buf) - L
      <4>1. i \in 1..Len(buf) - L /\ i + L \in 1..Len(buf)
        BY <1>3, <1>7, <3>1
      <4>2. u[i] = v[i] /\ Rest[i + L] = buf[i + L]
        BY <1>2, <1>8, <1>9, <4>1 DEF IsConcat
      <4> QED BY <1>8, <4>1, <4>2
    <3>2. CASE i > Len(buf) - L
      <4> DEFINE j == i - (Len(buf) - L)
      <4>1. j \in 1..Len(wire) /\ Len(v) + j = i /\ Len(buf) + j = i + L
        BY <1>3, <1>7, <1>8, <3>2
      <4> HIDE DEF j
      <4>2. u[Len(v) + j] = wire[j] /\ Rest[Len(buf) + j] = wire[j]
        BY <1>2, <1>9, <4>1 DEF IsConcat
      <4> QED BY <4>1, <4>2
    <3> QED BY <1>3, <1>7, <3>1, <3>2
  <2> QED BY <2>1, <2>2 DEF IsRest
<1>11. Chain(u, parsed + 1, frames)
  <2>1. u \in Seq(Pieces)
    BY <1>9 DEF IsConcat
  <2> QED BY <1>5, <1>6, <1>10, <2>1 DEF L
<1> QED BY <1>4, <1>5, <1>6, <1>8, <1>11 DEF u, v, L

LEMMA SendRequestKeeps == StreamInv /\ SendRequest => StreamInv'
<1> SUFFICES ASSUME StreamInv, SendRequest PROVE StreamInv'
  OBVIOUS
<1>1. PICK r \in Requests : request' = r /\ wire' = Parts(r)
  BY DEF SendRequest
<1>2. /\ request = None /\ request' # None
      /\ UNCHANGED <<frames, leaving, buf, phase, answer, out, parsed, heard, commands, text>>
  BY <1>1 DEF SendRequest
<1>3. TypeOK'
  BY <1>1, <1>2 DEF StreamInv, TypeOK
<1>4. RequestInv'
  <2> SUFFICES ASSUME phase = "request"
               PROVE  wire' \in Seq(Pieces) /\ Rest' = Parts(r)
    BY <1>1, <1>2 DEF StreamInv, RequestInv
  <2>1. wire' \in Seq(Pieces)
    BY <1>1, PartsShape DEF Shape
  <2>2. buf = << >>
    <3>1. buf \in Seq(Pieces) /\ wire \in Seq(Pieces) /\ buf \o wire = << >>
      BY <1>2 DEF StreamInv, RequestInv, Rest
    <3>2. IsConcat(buf \o wire, buf, wire)
      BY <3>1, Concat
    <3>3. Len(buf) = 0
      BY <3>1, <3>2 DEF IsConcat
    <3> QED BY <3>1, <3>3, EmptySeq
  <2>3. Rest' = wire'
    BY <1>2, <2>1, <2>2, ConcatEmptySeq DEF Rest
  <2> QED BY <1>1, <2>1, <2>3
<1>5. FramesInv'
  BY <1>2 DEF StreamInv, FramesInv
<1> QED BY <1>2, <1>3, <1>4, <1>5 DEF StreamInv, BatchInv, TextInv

LEMMA SendFrameKeeps == StreamInv /\ SendFrame => StreamInv'
<1> SUFFICES ASSUME StreamInv, SendFrame PROVE StreamInv'
  OBVIOUS
<1> DEFINE m == Len(frames)
<1>1. PICK f \in FrameKinds :
        frames' = Append(frames, f) /\ wire' = wire \o Bytes(m + 1, f)
  BY DEF SendFrame
<1>2. /\ answer = "101" /\ m < MaxFrames
      /\ UNCHANGED <<request, leaving, buf, phase, answer, out, parsed, heard, commands, text>>
  BY DEF SendFrame
<1>3. phase # "request"
  BY <1>2 DEF StreamInv, RequestInv
<1>4. /\ frames \in Seq(FrameKinds) /\ m \in Nat
      /\ frames' \in Seq(FrameKinds) /\ Len(frames') = m + 1
      /\ \A i \in 1..m : frames'[i] = frames[i]
  <2>1. frames \in Seq(FrameKinds)
    BY DEF StreamInv, TypeOK
  <2> QED BY <1>1, <2>1, AppendProperties, LenProperties
<1>5. TypeOK'
  BY <1>2, <1>4 DEF StreamInv, TypeOK
<1>6. ASSUME phase \in {"receive", "parse"}
      PROVE  wire' \in Seq(Pieces) /\ Chain(Rest', parsed, frames') /\ parsed \in 0..m
  <2>1. buf \in Seq(Pieces) /\ wire \in Seq(Pieces) /\ Chain(Rest, parsed, frames)
    BY <1>6 DEF StreamInv, FramesInv
  <2>2. Chain(Rest \o Bytes(m + 1, f), parsed, frames')
    BY <1>1, <1>4, <2>1, ChainSends
  <2> DEFINE b == Bytes(m + 1, f)
  <2>3. b \in Seq(Pieces)
    <3>1. b = [i \in 1..Length(f) |-> [frame |-> m + 1, at |-> i]]
      BY DEF Bytes
    <3>2. Length(f) \in Nat
      BY LengthFacts
    <3> HIDE DEF b
    <3>3. \A i \in 1..Length(f) : [frame |-> m + 1, at |-> i] \in Pieces
      BY <1>4, <3>2 DEF Pieces, Places
    <3> QED BY <3>1, <3>2, <3>3
  <2> HIDE DEF b
  <2>4. wire' = wire \o b
    BY <1>1 DEF b
  <2>5. wire' \in Seq(Pieces)
    BY <2>1, <2>3, <2>4, ConcatProperties
  <2>6. Rest' = Rest \o b
    BY <1>2, <2>1, <2>3, <2>4, Associates DEF Rest
  <2> QED BY <2>1, <2>2, <2>5, <2>6 DEF b, Chain
<1>7. FramesInv'
  BY <1>2, <1>6 DEF StreamInv, FramesInv
<1>8. BatchInv'
  <2> SUFFICES ASSUME phase \in {"receive", "parse"} PROVE BatchInv'
    BY <1>2 DEF BatchInv
  <2>1. parsed \in Nat /\ heard \in Nat /\ \A i \in 1..parsed : frames'[i] = frames[i]
    BY <1>4, <1>6 DEF StreamInv, TypeOK
  <2>2. Batch(out, heard, parsed, frames')
    BY <2>1, BatchKeeps DEF StreamInv, BatchInv
  <2> QED BY <1>2, <2>1, <2>2 DEF StreamInv, BatchInv
<1> QED BY <1>2, <1>3, <1>5, <1>7, <1>8 DEF StreamInv, RequestInv, TextInv

\* recv moves bytes over and changes nothing of their sequence.
LEMMA ReceivesKeeps ==
  ASSUME buf \in Seq(Pieces), wire \in Seq(Pieces), NEW n \in 1..Len(wire), Receives(n)
  PROVE  buf' \in Seq(Pieces) /\ wire' \in Seq(Pieces) /\ Rest' = Rest
BY CutKeeps DEF Receives, Rest

LEMMA FeedWaitsKeeps == StreamInv /\ FeedWaits => StreamInv'
<1> SUFFICES ASSUME StreamInv, FeedWaits PROVE StreamInv'
  OBVIOUS
<1>1. PICK n \in 1..Len(wire) : Receives(n)
  BY DEF FeedWaits
<1>2. /\ phase = "request"
      /\ UNCHANGED <<browserVars, phase, answer, out, parsed, heard, commands, text>>
  BY DEF FeedWaits
<1>3. buf' \in Seq(Pieces) /\ wire' \in Seq(Pieces) /\ Rest' = Rest
  BY <1>1, <1>2, ReceivesKeeps DEF StreamInv, RequestInv
<1>4. TypeOK'
  BY <1>2 DEF StreamInv, TypeOK, browserVars
<1>5. RequestInv'
  BY <1>2, <1>3 DEF StreamInv, RequestInv, browserVars
<1> QED BY <1>2, <1>4, <1>5 DEF StreamInv, FramesInv, BatchInv, TextInv, browserVars

\* The request that Feed completes is the browser's, and nothing is left over.
LEMMA CompletesFacts ==
  ASSUME StreamInv, FeedCompletes
  PROVE  /\ request \in Requests /\ request.line # "malformed"
         /\ answer' = ReplyTo(request) /\ answer' \in Answers
         /\ wire' = << >> /\ buf' = << >>
<1>1. PICK n \in 1..Len(wire) :
        LET q == buf \o SubSeq(wire, 1, n)
        IN  /\ Complete(q)
            /\ answer' = AnswerOf(SubSeq(q, 1, Place(q, "blank")))
            /\ wire' = SubSeq(wire, n + 1, Len(wire))
  BY DEF FeedCompletes
<1>2. phase = "request" /\ buf' = << >>
  BY DEF FeedCompletes
<1>3. /\ buf \in Seq(Pieces) /\ wire \in Seq(Pieces)
      /\ buf \o wire = IF request = None THEN << >> ELSE Parts(request)
      /\ request \in Requests \cup {None}
  BY <1>2 DEF StreamInv, RequestInv, TypeOK, Rest
<1>4. request # None
  <2> SUFFICES ASSUME request = None PROVE FALSE
    OBVIOUS
  <2>1. IsConcat(buf \o wire, buf, wire) /\ Len(buf \o wire) = 0
    BY <1>3, Concat
  <2>2. Len(wire) = 0
    BY <2>1 DEF IsConcat
  <2> QED BY <2>2
<1> DEFINE q == buf \o SubSeq(wire, 1, n)
           w == SubSeq(wire, n + 1, Len(wire))
<1>5. q \in Seq(Pieces) /\ w \in Seq(Pieces) /\ q \o w = Parts(request)
  BY <1>3, <1>4, CutKeeps
<1>6. Complete(q) /\ answer' = AnswerOf(SubSeq(q, 1, Place(q, "blank"))) /\ wire' = w
  BY <1>1
<1> HIDE DEF q, w
<1>7. /\ w = << >> /\ request.line # "malformed"
      /\ AnswerOf(SubSeq(q, 1, Place(q, "blank"))) = ReplyTo(request)
  BY <1>3, <1>4, <1>5, <1>6, WholeRequest
<1>8. answer' \in Answers
  BY <1>3, <1>4, <1>6, <1>7, ReplyType
<1> QED BY <1>2, <1>3, <1>4, <1>6, <1>7, <1>8

LEMMA FeedCompletesKeeps == StreamInv /\ FeedCompletes => StreamInv'
<1> SUFFICES ASSUME StreamInv, FeedCompletes PROVE StreamInv'
  OBVIOUS
<1>1. /\ request \in Requests /\ answer' \in Answers /\ wire' = << >> /\ buf' = << >>
  BY CompletesFacts
<1>2. /\ phase = "request" /\ phase' = IF answer' = "101" THEN "receive" ELSE "closed"
      /\ UNCHANGED <<browserVars, out, parsed, heard, commands, text>>
  BY DEF FeedCompletes
<1>3. frames = << >> /\ out = 0 /\ parsed = 0 /\ heard = 0
  BY <1>2 DEF StreamInv, RequestInv
<1>4. TypeOK'
  BY <1>1, <1>2 DEF StreamInv, TypeOK, browserVars
<1>5. FramesInv'
  <2> SUFFICES ASSUME phase' = "receive" PROVE FramesInv'
    BY <1>2 DEF FramesInv
  <2>1. request' # None /\ answer' = "101"
    BY <1>1, <1>2 DEF browserVars
  <2>2. << >> \in Seq(Pieces) /\ << >> \o << >> = << >> /\ Len(<< >>) = 0
    BY ConcatEmptySeq
  <2>3. Rest' = << >> /\ buf' \in Seq(Pieces) /\ wire' \in Seq(Pieces)
    BY <1>1, <2>2 DEF Rest
  <2>4. Chain(<< >>, 0, << >>)
    BY <2>2 DEF Chain, InPlace, SameFrame, NextFrame, Starts
  <2> QED BY <1>2, <1>3, <2>1, <2>3, <2>4 DEF FramesInv, browserVars
<1>6. BatchInv'
  BY <1>2, <1>3 DEF BatchInv, Batch, NoText, browserVars
<1> QED BY <1>2, <1>4, <1>5, <1>6 DEF StreamInv, RequestInv, TextInv

LEMMA ReceiveSomeKeeps == StreamInv /\ ReceiveSome => StreamInv'
<1> SUFFICES ASSUME StreamInv, ReceiveSome PROVE StreamInv'
  OBVIOUS
<1>1. PICK n \in 1..Len(wire) : Receives(n)
  BY DEF ReceiveSome
<1>2. /\ phase = "receive" /\ phase' = "parse"
      /\ UNCHANGED <<browserVars, answer, out, parsed, heard, commands, text>>
  BY DEF ReceiveSome
<1>3. buf' \in Seq(Pieces) /\ wire' \in Seq(Pieces) /\ Rest' = Rest
  BY <1>1, <1>2, ReceivesKeeps DEF StreamInv, FramesInv
<1>4. TypeOK'
  BY <1>2 DEF StreamInv, TypeOK, browserVars
<1>5. FramesInv'
  BY <1>2, <1>3 DEF StreamInv, FramesInv, browserVars
<1> QED BY <1>2, <1>4, <1>5 DEF StreamInv, RequestInv, BatchInv, TextInv, browserVars

LEMMA ParseFrameKeeps == StreamInv /\ ParseFrame => StreamInv'
<1> SUFFICES ASSUME StreamInv, ParseFrame PROVE StreamInv'
  OBVIOUS
<1>1. /\ phase = "parse" /\ FrameComplete /\ Front.op # "close" /\ parsed' = parsed + 1
      /\ buf' = SubSeq(buf, Length(Front) + 1, Len(buf))
      /\ out' = IF IsText(Front) THEN IF Front.len = 0 THEN 0 ELSE buf[1].frame ELSE out
      /\ UNCHANGED <<browserVars, wire, phase, answer, heard, commands, text>>
  BY DEF ParseFrame, IsText
<1>2. /\ parsed + 1 \in 1..Len(frames) /\ buf[1].frame = parsed + 1
      /\ Front = frames[parsed + 1]
      /\ buf' \in Seq(Pieces) /\ Chain(Rest', parsed + 1, frames)
  BY <1>1, FrontFacts DEF Rest
<1>3. /\ parsed \in Nat /\ heard \in Nat /\ heard <= parsed /\ out \in 0..MaxFrames
      /\ Len(frames) <= MaxFrames /\ Len(frames) \in Nat
  BY LenProperties DEF StreamInv, TypeOK
<1>4. TypeOK'
  <2>1. parsed' \in 0..MaxFrames /\ heard' \in 0..parsed'
    BY <1>1, <1>2, <1>3
  <2>2. out' \in 0..MaxFrames
    BY <1>1, <1>2, <1>3
  <2> QED BY <1>1, <2>1, <2>2 DEF StreamInv, TypeOK, browserVars
<1>5. FramesInv'
  BY <1>1, <1>2 DEF StreamInv, FramesInv, browserVars
<1>6. BatchInv'
  <2>1. Batch(out', heard, parsed + 1, frames)
    BY <1>1, <1>2, <1>3, BatchTakes DEF StreamInv, BatchInv
  <2>2. ASSUME NEW i \in 1..parsed + 1 PROVE frames[i].op # "close"
    <3>1. i = parsed + 1 \/ i \in 1..parsed
      BY <1>3
    <3> QED BY <1>1, <1>2, <3>1 DEF StreamInv, BatchInv
  <2> QED BY <1>1, <2>1, <2>2 DEF BatchInv, browserVars
<1> QED BY <1>1, <1>4, <1>5, <1>6 DEF StreamInv, RequestInv, TextInv

LEMMA ReceiveReturnsKeeps == StreamInv /\ ReceiveReturns => StreamInv'
<1> SUFFICES ASSUME StreamInv, ReceiveReturns PROVE StreamInv'
  OBVIOUS
<1>1. /\ phase = "parse" /\ phase' = "receive" /\ out' = 0 /\ heard' = parsed
      /\ commands' = IF out = 0 THEN commands ELSE Append(commands, out)
      /\ UNCHANGED <<browserVars, wire, buf, answer, parsed, text>>
  BY DEF ReceiveReturns
<1>2. parsed \in Nat /\ out \in 0..MaxFrames /\ commands \in Seq(1..MaxFrames)
  BY DEF StreamInv, TypeOK
<1>3. TypeOK'
  <2>1. commands' \in Seq(1..MaxFrames)
    <3>1. CASE out = 0
      BY <1>1, <1>2, <3>1
    <3>2. CASE out # 0
      <4>1. out \in 1..MaxFrames
        BY <1>2, <3>2
      <4> QED BY <1>1, <1>2, <3>2, <4>1, AppendProperties
    <3> QED BY <3>1, <3>2
  <2>2. heard' \in 0..parsed' /\ out' \in 0..MaxFrames
    BY <1>1, <1>2
  <2> QED BY <1>1, <2>1, <2>2 DEF StreamInv, TypeOK, browserVars
<1>4. FramesInv'
  BY <1>1 DEF StreamInv, FramesInv, Rest, browserVars
<1>5. BatchInv'
  <2>1. parsed + 1..parsed = {}
    BY <1>2
  <2>2. Batch(0, parsed, parsed, frames)
    BY <2>1 DEF Batch, NoText
  <2> QED BY <1>1, <2>2 DEF StreamInv, BatchInv, browserVars
<1> QED BY <1>1, <1>3, <1>4, <1>5 DEF StreamInv, RequestInv, TextInv

\* The end of a connection claims nothing more of its bytes.
LEMMA EndKeeps ==
  ASSUME StreamInv, phase' = "closed",
         UNCHANGED <<browserVars, wire, buf, answer, out, parsed, heard, commands, text>>
  PROVE  StreamInv'
BY DEF StreamInv, TypeOK, RequestInv, FramesInv, BatchInv, TextInv, browserVars

LEMMA SendTextKeeps == StreamInv /\ SendText => StreamInv'
<1> SUFFICES ASSUME StreamInv, SendText PROVE StreamInv'
  OBVIOUS
<1>1. PICK n \in Sizes : text' = [size |-> n, header |-> EncodeLength(n)]
  BY DEF SendText
<1>2. UNCHANGED <<browserVars, wire, buf, phase, answer, out, parsed, heard, commands>>
  BY DEF SendText
<1>3. TextInv'
  BY <1>1 DEF TextInv
<1>4. TypeOK'
  <2>1. text'.size \in Sizes /\ text'.header \in Header
    BY <1>1, EncodingAgrees
  <2> QED BY <1>2, <2>1 DEF StreamInv, TypeOK, browserVars
<1> QED BY <1>2, <1>3, <1>4 DEF StreamInv, RequestInv, FramesInv, BatchInv, Rest, browserVars

LEMMA StepHolds == StreamInv /\ [Next]_vars => StreamInv'
<1> SUFFICES ASSUME StreamInv, [Next]_vars PROVE StreamInv'
  OBVIOUS
<1>1. CASE SendRequest
  BY <1>1, SendRequestKeeps
<1>2. CASE SendFrame
  BY <1>2, SendFrameKeeps
<1>3. CASE Leave
  BY <1>3 DEF Leave, StreamInv, TypeOK, RequestInv, FramesInv, BatchInv, TextInv, Rest
<1>4. CASE FeedWaits
  BY <1>4, FeedWaitsKeeps
<1>5. CASE FeedCompletes
  BY <1>5, FeedCompletesKeeps
<1>6. CASE ReceiveSome
  BY <1>6, ReceiveSomeKeeps
<1>7. CASE ParseFrame
  BY <1>7, ParseFrameKeeps
<1>8. CASE ParseClose
  BY <1>8, EndKeeps DEF ParseClose
<1>9. CASE ReceiveReturns
  BY <1>9, ReceiveReturnsKeeps
<1>10. CASE ReceiveEnds
  BY <1>10, EndKeeps DEF ReceiveEnds
<1>11. CASE ServerStops
  BY <1>11, EndKeeps DEF ServerStops
<1>12. CASE SendText
  BY <1>12, SendTextKeeps
<1>13. CASE UNCHANGED vars
  BY <1>13 DEF vars, browserVars, StreamInv, TypeOK, RequestInv, FramesInv, BatchInv, TextInv, Rest
<1> QED BY <1>1, <1>2, <1>3, <1>4, <1>5, <1>6, <1>7, <1>8, <1>9, <1>10, <1>11, <1>12, <1>13
        DEF Next, ThreadStep

LEMMA Invariant == Spec => []StreamInv
BY InitHolds, StepHolds, PTL DEF Spec

-----------------------------------------------------------------------------
(* The properties                                                          *)

\* Every variable of a connection keeps its type, with every request and
\* frame the parser may meet (HttpRequestParser, WebSocketConnection).
THEOREM TypeCorrect == Spec => []TypeOK
<1>1. StreamInv => TypeOK
  BY DEF StreamInv
<1> QED BY Invariant, <1>1, PTL

\* However the bytes are cut, Receive takes each frame from its first byte.
THEOREM KeepsItsPlace == Spec => []AtFrameStart
<1>1. StreamInv => AtFrameStart
  <2> SUFFICES ASSUME StreamInv, phase \in {"receive", "parse"}, Rest # << >>
               PROVE  /\ Rest[1] = [frame |-> parsed + 1, at |-> 1]
                      /\ Rest[Len(Rest)].frame = Len(frames)
    BY DEF AtFrameStart, Rest
  <2>1. Chain(Rest, parsed, frames) /\ frames \in Seq(FrameKinds)
    BY DEF StreamInv, FramesInv, TypeOK
  <2> HIDE DEF Rest
  <2>2. Len(Rest) # 0
    BY <2>1, EmptySeq DEF Chain
  <2> QED BY <2>1, <2>2, ChainEnds
<1> QED BY Invariant, <1>1, PTL

\* A browser reads the length SendFrame meant, for every size of an int.
THEOREM LengthsRight == Spec => []LengthsAgree
<1>1. StreamInv => LengthsAgree
  BY EncodingAgrees DEF StreamInv, TextInv, LengthsAgree
<1> QED BY Invariant, <1>1, PTL

-----------------------------------------------------------------------------
(* A conversation                                                          *)

Said(fs) == [i \in DOMAIN fs |-> Kind(fs[i])]

LEMMA KindFacts ==
  ASSUME NEW f \in FrameKinds
  PROVE  /\ Kind(f) \in {"say", "blank", "pass", "bye"}
         /\ Kind(f) \in {"say", "blank"} <=> IsText(f)
         /\ IsText(f) => (Kind(f) = IF f.len = 0 THEN "blank" ELSE "say")
         /\ Kind(f) = "bye" <=> f.op = "close"
<1>1. f.op \in Ops
  BY LengthFacts
<1>2. CASE f.op \in {"text", "binary"}
  BY <1>2 DEF Kind, IsText
<1>3. CASE f.op = "ping"
  BY <1>3 DEF Kind, IsText
<1>4. CASE f.op = "close"
  BY <1>4 DEF Kind, IsText
<1> QED BY <1>1, <1>2, <1>3, <1>4 DEF Ops

LEMMA InitMaps == Init => Conv!Init
<1> SUFFICES ASSUME Init PROVE Conv!Init
  OBVIOUS
<1>1. Said(frames) = << >>
  BY DEF Init, Said
<1>2. phase # "closed"
  BY DEF Init
<1> QED BY <1>1, <1>2 DEF Init, Conv!Init, Said

LEMMA Stutters ==
  ASSUME UNCHANGED <<request, frames, answer, heard, commands>>,
         phase' = "closed" <=> phase = "closed"
  PROVE  UNCHANGED Conv!convVars
<1>1. (phase # "closed")' = (phase # "closed")
  OBVIOUS
<1> QED BY <1>1 DEF Conv!convVars

LEMMA HangsUp ==
  ASSUME UNCHANGED <<request, frames, answer, heard, commands>>,
         phase # "closed", phase' = "closed"
  PROVE  Conv!HangUp
<1>1. (phase # "closed")' = FALSE
  OBVIOUS
<1> QED BY <1>1 DEF Conv!HangUp

LEMMA AnswerMaps == StreamInv /\ FeedCompletes => Conv!Next
<1> SUFFICES ASSUME StreamInv, FeedCompletes PROVE Conv!Next
  OBVIOUS
<1>1. /\ request \in Requests /\ request.line # "malformed" /\ answer' = ReplyTo(request)
  BY CompletesFacts
<1>2. /\ phase = "request" /\ phase' = IF answer' = "101" THEN "receive" ELSE "closed"
      /\ UNCHANGED <<request, frames, heard, commands>>
  BY DEF FeedCompletes, browserVars
<1>3. answer = None
  BY <1>2 DEF StreamInv, RequestInv
<1>4. CASE answer' = None
  <2>1. phase' = "closed" /\ phase # "closed"
    BY <1>2, <1>4
  <2>2. Conv!HangUp
    BY <1>2, <1>3, <1>4, <2>1, HangsUp
  <2> QED BY <2>2 DEF Conv!Next
<1>5. CASE answer' # None
  <2> DEFINE A == [r \in Requests |->
                     IF r.line = "malformed" THEN None ELSE AnswerOf(Parts(r))]
  <2>1. A[request] = answer'
    BY <1>1, AnswerToWhole
  <2> HIDE DEF A
  <2>2. (phase # "closed")' = (answer' = "101")
    BY <1>2
  <2>3. phase # "closed" /\ request # None
    BY <1>1, <1>2
  <2>4. Conv!Answer
    BY <1>2, <1>3, <1>5, <2>1, <2>2, <2>3 DEF Conv!Answer, A
  <2> QED BY <2>4 DEF Conv!Next
<1> QED BY <1>4, <1>5

LEMMA SpeakMaps == StreamInv /\ SendFrame => Conv!Next
<1> SUFFICES ASSUME StreamInv, SendFrame PROVE Conv!Next
  OBVIOUS
<1>1. PICK f \in FrameKinds : frames' = Append(frames, f)
  BY DEF SendFrame
<1>2. /\ answer = "101" /\ frames \in Seq(FrameKinds)
      /\ UNCHANGED <<request, phase, answer, heard, commands>>
  BY DEF SendFrame, StreamInv, TypeOK
<1>3. Said(frames)' = Append(Said(frames), Kind(f))
  <2> DEFINE m == Len(frames)
             K == {"say", "blank", "pass", "bye"}
             a == Said(frames)
             b == Said(frames')
             z == Append(a, Kind(f))
  <2>1. /\ m \in Nat /\ DOMAIN frames = 1..m /\ \A i \in 1..m : frames[i] \in FrameKinds
        /\ frames' \in Seq(FrameKinds) /\ DOMAIN frames' = 1..m + 1
        /\ frames'[m + 1] = f /\ \A i \in 1..m : frames'[i] = frames[i]
    BY <1>1, <1>2
  <2> HIDE DEF m
  <2>2. \A i \in 1..m : a[i] = Kind(frames[i]) /\ a[i] \in K
    BY <2>1, KindFacts DEF Said
  <2>3. a \in Seq(K) /\ Len(a) = m
    <3>1. a = [i \in 1..m |-> Kind(frames[i])]
      BY <2>1 DEF Said
    <3>2. \A i \in 1..m : Kind(frames[i]) \in K
      BY <2>1, KindFacts
    <3> HIDE DEF a, K
    <3> QED BY <2>1, <3>1, <3>2
  <2>4. Kind(f) \in K
    BY KindFacts
  <2> HIDE DEF K, a
  <2>5. /\ z \in Seq(K) /\ Len(z) = m + 1 /\ z[m + 1] = Kind(f)
        /\ \A i \in 1..m : z[i] = a[i]
    BY <2>3, <2>4, AppendProperties
  <2> HIDE DEF z
  <2>6. ASSUME NEW i \in 1..m + 1 PROVE z[i] = Kind(frames'[i])
    <3>1. i = m + 1 \/ i \in 1..m
      BY <2>1
    <3> QED BY <2>1, <2>2, <2>5, <3>1
  <2>7. z = [i \in 1..m + 1 |-> Kind(frames'[i])]
    <3>1. z = [i \in 1..m + 1 |-> z[i]]
      BY <2>5
    <3> QED BY <2>6, <3>1
  <2> QED BY <2>1, <2>7 DEF z, a, Said
<1>4. Kind(f) \in {"say", "blank", "pass", "bye"}
  BY KindFacts
<1>5. (phase # "closed")' = (phase # "closed")
  BY <1>2
<1>6. Conv!Speak
  BY <1>2, <1>3, <1>4, <1>5 DEF Conv!Speak, Said
<1> QED BY <1>6 DEF Conv!Next

\* A return of Receive is a batch.
LEMMA HearMaps == StreamInv /\ ReceiveReturns => [Conv!Next]_(Conv!convVars)
<1> SUFFICES ASSUME StreamInv, ReceiveReturns PROVE [Conv!Next]_(Conv!convVars)
  OBVIOUS
<1>1. /\ phase = "parse" /\ phase' = "receive" /\ heard' = parsed
      /\ commands' = IF out = 0 THEN commands ELSE Append(commands, out)
      /\ UNCHANGED <<request, frames, answer>>
  BY DEF ReceiveReturns, browserVars
<1>2. /\ answer = "101" /\ Chain(Rest, parsed, frames) /\ frames \in Seq(FrameKinds)
      /\ \A i \in 1..parsed : frames[i].op # "close"
      /\ Batch(out, heard, parsed, frames)
      /\ parsed \in Nat /\ heard \in Nat /\ heard <= parsed
  BY <1>1 DEF StreamInv, FramesInv, BatchInv, TypeOK
<1>3. CASE heard = parsed
  <2>1. parsed + 1..parsed = {}
    BY <1>2
  <2>2. out = 0
    BY <1>2, <1>3, <2>1 DEF Batch, NoText, LastIs
  <2>3. UNCHANGED Conv!convVars
    BY <1>1, <1>3, <2>2, Stutters
  <2> QED BY <2>3
<1>4. CASE heard # parsed
  <2> DEFINE S == Said(frames)
             T == {i \in heard + 1..parsed : S[i] \in {"say", "blank"}}
             last == CHOOSE i \in T : \A j \in T : j <= i
  <2>1. parsed \in heard + 1..Len(frames) /\ Len(frames) \in Nat
    BY <1>2, <1>4, LenProperties DEF Chain
  <2>2. ASSUME NEW i \in heard + 1..parsed
        PROVE  /\ i \in 1..parsed /\ frames[i] \in FrameKinds
               /\ S[i] = Kind(frames[i]) /\ S[i] # "bye"
    <3>1. i \in 1..parsed /\ i \in DOMAIN frames /\ frames[i] \in FrameKinds
      BY <1>2, <2>1, <2>2
    <3> QED BY <1>2, <3>1, KindFacts DEF Said
  <2>3. ASSUME NEW i \in heard + 1..parsed PROVE i \in T <=> IsText(frames[i])
    BY <2>2, KindFacts
  <2>4. Len(S) = Len(frames)
    <3>1. S = [i \in 1..Len(frames) |-> Kind(frames[i])]
      BY <1>2 DEF Said
    <3> QED BY <2>1, <3>1
  <2>5. T \subseteq heard + 1..parsed
    OBVIOUS
  <2> HIDE DEF S
  <2>6. commands' = IF T # {} /\ S[last] = "say" THEN Append(commands, last) ELSE commands
    <3>1. CASE NoText(out, heard, parsed, frames)
      <4>1. T = {}
        BY <2>3, <2>5, <3>1 DEF NoText
      <4> QED BY <1>1, <3>1, <4>1 DEF NoText
    <3>2. ASSUME NEW l \in Nat, LastIs(l, out, heard, parsed, frames)
          PROVE  commands' = IF T # {} /\ S[last] = "say" THEN Append(commands, last)
                                                          ELSE commands
      <4>1. /\ l \in heard + 1..parsed /\ IsText(frames[l])
            /\ out = IF frames[l].len = 0 THEN 0 ELSE l
        BY <3>2 DEF LastIs
      <4>2. l \in T
        BY <2>3, <4>1
      <4>3. ASSUME NEW j \in T PROVE j <= l
        <5>1. j \in heard + 1..parsed /\ IsText(frames[j])
          BY <2>3, <2>5
        <5>2. j \notin l + 1..parsed
          BY <3>2, <5>1 DEF LastIs
        <5> QED BY <1>2, <5>1, <5>2
      <4> HIDE DEF T
      <4>4. last = l
        <5>1. ASSUME NEW i \in T, \A j \in T : j <= i PROVE i = l
          <6>1. i <= l /\ l <= i /\ i \in Int /\ l \in Int
            BY <1>2, <2>5, <4>2, <4>3, <5>1
          <6> QED BY <6>1
        <5> QED BY <4>2, <4>3, <5>1
      <4>5. S[l] = IF frames[l].len = 0 THEN "blank" ELSE "say"
        BY <2>2, <4>1, KindFacts
      <4>6. T # {} /\ l # 0
        BY <1>2, <4>1, <4>2
      <4> HIDE DEF last
      <4> QED BY <1>1, <4>1, <4>4, <4>5, <4>6
    <3> QED BY <1>2, <3>1, <3>2 DEF Batch
  <2>7. (phase # "closed") /\ (phase # "closed")' = (phase # "closed")
    BY <1>1
  <2>8. Conv!Texts(parsed) = T /\ Conv!LastText(parsed) = last
    BY DEF Conv!Texts, Conv!LastText, S, Said
  <2>9. \A i \in heard + 1..parsed : S[i] # "bye"
    BY <2>2
  <2> HIDE DEF T, last
  <2>10. Conv!Hear
    BY <1>1, <1>2, <2>1, <2>4, <2>6, <2>7, <2>8, <2>9 DEF Conv!Hear, S, Said
  <2> QED BY <2>10 DEF Conv!Next
<1> QED BY <1>3, <1>4

LEMMA StepMaps == StreamInv /\ [Next]_vars => [Conv!Next]_(Conv!convVars)
<1> SUFFICES ASSUME StreamInv, [Next]_vars PROVE [Conv!Next]_(Conv!convVars)
  OBVIOUS
<1>1. CASE SendRequest
  <2>1. /\ request = None /\ request' \in Requests
        /\ UNCHANGED <<frames, answer, phase, heard, commands>>
    BY <1>1 DEF SendRequest
  <2>2. (phase # "closed")' = (phase # "closed")
    BY <2>1
  <2>3. Conv!Ask
    BY <2>1, <2>2 DEF Conv!Ask
  <2> QED BY <2>3 DEF Conv!Next
<1>2. CASE SendFrame
  BY <1>2, SpeakMaps
<1>3. CASE Leave
  BY <1>3, Stutters DEF Leave
<1>4. CASE FeedWaits
  BY <1>4, Stutters DEF FeedWaits, browserVars
<1>5. CASE FeedCompletes
  BY <1>5, AnswerMaps
<1>6. CASE ReceiveSome
  BY <1>6, Stutters DEF ReceiveSome, browserVars
<1>7. CASE ParseFrame
  BY <1>7, Stutters DEF ParseFrame, browserVars
<1>8. CASE ParseClose
  BY <1>8, HangsUp DEF ParseClose, browserVars, Conv!Next
<1>9. CASE ReceiveReturns
  BY <1>9, HearMaps
<1>10. CASE ReceiveEnds
  BY <1>10, HangsUp DEF ReceiveEnds, browserVars, Conv!Next
<1>11. CASE ServerStops
  BY <1>11, HangsUp DEF ServerStops, browserVars, Conv!Next
<1>12. CASE SendText
  BY <1>12, Stutters DEF SendText, browserVars
<1>13. CASE UNCHANGED vars
  BY <1>13, Stutters DEF vars, browserVars
<1> QED BY <1>1, <1>2, <1>3, <1>4, <1>5, <1>6, <1>7, <1>8, <1>9, <1>10, <1>11, <1>12, <1>13
        DEF Next, ThreadStep

\* HttpRequestParser::Feed and WebSocketConnection::Receive, fed with any cut
\* of the stream, act as if they were given whole requests and messages.
THEOREM ImplementsConversation == Spec => ConvSpec
BY Invariant, InitMaps, StepMaps, PTL DEF Spec, ConvSpec, Conv!Spec
=============================================================================
