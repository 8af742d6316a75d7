---------------------------- MODULE BufferProofs ----------------------------
(***************************************************************************)
(* What holds of Buffer for every alphabet, headroom, initial size and     *)
(* bound: its bytes are those of a queue.                                  *)
(***************************************************************************)
EXTENDS BufferProps, SequenceTheorems, TLAPS

(* A buffer whose indices lie in its vector. *)
IsBuffer(b) ==
    /\ b \in [v : Seq(Byte), r : Int, w : Int]
    /\ 0 <= b.r /\ b.r <= b.w /\ b.w <= Len(b.v)

(* RetrieveAll puts the indices at CheapPrepend without looking, so that the
   vector must always be that long. *)
HasHeadroom == CheapPrepend <= Len(buf.v)

IInv == TypeOK /\ HasHeadroom
-----------------------------------------------------------------------------
(* A function on 1..n is a sequence of length n. *)
LEMMA FunctionIsSeq ==
    ASSUME NEW S, NEW n \in Nat, NEW f \in [1..n -> S]
    PROVE  f \in Seq(S) /\ Len(f) = n
<1>1. f \in Seq(S)  BY SeqDef
<1>2. Len(f) \in Nat /\ DOMAIN f = 1..Len(f)  BY <1>1, LenProperties
<1>3. DOMAIN f = 1..n  OBVIOUS
<1> QED  BY <1>1, <1>2, <1>3

(* Replacing the vector and an index of a buffer. *)
LEMMA RecordFacts ==
    ASSUME NEW b \in [v : Seq(Byte), r : Int, w : Int],
           NEW x \in Seq(Byte), NEW y \in Int
    PROVE  /\ [b EXCEPT !.v = x] \in [v : Seq(Byte), r : Int, w : Int]
           /\ [b EXCEPT !.r = y] \in [v : Seq(Byte), r : Int, w : Int]
           /\ [b EXCEPT !.r = y, !.w = y] \in [v : Seq(Byte), r : Int, w : Int]
           /\ [b EXCEPT !.v = x, !.w = y] \in [v : Seq(Byte), r : Int, w : Int]
           /\ [b EXCEPT !.r = y, !.v = x] \in [v : Seq(Byte), r : Int, w : Int]
OBVIOUS

(* std::copy keeps the vector's length and changes only the bytes it covers. *)
LEMMA OverwriteFacts ==
    ASSUME NEW v \in Seq(Byte), NEW at \in Nat, NEW data \in Seq(Byte)
    PROVE  /\ Overwrite(v, at, data) \in Seq(Byte)
           /\ Len(Overwrite(v, at, data)) = Len(v)
           /\ \A i \in 1..Len(v) :
                 Overwrite(v, at, data)[i] =
                    IF i - at \in 1..Len(data) THEN data[i - at] ELSE v[i]
<1>1. Len(v) \in Nat /\ DOMAIN v = 1..Len(v)  BY LenProperties
<1>2. Len(data) \in Nat /\ DOMAIN data = 1..Len(data)  BY LenProperties
<1>3. \A i \in 1..Len(v) : v[i] \in Byte  BY ElementOfSeq
<1>4. \A i \in 1..Len(data) : data[i] \in Byte  BY ElementOfSeq
<1>5. Overwrite(v, at, data) \in [1..Len(v) -> Byte]
      BY <1>1, <1>2, <1>3, <1>4 DEF Overwrite
<1>6. \A i \in 1..Len(v) :
         Overwrite(v, at, data)[i] =
            IF i - at \in 1..Len(data) THEN data[i - at] ELSE v[i]
      BY <1>1, <1>2 DEF Overwrite
<1> QED  BY <1>1, <1>5, <1>6, FunctionIsSeq

(* resize appends zeros. *)
LEMMA ZerosFacts ==
    ASSUME NEW n \in Nat
    PROVE  Zeros(n) \in Seq(Byte) /\ Len(Zeros(n)) = n
<1>1. Zeros(n) \in [1..n -> Byte]  BY SizesAssumption DEF Zeros
<1> QED  BY <1>1, FunctionIsSeq

(* The readable bytes are a sequence of bytes, those from r + 1 to w. *)
LEMMA ContentFacts ==
    ASSUME NEW b, IsBuffer(b)
    PROVE  /\ Content(b) \in Seq(Byte)
           /\ Len(Content(b)) = b.w - b.r
           /\ \A i \in 1..(b.w - b.r) : Content(b)[i] = b.v[b.r + i]
<1>1. /\ b.v \in Seq(Byte) /\ Len(b.v) \in Nat
      /\ b.r \in Int /\ b.w \in Int
      /\ 0 <= b.r /\ b.r <= b.w /\ b.w <= Len(b.v)
      BY LenProperties DEF IsBuffer
<1>2. \A i \in (b.r + 1)..b.w : b.v[i] \in Byte
      <2> TAKE i \in (b.r + 1)..b.w
      <2>1. i \in 1..Len(b.v)  BY <1>1
      <2> QED  BY <1>1, <2>1, ElementOfSeq
<1>3. /\ SubSeq(b.v, b.r + 1, b.w) \in Seq(Byte)
      /\ Len(SubSeq(b.v, b.r + 1, b.w)) = IF b.r + 1 <= b.w THEN b.w - (b.r + 1) + 1 ELSE 0
      /\ \A i \in 1..(b.w - (b.r + 1) + 1) : SubSeq(b.v, b.r + 1, b.w)[i] = b.v[b.r + 1 + i - 1]
      <2>1. b.r + 1 \in Int  BY <1>1
      <2> QED  BY <1>1, <1>2, <2>1, SubSeqProperties
<1>4. Len(SubSeq(b.v, b.r + 1, b.w)) = b.w - b.r  BY <1>1, <1>3
<1>5. ASSUME NEW i \in 1..(b.w - b.r)
      PROVE  SubSeq(b.v, b.r + 1, b.w)[i] = b.v[b.r + i]
      <2>1. i \in 1..(b.w - (b.r + 1) + 1) /\ b.r + 1 + i - 1 = b.r + i  BY <1>1
      <2> QED  BY <1>3, <2>1
<1> QED  BY <1>3, <1>4, <1>5 DEF Content

(* Two buffers whose readable bytes agree, one by one, have the same
   contents. *)
LEMMA SameContent ==
    ASSUME NEW b, NEW c, IsBuffer(b), IsBuffer(c), c.w - c.r = b.w - b.r,
           \A i \in 1..(b.w - b.r) : c.v[c.r + i] = b.v[b.r + i]
    PROVE  Content(c) = Content(b)
BY ContentFacts, SeqEqual, LenProperties

(* Bytes written behind the contents are appended to them. *)
LEMMA WrittenFacts ==
    ASSUME NEW b, IsBuffer(b), NEW data \in Seq(Byte), Len(data) <= Writeable(b)
    PROVE  /\ IsBuffer(Written(b, data))
           /\ Len(Written(b, data).v) = Len(b.v)
           /\ Written(b, data).w = b.w + Len(data)
           /\ Written(b, data).r = b.r
           /\ Content(Written(b, data)) = Content(b) \o data
<1> DEFINE c == Written(b, data)
<1>1. /\ b \in [v : Seq(Byte), r : Int, w : Int]
      /\ b.v \in Seq(Byte) /\ Len(b.v) \in Nat /\ Len(data) \in Nat
      /\ b.r \in Int /\ b.w \in Nat
      /\ 0 <= b.r /\ b.r <= b.w /\ b.w + Len(data) <= Len(b.v)
      BY LenProperties DEF IsBuffer, Writeable
<1>2. /\ c.v = Overwrite(b.v, b.w, data)
      /\ c.r = b.r
      /\ c.w = b.w + Len(data)
      BY <1>1 DEF Written
<1>3. /\ c.v \in Seq(Byte)
      /\ Len(c.v) = Len(b.v)
      /\ \A i \in 1..Len(b.v) :
            c.v[i] = IF i - b.w \in 1..Len(data) THEN data[i - b.w] ELSE b.v[i]
      BY <1>1, <1>2, OverwriteFacts
<1>4. IsBuffer(c)
      <2>1. b.w + Len(data) \in Int /\ Overwrite(b.v, b.w, data) \in Seq(Byte)
            BY <1>1, <1>2, <1>3
      <2>2. c \in [v : Seq(Byte), r : Int, w : Int]  BY <1>1, <2>1, RecordFacts DEF Written
      <2> QED  BY <1>1, <1>2, <1>3, <2>2 DEF IsBuffer
<1>5. /\ Content(b) \in Seq(Byte)
      /\ Len(Content(b)) = b.w - b.r
      /\ \A i \in 1..(b.w - b.r) : Content(b)[i] = b.v[b.r + i]
      BY ContentFacts
<1>6. /\ Content(c) \in Seq(Byte)
      /\ Len(Content(c)) = c.w - c.r
      /\ \A i \in 1..(c.w - c.r) : Content(c)[i] = c.v[c.r + i]
      BY <1>4, ContentFacts
<1> HIDE DEF c
<1>7. /\ Content(b) \o data \in Seq(Byte)
      /\ Len(Content(b) \o data) = (b.w - b.r) + Len(data)
      /\ \A i \in 1..((b.w - b.r) + Len(data)) :
            (Content(b) \o data)[i] =
               IF i <= b.w - b.r THEN Content(b)[i] ELSE data[i - (b.w - b.r)]
      <2> HIDE DEF Content
      <2>1. /\ Content(b) \o data \in Seq(Byte)
            /\ Len(Content(b) \o data) = Len(Content(b)) + Len(data)
            /\ \A i \in 1..Len(Content(b)) + Len(data) :
                  (Content(b) \o data)[i] =
                     IF i <= Len(Content(b)) THEN Content(b)[i] ELSE data[i - Len(Content(b))]
            BY <1>5, ConcatProperties
      <2> QED  BY <1>5, <2>1
<1>8. ASSUME NEW i \in 1..Len(Content(c))
      PROVE  Content(c)[i] = (Content(b) \o data)[i]
      <2> PICK j \in Int : j = b.r + i  BY <1>1, <1>2, <1>6
      <2>1. /\ i \in 1..((b.w - b.r) + Len(data))
            /\ i \in 1..(c.w - c.r)
            /\ j \in 1..Len(b.v)
            BY <1>1, <1>2, <1>6
      <2>2. Content(c)[i] = c.v[j]  BY <1>2, <1>6, <2>1
      <2>3. c.v[j] = IF j - b.w \in 1..Len(data) THEN data[j - b.w] ELSE b.v[j]
            BY <1>3, <2>1
      <2>4. CASE i <= b.w - b.r
            <3>1. i \in 1..(b.w - b.r) /\ ~(j - b.w \in 1..Len(data))  BY <1>1, <2>1, <2>4
            <3> QED  BY <1>5, <1>7, <2>1, <2>2, <2>3, <2>4, <3>1
      <2>5. CASE ~(i <= b.w - b.r)
            <3>1. /\ j - b.w \in 1..Len(data)
                  /\ j - b.w = i - (b.w - b.r)
                  BY <1>1, <2>1, <2>5
            <3> QED  BY <1>7, <2>1, <2>2, <2>3, <2>5, <3>1
      <2> QED  BY <2>4, <2>5
<1>9. Len(Content(c)) = Len(Content(b) \o data)  BY <1>1, <1>2, <1>6, <1>7
<1>10. Content(c) = Content(b) \o data  BY <1>6, <1>7, <1>8, <1>9, SeqEqual
<1> QED  BY <1>2, <1>3, <1>4, <1>10 DEF c

(* The bytes up to a place, followed by those behind it. *)
LEMMA SplitFacts ==
    ASSUME NEW s \in Seq(Byte), NEW i \in Int, NEW j \in Int, NEW k \in Int,
           0 <= i, i <= j, j <= k, k <= Len(s)
    PROVE  SubSeq(s, i + 1, j) \o SubSeq(s, j + 1, k) = SubSeq(s, i + 1, k)
<1>1. PICK m \in Int : m = i + 1  OBVIOUS
<1>2. m \in 1..Len(s) + 1 /\ j \in m - 1..Len(s) /\ k \in j..Len(s)
      BY <1>1, LenProperties
<1>3. SubSeq(s, m, j) \o SubSeq(s, j + 1, k) = SubSeq(s, m, k)
      BY <1>2, ConcatAdjacentSubSeq, Zenon
<1> QED  BY <1>1, <1>3

(* Concatenation of bytes is associative. *)
LEMMA Associative ==
    ASSUME NEW s \in Seq(Byte), NEW t \in Seq(Byte), NEW u \in Seq(Byte)
    PROVE  (s \o t) \o u = s \o (t \o u)
BY ConcatAssociative

(* A buffer that grows keeps its contents where they are. *)
LEMMA GrownFacts ==
    ASSUME NEW b, IsBuffer(b), NEW n \in Nat, Grows(b, n)
    PROVE  /\ IsBuffer(Grown(b, n))
           /\ Len(Grown(b, n).v) = b.w + n
           /\ Grown(b, n).r = b.r
           /\ Grown(b, n).w = b.w
           /\ Content(Grown(b, n)) = Content(b)
<1> DEFINE c == Grown(b, n)
<1> DEFINE z == Zeros(b.w + n - Len(b.v))
<1>1. /\ b \in [v : Seq(Byte), r : Int, w : Int]
      /\ b.v \in Seq(Byte) /\ Len(b.v) \in Nat
      /\ b.r \in Int /\ b.w \in Int
      /\ 0 <= b.r /\ b.r <= b.w /\ b.w <= Len(b.v)
      /\ b.w + n - Len(b.v) \in Nat
      BY LenProperties DEF IsBuffer, Grows, Writeable, Prependable
<1>2. z \in Seq(Byte) /\ Len(z) = b.w + n - Len(b.v)  BY <1>1, ZerosFacts
<1>3. /\ c.v = b.v \o z
      /\ c.r = b.r
      /\ c.w = b.w
      BY <1>1 DEF Grown
<1> HIDE DEF z
<1>4. /\ b.v \o z \in Seq(Byte)
      /\ Len(b.v \o z) = Len(b.v) + Len(z)
      /\ \A i \in 1..Len(b.v) + Len(z) :
            (b.v \o z)[i] = IF i <= Len(b.v) THEN b.v[i] ELSE z[i - Len(b.v)]
      BY <1>1, <1>2, ConcatProperties
<1>5. c \in [v : Seq(Byte), r : Int, w : Int]
      BY <1>1, <1>4, RecordFacts DEF Grown, z
<1> HIDE DEF c
<1>6. Len(c.v) = b.w + n  BY <1>1, <1>2, <1>3, <1>4
<1>7. IsBuffer(c)  BY <1>1, <1>3, <1>5, <1>6 DEF IsBuffer
<1>8. ASSUME NEW i \in 1..(b.w - b.r)
      PROVE  c.v[c.r + i] = b.v[b.r + i]
      <2> PICK j \in Int : j = b.r + i  BY <1>1
      <2>1. j \in 1..Len(b.v) /\ j \in 1..Len(b.v) + Len(z)  BY <1>1, <1>2
      <2> QED  BY <1>1, <1>3, <1>4, <2>1
<1>9. Content(c) = Content(b)  BY <1>1, <1>3, <1>7, <1>8, SameContent
<1> QED  BY <1>3, <1>6, <1>7, <1>9 DEF c

(* A buffer whose reader is behind the headroom can be moved to the front. *)
LEMMA MovedFacts ==
    ASSUME NEW b, IsBuffer(b), CheapPrepend < b.r
    PROVE  /\ IsBuffer(Moved(b))
           /\ Len(Moved(b).v) = Len(b.v)
           /\ Content(Moved(b)) = Content(b)
<1> DEFINE c == Moved(b)
<1>1. /\ b.v \in Seq(Byte) /\ Len(b.v) \in Nat
      /\ b.r \in Int /\ b.w \in Int /\ CheapPrepend \in Nat
      /\ 0 <= b.r /\ b.r <= b.w /\ b.w <= Len(b.v)
      BY SizesAssumption, LenProperties DEF IsBuffer
<1>2. /\ Content(b) \in Seq(Byte)
      /\ Len(Content(b)) = b.w - b.r
      /\ \A i \in 1..(b.w - b.r) : Content(b)[i] = b.v[b.r + i]
      BY ContentFacts
<1>3. /\ c.v = Overwrite(b.v, CheapPrepend, Content(b))
      /\ c.r = CheapPrepend
      /\ c.w = CheapPrepend + (b.w - b.r)
      BY DEF Moved, Readable
<1>4. /\ c.v \in Seq(Byte)
      /\ Len(c.v) = Len(b.v)
      /\ \A i \in 1..Len(b.v) :
            c.v[i] = IF i - CheapPrepend \in 1..Len(Content(b))
                     THEN Content(b)[i - CheapPrepend] ELSE b.v[i]
      BY <1>1, <1>2, <1>3, OverwriteFacts
<1>5. c \in [v : Seq(Byte), r : Int, w : Int]
      <2>1. Overwrite(b.v, CheapPrepend, Content(b)) \in Seq(Byte)
            /\ CheapPrepend + Readable(b) \in Int
            BY <1>1, <1>3, <1>4 DEF Readable
      <2> QED  BY <1>1, <2>1 DEF Moved
<1> HIDE DEF c
<1>6. IsBuffer(c)  BY <1>1, <1>3, <1>4, <1>5 DEF IsBuffer
<1>7. ASSUME NEW i \in 1..(b.w - b.r)
      PROVE  c.v[c.r + i] = b.v[b.r + i]
      <2> PICK j \in Int : j = CheapPrepend + i  BY <1>1
      <2>1. /\ j \in 1..Len(b.v)
            /\ j - CheapPrepend = i
            /\ i \in 1..Len(Content(b))
            BY <1>1, <1>2
      <2>2. c.v[j] = Content(b)[i]  BY <1>4, <2>1
      <2> QED  BY <1>2, <1>3, <2>2
<1>8. c.w - c.r = b.w - b.r  BY <1>1, <1>3
<1>9. Content(c) = Content(b)  BY <1>6, <1>7, <1>8, SameContent
<1> QED  BY <1>4, <1>6, <1>9 DEF c

(* EnsureWriteableBytes that returns has made the room, kept the contents and
   not shrunk the vector; it grew it only if growing was needed. *)
LEMMA SpacedFacts ==
    ASSUME NEW b, IsBuffer(b), NEW n \in Nat, ~SpaceAborts(b, n)
    PROVE  /\ IsBuffer(Spaced(b, n))
           /\ n <= Writeable(Spaced(b, n))
           /\ Content(Spaced(b, n)) = Content(b)
           /\ \/ Len(Spaced(b, n).v) = Len(b.v)
              \/ Grows(b, n) /\ Len(Spaced(b, n).v) = b.w + n
           /\ Len(b.v) <= Len(Spaced(b, n).v)
<1>1. /\ Len(b.v) \in Nat /\ b.r \in Int /\ b.w \in Int /\ CheapPrepend \in Nat
      /\ 0 <= b.r /\ b.r <= b.w /\ b.w <= Len(b.v)
      BY SizesAssumption, LenProperties DEF IsBuffer
<1>2. CASE Writeable(b) >= n
      <2>1. Spaced(b, n) = b  BY <1>2 DEF Spaced
      <2> QED  BY <1>1, <1>2, <2>1
<1>3. CASE ~(Writeable(b) >= n) /\ Grows(b, n)
      <2>1. Spaced(b, n) = Grown(b, n)  BY <1>3 DEF Spaced
      <2>2. /\ IsBuffer(Grown(b, n))
            /\ Len(Grown(b, n).v) = b.w + n
            /\ Grown(b, n).w = b.w
            /\ Content(Grown(b, n)) = Content(b)
            BY <1>3, GrownFacts
      <2>3. Len(b.v) <= b.w + n  BY <1>1, <1>3 DEF Writeable
      <2>4. n <= Writeable(Grown(b, n))  BY <1>1, <2>2 DEF Writeable
      <2> QED  BY <1>3, <2>1, <2>2, <2>3, <2>4
<1>4. CASE ~(Writeable(b) >= n) /\ ~Grows(b, n)
      <2>1. Spaced(b, n) = Moved(b)  BY <1>4 DEF Spaced
      <2>2. Writeable(b) < n  BY <1>1, <1>4 DEF Writeable
      <2>3. CheapPrepend < b.r  BY <1>1, <1>4, <2>2 DEF SpaceAborts, Moves
      <2>4. /\ IsBuffer(Moved(b))
            /\ Len(Moved(b).v) = Len(b.v)
            /\ Content(Moved(b)) = Content(b)
            BY <2>3, MovedFacts
      <2>5. Writeable(Moved(b)) \in Int  BY <1>1, <2>4 DEF IsBuffer, Writeable
      <2>6. n <= Writeable(Moved(b))  BY <2>1, <2>5 DEF SpaceAborts
      <2> QED  BY <1>1, <2>1, <2>4, <2>6
<1> QED  BY <1>2, <1>3, <1>4

(* The asserts about space fail in the gap: the contents would have fitted in
   the vector, and not behind the headroom. *)
LEMMA AbortInTheGap ==
    ASSUME NEW b, IsBuffer(b), NEW n \in Nat, SpaceAborts(b, n)
    PROVE  InTheGap(b, n)
<1>1. /\ Len(b.v) \in Nat /\ b.r \in Int /\ b.w \in Int /\ CheapPrepend \in Nat
      /\ 0 <= b.r /\ b.r <= b.w /\ b.w <= Len(b.v)
      BY SizesAssumption, LenProperties DEF IsBuffer
<1>2. Writeable(b) < n
      <2>1. CASE Moves(b, n)  BY <2>1 DEF Moves
      <2>2. CASE Writeable(Spaced(b, n)) < n
            <3> SUFFICES ASSUME Writeable(b) >= n PROVE FALSE
                BY <1>1 DEF Writeable
            <3>1. Spaced(b, n) = b  BY DEF Spaced
            <3> QED  BY <1>1, <2>2, <3>1 DEF Writeable
      <2> QED  BY <2>1, <2>2 DEF SpaceAborts
<1>3. ~Grows(b, n)
      <2> SUFFICES ASSUME Grows(b, n) PROVE FALSE
          OBVIOUS
      <2>1. Spaced(b, n) = Grown(b, n)  BY <1>1, <1>2 DEF Spaced, Writeable
      <2>2. Len(Grown(b, n).v) = b.w + n /\ Grown(b, n).w = b.w  BY GrownFacts
      <2>3. ~(Writeable(Spaced(b, n)) < n)  BY <1>1, <2>1, <2>2 DEF Writeable
      <2> QED  BY <2>3 DEF SpaceAborts, Moves
<1>4. Readable(b) + n <= Len(b.v)
      BY <1>1, <1>3 DEF Grows, Readable, Writeable, Prependable
<1>5. Len(b.v) - CheapPrepend < Readable(b) + n
      <2>1. CASE b.r <= CheapPrepend  BY <1>1, <1>2, <2>1 DEF Readable, Writeable
      <2>2. CASE ~(b.r <= CheapPrepend)
            <3>1. Len(Moved(b).v) = Len(b.v)  BY <1>1, <2>2, MovedFacts
            <3>2. Moved(b).w = CheapPrepend + Readable(b)  BY DEF Moved
            <3>3. Spaced(b, n) = Moved(b)  BY <1>1, <1>2, <1>3 DEF Spaced, Writeable
            <3>4. Writeable(Moved(b)) < n  BY <2>2, <3>3 DEF SpaceAborts
            <3> QED  BY <1>1, <3>1, <3>2, <3>4 DEF Readable, Writeable
      <2> QED  BY <2>1, <2>2
<1> QED  BY <1>2, <1>4, <1>5 DEF InTheGap

(* In the gap they fail: the vector is not grown, and the contents either are
   not behind the headroom or leave too little room when moved. *)
LEMMA GapAborts ==
    ASSUME NEW b, IsBuffer(b), NEW n \in Nat, InTheGap(b, n)
    PROVE  SpaceAborts(b, n)
<1>1. /\ Len(b.v) \in Nat /\ b.r \in Int /\ b.w \in Int /\ CheapPrepend \in Nat
      /\ 0 <= b.r /\ b.r <= b.w /\ b.w <= Len(b.v)
      BY SizesAssumption, LenProperties DEF IsBuffer
<1>2. /\ Writeable(b) < n
      /\ Len(b.v) - CheapPrepend < Readable(b) + n
      /\ Readable(b) + n <= Len(b.v)
      BY DEF InTheGap
<1>3. ~Grows(b, n)
      BY <1>1, <1>2 DEF Grows, Readable, Writeable, Prependable
<1>4. CASE b.r <= CheapPrepend
      BY <1>2, <1>3, <1>4 DEF SpaceAborts, Moves
<1>5. CASE ~(b.r <= CheapPrepend)
      <2>1. Len(Moved(b).v) = Len(b.v)  BY <1>1, <1>5, MovedFacts
      <2>2. Moved(b).w = CheapPrepend + Readable(b)  BY DEF Moved
      <2>3. Spaced(b, n) = Moved(b)  BY <1>1, <1>2, <1>3 DEF Spaced, Writeable
      <2>4. Writeable(Moved(b)) < n
            BY <1>1, <1>2, <2>1, <2>2 DEF Readable, Writeable
      <2> QED  BY <2>3, <2>4 DEF SpaceAborts
<1> QED  BY <1>4, <1>5

(* A header is put in front of the contents. *)
LEMMA PrependedFacts ==
    ASSUME NEW b, IsBuffer(b), NEW data \in Seq(Byte), Len(data) <= b.r,
           NEW c, c = [b EXCEPT !.r = b.r - Len(data),
                                !.v = Overwrite(b.v, b.r - Len(data), data)]
    PROVE  /\ IsBuffer(c)
           /\ Len(c.v) = Len(b.v)
           /\ Content(c) = data \o Content(b)
<1>1. /\ b \in [v : Seq(Byte), r : Int, w : Int]
      /\ b.v \in Seq(Byte) /\ Len(b.v) \in Nat /\ Len(data) \in Nat
      /\ b.r \in Int /\ b.w \in Int /\ b.r - Len(data) \in Nat
      /\ 0 <= b.r /\ b.r <= b.w /\ b.w <= Len(b.v)
      BY LenProperties DEF IsBuffer
<1>2. /\ c.v = Overwrite(b.v, b.r - Len(data), data)
      /\ c.r = b.r - Len(data)
      /\ c.w = b.w
      BY <1>1
<1>3. /\ c.v \in Seq(Byte)
      /\ Len(c.v) = Len(b.v)
      /\ \A i \in 1..Len(b.v) :
            c.v[i] = IF i - (b.r - Len(data)) \in 1..Len(data)
                     THEN data[i - (b.r - Len(data))] ELSE b.v[i]
      BY <1>1, <1>2, OverwriteFacts
<1>4. IsBuffer(c)
      <2>1. b.r - Len(data) \in Int /\ Overwrite(b.v, b.r - Len(data), data) \in Seq(Byte)
            BY <1>1, <1>2, <1>3
      <2>2. c \in [v : Seq(Byte), r : Int, w : Int]  BY <1>1, <2>1, RecordFacts
      <2> QED  BY <1>1, <1>2, <1>3, <2>2 DEF IsBuffer
<1>5. /\ Content(b) \in Seq(Byte)
      /\ Len(Content(b)) = b.w - b.r
      /\ \A i \in 1..(b.w - b.r) : Content(b)[i] = b.v[b.r + i]
      BY ContentFacts
<1>6. /\ Content(c) \in Seq(Byte)
      /\ Len(Content(c)) = c.w - c.r
      /\ \A i \in 1..(c.w - c.r) : Content(c)[i] = c.v[c.r + i]
      BY <1>4, ContentFacts
<1>7. /\ data \o Content(b) \in Seq(Byte)
      /\ Len(data \o Content(b)) = Len(data) + Len(Content(b))
      /\ \A i \in 1..Len(data) + Len(Content(b)) :
            (data \o Content(b))[i] =
               IF i <= Len(data) THEN data[i] ELSE Content(b)[i - Len(data)]
      BY <1>5, ConcatProperties
<1>8. ASSUME NEW i \in 1..Len(Content(c))
      PROVE  Content(c)[i] = (data \o Content(b))[i]
      <2> PICK j \in Int : j = (b.r - Len(data)) + i  BY <1>1, <1>2, <1>6
      <2>1. /\ i \in 1..Len(data) + Len(Content(b))
            /\ i \in 1..(c.w - c.r)
            /\ j \in 1..Len(b.v)
            /\ j - (b.r - Len(data)) = i
            <3>1. i \in 1..(c.w - c.r)  BY <1>6
            <3>2. c.w - c.r = Len(data) + (b.w - b.r)  BY <1>1, <1>2
            <3>3. i \in 1..(Len(data) + (b.w - b.r))  BY <3>1, <3>2
            <3>4. j \in 1..Len(b.v)  BY <1>1, <3>3
            <3>5. j - (b.r - Len(data)) = i  BY <1>1, <3>3
            <3> QED  BY <1>5, <3>1, <3>3, <3>4, <3>5
      <2>2. Content(c)[i] = c.v[j]  BY <1>2, <1>6, <2>1
      <2>3. c.v[j] = IF i \in 1..Len(data) THEN data[i] ELSE b.v[j]
            BY <1>3, <2>1
      <2>4. CASE i <= Len(data)
            <3>1. i \in 1..Len(data)  BY <1>1, <2>1, <2>4
            <3> QED  BY <1>7, <2>1, <2>2, <2>3, <2>4, <3>1
      <2>5. CASE ~(i <= Len(data))
            <3> PICK k \in Int : k = i - Len(data)  BY <1>1, <2>1
            <3>1. k \in 1..(b.w - b.r) /\ b.r + k = j /\ ~(i \in 1..Len(data))
                  <4>1. i \in 1..(Len(data) + (b.w - b.r))  BY <1>5, <2>1
                  <4>2. k \in 1..(b.w - b.r)  BY <1>1, <2>5, <4>1
                  <4>3. b.r + k = j  BY <1>1, <4>1
                  <4> QED  BY <1>1, <2>5, <4>1, <4>2, <4>3
            <3>2. Content(b)[k] = b.v[j]  BY <1>5, <3>1
            <3> QED  BY <1>7, <2>1, <2>2, <2>3, <2>5, <3>1, <3>2
      <2> QED  BY <2>4, <2>5
<1>9. Len(Content(c)) = Len(data \o Content(b))  BY <1>1, <1>2, <1>5, <1>6, <1>7
<1>10. Content(c) = data \o Content(b)  BY <1>6, <1>7, <1>8, <1>9, SeqEqual
<1> QED  BY <1>3, <1>4, <1>10
-----------------------------------------------------------------------------
(* What a step of Next does: to the buffer and, seen as a queue, to its
   bytes; and to the vector's length. *)
Step ==
    /\ IsBuffer(buf')
    /\ Len(buf.v) <= Len(buf'.v)
    /\ aborted' \in BOOLEAN
    /\ (Content(buf') = Content(buf) /\ last' = last) \/ Bytes!Next

GrowthIsNeeded ==
    Len(buf.v') > Len(buf.v) =>
       LET new == Len(buf.v') - buf.w IN Readable(buf) + new > Len(buf.v)

(* The indices are integers, in order, inside the vector. *)
LEMMA Indices ==
    ASSUME NEW b, IsBuffer(b)
    PROVE  /\ b.v \in Seq(Byte) /\ Len(b.v) \in Nat
           /\ b.r \in Int /\ b.w \in Int /\ CheapPrepend \in Nat
           /\ 0 <= b.r /\ b.r <= b.w /\ b.w <= Len(b.v)
BY SizesAssumption, LenProperties DEF IsBuffer

(* What the invariant says of the buffer and of the headroom. *)
LEMMA IInvIsBuffer ==
    ASSUME IInv
    PROVE  IsBuffer(buf) /\ CheapPrepend <= Len(buf.v) /\ aborted \in BOOLEAN
BY DEF IInv, TypeOK, ReadableInVector, HasHeadroom, IsBuffer

(* What callers pass are non-empty sequences of bytes. *)
LEMMA DataFacts ==
    ASSUME NEW data \in Data
    PROVE  data \in Seq(Byte) /\ Len(data) \in 1..MaxData
<1>1. PICK n \in 1..MaxData : data \in [1..n -> Byte]  BY DEF Data
<1>2. n \in Nat  BY SizesAssumption
<1> QED  BY <1>1, <1>2, FunctionIsSeq

(* A call that appended data, read it, or put it in front is a step of the
   queue. *)
LEMMA QueueStep ==
    ASSUME NEW data \in Seq(Byte), NEW name \in {"write", "read", "prepend"},
           last' = [name |-> name, data |-> data],
           name = "write" => Content(buf') = Content(buf) \o data,
           name = "read" => Content(buf) = data \o Content(buf'),
           name = "prepend" => Content(buf') = data \o Content(buf)
    PROVE  Bytes!Next
<1>1. last' \in Bytes!Call  BY DEF Bytes!Call
<1>2. last'.name = name /\ last'.data = data  OBVIOUS
<1>3. CASE name = "write"  BY <1>1, <1>2, <1>3 DEF Bytes!Next, Bytes!Write
<1>4. CASE name = "read"  BY <1>1, <1>2, <1>4 DEF Bytes!Next, Bytes!Read
<1>5. CASE name = "prepend"  BY <1>1, <1>2, <1>5 DEF Bytes!Next, Bytes!Prepend
<1> QED  BY <1>3, <1>4, <1>5

(* An assert that fails changes nothing else. *)
LEMMA AbortStep ==
    ASSUME IInv, Abort
    PROVE  Step /\ GrowthIsNeeded
<1>1. IsBuffer(buf) /\ aborted \in BOOLEAN  BY IInvIsBuffer
<1>2. buf' = buf /\ last' = last /\ aborted' = TRUE  BY DEF Abort
<1> QED  BY <1>1, <1>2, Indices DEF Step, GrowthIsNeeded

(* AppendTo that returns. *)
LEMMA AppendToFacts ==
    ASSUME NEW b, IsBuffer(b), NEW rest \in Seq(Byte), NEW data,
           ~SpaceAborts(b, Len(rest)), AppendTo(b, rest, data)
    PROVE  /\ IsBuffer(buf')
           /\ Content(buf') = Content(b) \o rest
           /\ Len(b.v) <= Len(buf'.v)
           /\ \/ Len(buf'.v) = Len(b.v)
              \/ Grows(b, Len(rest)) /\ Len(buf'.v) = b.w + Len(rest)
           /\ last' = [name |-> "write", data |-> data]
           /\ aborted' = aborted
<1> DEFINE c == Spaced(b, Len(rest))
<1>1. Len(rest) \in Nat  BY LenProperties
<1>2. /\ IsBuffer(c)
      /\ Len(rest) <= Writeable(c)
      /\ Content(c) = Content(b)
      /\ \/ Len(c.v) = Len(b.v)
         \/ Grows(b, Len(rest)) /\ Len(c.v) = b.w + Len(rest)
      /\ Len(b.v) <= Len(c.v)
      BY <1>1, SpacedFacts
<1>3. /\ buf' = Written(c, rest)
      /\ last' = [name |-> "write", data |-> data]
      /\ aborted' = aborted
      BY DEF AppendTo, Done
<1> HIDE DEF c
<1>4. /\ IsBuffer(buf')
      /\ Len(buf'.v) = Len(c.v)
      /\ Content(buf') = Content(c) \o rest
      BY <1>2, <1>3, WrittenFacts
<1> QED  BY <1>2, <1>3, <1>4

(* Append writes at the back, or stops the process in the gap. *)
LEMMA AppendStep ==
    ASSUME IInv, NEW data \in Data, Append_(data)
    PROVE  Step /\ GrowthIsNeeded
<1>1. IsBuffer(buf) /\ aborted \in BOOLEAN  BY IInvIsBuffer
<1>2. data \in Seq(Byte) /\ Len(data) \in 1..MaxData  BY DataFacts
<1>4. AppendTo(buf, data, data)  BY DEF Append_
<1>5. Len(data) \in Nat  BY <1>2, LenProperties
<1>6. CASE SpaceAborts(buf, Len(data))
      <2>1. Abort  BY <1>4, <1>6 DEF AppendTo
      <2> QED  BY <2>1, AbortStep
<1>7. CASE ~SpaceAborts(buf, Len(data))
      <2>1. /\ IsBuffer(buf')
            /\ Content(buf') = Content(buf) \o data
            /\ Len(buf.v) <= Len(buf'.v)
            /\ \/ Len(buf'.v) = Len(buf.v)
               \/ Grows(buf, Len(data)) /\ Len(buf'.v) = buf.w + Len(data)
            /\ last' = [name |-> "write", data |-> data]
            /\ aborted' = aborted
            BY <1>1, <1>2, <1>4, <1>7, AppendToFacts
      <2>2. Bytes!Next  BY <1>2, <2>1, QueueStep
      <2>3. Step  BY <1>1, <2>1, <2>2 DEF Step
      <2>4. GrowthIsNeeded
            BY <1>1, <1>5, <2>1, Indices
               DEF GrowthIsNeeded, Grows, Readable, Writeable, Prependable
      <2> QED  BY <2>3, <2>4
<1> QED  BY <1>6, <1>7

(* EnsureWriteableBytes leaves the queue alone, or stops the process in the
   gap. *)
LEMMA EnsureWriteableBytesStep ==
    ASSUME IInv, NEW n \in 1..MaxData, EnsureWriteableBytes(n)
    PROVE  Step /\ GrowthIsNeeded
<1>1. IsBuffer(buf) /\ aborted \in BOOLEAN  BY IInvIsBuffer
<1>2. n \in Nat  BY SizesAssumption
<1>3. CASE SpaceAborts(buf, n)
      <2>1. Abort  BY <1>3 DEF EnsureWriteableBytes
      <2> QED  BY <2>1, AbortStep
<1>4. CASE ~SpaceAborts(buf, n)
      <2>1. ~aborted /\ buf' = Spaced(buf, n) /\ aborted' = aborted /\ last' = last
            BY <1>4 DEF EnsureWriteableBytes
      <2>2. /\ IsBuffer(buf')
            /\ Content(buf') = Content(buf)
            /\ Len(buf.v) <= Len(buf'.v)
            /\ \/ Len(buf'.v) = Len(buf.v)
               \/ Grows(buf, n) /\ Len(buf'.v) = buf.w + n
            BY <1>1, <1>2, <1>4, <2>1, SpacedFacts
      <2>3. Step  BY <1>1, <2>1, <2>2 DEF Step
      <2>4. GrowthIsNeeded
            BY <1>1, <1>2, <2>2, Indices
               DEF GrowthIsNeeded, Grows, Readable, Writeable, Prependable
      <2> QED  BY <2>3, <2>4
<1> QED  BY <1>3, <1>4

(* A step that leaves the length of the vector and aborted alone. *)
LEMMA InPlaceStep ==
    ASSUME IInv, IsBuffer(buf'), Len(buf'.v) = Len(buf.v), ~aborted, aborted' = aborted,
           Bytes!Next
    PROVE  Step /\ GrowthIsNeeded
<1>1. IsBuffer(buf) /\ aborted \in BOOLEAN  BY IInvIsBuffer
<1>2. Len(buf.v) \in Nat  BY <1>1, Indices
<1>3. Step  BY <1>1, <1>2 DEF Step
<1>4. GrowthIsNeeded  BY <1>2 DEF GrowthIsNeeded
<1> QED  BY <1>3, <1>4

(* HasWritten writes at the back, into space that is there. *)
LEMMA HasWrittenStep ==
    ASSUME IInv, NEW data \in Data, HasWritten(data)
    PROVE  Step /\ GrowthIsNeeded
<1>1. IsBuffer(buf) /\ aborted \in BOOLEAN  BY IInvIsBuffer
<1>2. data \in Seq(Byte)  BY DataFacts
<1>3. /\ ~aborted
      /\ Len(data) <= Writeable(buf)
      /\ buf' = Written(buf, data)
      /\ last' = [name |-> "write", data |-> data]
      /\ aborted' = aborted
      BY DEF HasWritten, Done
<1>4. /\ IsBuffer(buf')
      /\ Len(buf'.v) = Len(buf.v)
      /\ Content(buf') = Content(buf) \o data
      BY <1>1, <1>2, <1>3, WrittenFacts
<1>5. Bytes!Next  BY <1>2, <1>3, <1>4, QueueStep
<1> QED  BY <1>3, <1>4, <1>5, InPlaceStep

(* What ReadFd does with more bytes than the vector has room for: the vector
   is filled with the first of them, the rest is in the extra buffer. *)
Filled(data) == Written(buf, SubSeq(data, 1, Writeable(buf)))
Extra(data) == SubSeq(data, Writeable(buf) + 1, Len(data))

LEMMA FilledFacts ==
    ASSUME IInv, NEW data \in Data, ~(Len(data) <= Writeable(buf))
    PROVE  /\ IsBuffer(Filled(data))
           /\ Len(Filled(data).v) = Len(buf.v)
           /\ Filled(data).r = buf.r
           /\ Filled(data).w = Len(buf.v)
           /\ Extra(data) \in Seq(Byte)
           /\ Len(Extra(data)) = Len(data) - Writeable(buf)
           /\ Content(Filled(data)) \o Extra(data) = Content(buf) \o data
<1> DEFINE k == Writeable(buf)
<1> DEFINE head == SubSeq(data, 1, k)
<1> DEFINE rest == SubSeq(data, k + 1, Len(data))
<1>1. IsBuffer(buf)  BY IInvIsBuffer
<1>2. data \in Seq(Byte) /\ Len(data) \in Nat  BY DataFacts, LenProperties
<1>3. k \in Nat /\ k = Len(buf.v) - buf.w /\ k < Len(data)
      BY <1>1, <1>2, Indices DEF Writeable
<1>4. \A i \in 1..Len(data) : data[i] \in Byte  BY <1>2, ElementOfSeq
<1> HIDE DEF k
<1>5. head \in Seq(Byte) /\ Len(head) = k
      <2>1. 1 \in Int /\ k \in Int /\ \A i \in 1..k : data[i] \in Byte
            BY <1>2, <1>3, <1>4
      <2>2. /\ SubSeq(data, 1, k) \in Seq(Byte)
            /\ Len(SubSeq(data, 1, k)) = IF 1 <= k THEN k - 1 + 1 ELSE 0
            BY <2>1, SubSeqProperties
      <2> QED  BY <1>3, <2>2
<1>6. rest \in Seq(Byte) /\ Len(rest) = Len(data) - k
      <2>1. /\ k + 1 \in Int /\ Len(data) \in Int
            /\ \A i \in (k + 1)..Len(data) : data[i] \in Byte
            BY <1>2, <1>3, <1>4
      <2>2. /\ SubSeq(data, k + 1, Len(data)) \in Seq(Byte)
            /\ Len(SubSeq(data, k + 1, Len(data))) =
                  IF k + 1 <= Len(data) THEN Len(data) - (k + 1) + 1 ELSE 0
            BY <2>1, SubSeqProperties
      <2> QED  BY <1>2, <1>3, <2>2
<1>7. head \o rest = data
      <2>1. 1 \in 1..Len(data) + 1 /\ k \in (1 - 1)..Len(data) /\ Len(data) \in k..Len(data)
            BY <1>2, <1>3
      <2>2. SubSeq(data, 1, k) \o SubSeq(data, k + 1, Len(data)) = SubSeq(data, 1, Len(data))
            BY <1>2, <2>1, ConcatAdjacentSubSeq
      <2> QED  BY <1>2, <2>2, SubSeqFull
<1>8. Filled(data) = Written(buf, head) /\ Extra(data) = rest
      BY DEF Filled, Extra, k
<1>9. Len(head) <= Writeable(buf)  BY <1>3, <1>5 DEF k
<1> HIDE DEF head, rest
<1>10. /\ IsBuffer(Filled(data))
       /\ Len(Filled(data).v) = Len(buf.v)
       /\ Filled(data).w = buf.w + k
       /\ Filled(data).r = buf.r
       /\ Content(Filled(data)) = Content(buf) \o head
       BY <1>1, <1>5, <1>8, <1>9, WrittenFacts
<1>11. Filled(data).w = Len(buf.v)  BY <1>1, <1>3, <1>10, Indices
<1>12. Content(Filled(data)) \o rest = Content(buf) \o data
       <2>1. Content(buf) \in Seq(Byte)  BY <1>1, ContentFacts
       <2>2. (Content(buf) \o head) \o rest = Content(buf) \o (head \o rest)
             BY <1>5, <1>6, <2>1, Associative
       <2> QED  BY <1>7, <1>10, <2>2
<1> QED  BY <1>6, <1>8, <1>10, <1>11, <1>12 DEF k

(* ReadFd fills the vector and appends the rest from the extra buffer: the
   growing is that of an Append of everything. *)
LEMMA ReadFdStep ==
    ASSUME IInv, NEW data \in Data, ReadFd(data)
    PROVE  Step /\ GrowthIsNeeded
<1> DEFINE b == Filled(data)
<1> DEFINE rest == Extra(data)
<1>1. IsBuffer(buf) /\ aborted \in BOOLEAN  BY IInvIsBuffer
<1>2. data \in Seq(Byte) /\ Len(data) \in Nat  BY DataFacts, LenProperties
<1>3. CASE Len(data) <= Writeable(buf)
      BY <1>3, HasWrittenStep DEF ReadFd
<1>4. CASE ~(Len(data) <= Writeable(buf))
      <2>1. AppendTo(b, rest, data)  BY <1>4 DEF ReadFd, Filled, Extra
      <2>2. /\ IsBuffer(b)
            /\ Len(b.v) = Len(buf.v)
            /\ b.r = buf.r
            /\ b.w = Len(buf.v)
            /\ rest \in Seq(Byte)
            /\ Content(b) \o rest = Content(buf) \o data
            BY <1>4, FilledFacts
      <2>3. CASE SpaceAborts(b, Len(rest))
            <3>1. Abort  BY <2>1, <2>3 DEF AppendTo
            <3> QED  BY <3>1, AbortStep
      <2>4. CASE ~SpaceAborts(b, Len(rest))
            <3> HIDE DEF b, rest
            <3>1. /\ IsBuffer(buf')
                  /\ Content(buf') = Content(b) \o rest
                  /\ Len(b.v) <= Len(buf'.v)
                  /\ \/ Len(buf'.v) = Len(b.v)
                     \/ Grows(b, Len(rest)) /\ Len(buf'.v) = b.w + Len(rest)
                  /\ last' = [name |-> "write", data |-> data]
                  /\ aborted' = aborted
                  BY <2>1, <2>2, <2>4, AppendToFacts
            <3>2. Bytes!Next  BY <1>2, <2>2, <3>1, QueueStep
            <3>3. Step  BY <1>1, <2>2, <3>1, <3>2 DEF Step
            <3>4. /\ Len(buf.v) \in Nat /\ buf.r \in Int /\ buf.w \in Int
                  /\ 0 <= buf.r /\ buf.r <= buf.w /\ buf.w <= Len(buf.v)
                  /\ Len(rest) \in Nat
                  BY <1>1, <2>2, Indices, LenProperties
            <3>5. GrowthIsNeeded
                  <4>1. CASE Len(buf'.v) = Len(b.v)
                        BY <2>2, <3>4, <4>1 DEF GrowthIsNeeded
                  <4>2. CASE Grows(b, Len(rest)) /\ Len(buf'.v) = b.w + Len(rest)
                        <5>1. buf.r < Len(rest)
                              BY <2>2, <3>4, <4>2 DEF Grows, Writeable, Prependable
                        <5>2. Len(buf'.v) = Len(buf.v) + Len(rest)  BY <2>2, <4>2
                        <5> QED  BY <3>4, <5>1, <5>2 DEF GrowthIsNeeded, Readable
                  <4> QED  BY <3>1, <4>1, <4>2
            <3> QED  BY <3>3, <3>5
      <2> QED  BY <2>3, <2>4
<1> QED  BY <1>3, <1>4

(* Retrieve reads at the front. *)
LEMMA RetrieveStep ==
    ASSUME IInv, NEW n \in 1..MaxData, Retrieve(n)
    PROVE  Step /\ GrowthIsNeeded
<1> DEFINE data == SubSeq(buf.v, buf.r + 1, buf.r + n)
<1>1. IsBuffer(buf) /\ aborted \in BOOLEAN  BY IInvIsBuffer
<1>2. /\ buf.v \in Seq(Byte) /\ Len(buf.v) \in Nat /\ buf.r \in Int /\ buf.w \in Int
      /\ 0 <= buf.r /\ buf.r <= buf.w /\ buf.w <= Len(buf.v)
      BY <1>1, Indices
<1>3. /\ ~aborted
      /\ n \in Nat
      /\ buf.r + n <= buf.w
      /\ buf' = [buf EXCEPT !.r = buf.r + n]
      /\ last' = [name |-> "read", data |-> data]
      /\ aborted' = aborted
      BY <1>2, SizesAssumption DEF Retrieve, Done, Readable
<1>4. buf' \in [v : Seq(Byte), r : Int, w : Int]
      <2>1. buf \in [v : Seq(Byte), r : Int, w : Int]  BY <1>1 DEF IsBuffer
      <2>2. buf.r + n \in Int  BY <1>2, <1>3
      <2>3. [buf EXCEPT !.r = buf.r + n] \in [v : Seq(Byte), r : Int, w : Int]
            BY <1>2, <2>1, <2>2, RecordFacts
      <2> QED  BY <1>3, <2>3
<1>5. buf'.v = buf.v /\ buf'.r = buf.r + n /\ buf'.w = buf.w
      BY <1>1, <1>3 DEF IsBuffer
<1>6. IsBuffer(buf')  BY <1>2, <1>3, <1>4, <1>5 DEF IsBuffer
<1>7. data \in Seq(Byte)
      <2>1. buf.r + 1 \in Int /\ buf.r + n \in Int  BY <1>2, <1>3
      <2>2. \A i \in (buf.r + 1)..(buf.r + n) : buf.v[i] \in Byte
            <3> TAKE i \in (buf.r + 1)..(buf.r + n)
            <3>1. i \in 1..Len(buf.v)  BY <1>2, <1>3
            <3> QED  BY <1>2, <3>1, ElementOfSeq
      <2> QED  BY <2>1, <2>2, SubSeqProperties
<1>8. Content(buf) = data \o Content(buf')
      <2>1. PICK k \in Int : k = buf.r + n  BY <1>2, <1>3
      <2>2. buf.r <= k /\ k <= buf.w  BY <1>2, <1>3, <2>1
      <2>3. SubSeq(buf.v, buf.r + 1, k) \o SubSeq(buf.v, k + 1, buf.w)
               = SubSeq(buf.v, buf.r + 1, buf.w)
            BY <1>2, <2>2, SplitFacts
      <2> QED  BY <1>5, <2>1, <2>3 DEF Content
<1> HIDE DEF data
<1>9. Bytes!Next  BY <1>3, <1>7, <1>8, QueueStep
<1> QED  BY <1>3, <1>5, <1>6, <1>9, InPlaceStep

(* Without the headroom the indices would end up behind the vector. *)
LEMMA RetrieveAllStep ==
    ASSUME IInv, RetrieveAll
    PROVE  Step /\ GrowthIsNeeded
<1>1. IsBuffer(buf) /\ CheapPrepend <= Len(buf.v)  BY IInvIsBuffer
<1>2. buf.v \in Seq(Byte) /\ Len(buf.v) \in Nat /\ CheapPrepend \in Nat
      BY <1>1, Indices
<1>3. /\ ~aborted
      /\ buf' = [buf EXCEPT !.r = CheapPrepend, !.w = CheapPrepend]
      /\ last' = [name |-> "read", data |-> Content(buf)]
      /\ aborted' = aborted
      BY DEF RetrieveAll, Done
<1>4. buf' \in [v : Seq(Byte), r : Int, w : Int]
      <2>1. buf \in [v : Seq(Byte), r : Int, w : Int]  BY <1>1 DEF IsBuffer
      <2>2. CheapPrepend \in Int  BY <1>2
      <2>3. [buf EXCEPT !.r = CheapPrepend, !.w = CheapPrepend]
               \in [v : Seq(Byte), r : Int, w : Int]
            BY <1>2, <2>1, <2>2, RecordFacts
      <2> QED  BY <1>3, <2>3
<1>5. buf'.v = buf.v /\ buf'.r = CheapPrepend /\ buf'.w = CheapPrepend
      BY <1>1, <1>3 DEF IsBuffer
<1>6. IsBuffer(buf')  BY <1>1, <1>2, <1>4, <1>5 DEF IsBuffer
<1>7. Content(buf) \in Seq(Byte)  BY <1>1, ContentFacts
<1>8. Content(buf') = <<>>
      <2>1. CheapPrepend + 1 \in Int /\ CheapPrepend \in Int /\ CheapPrepend < CheapPrepend + 1
            BY <1>2
      <2> QED  BY <1>5, <2>1, SubSeqEmpty DEF Content
<1>9. Content(buf) = Content(buf) \o Content(buf')  BY <1>7, <1>8, ConcatEmptySeq
<1>10. Bytes!Next  BY <1>3, <1>7, <1>9, QueueStep
<1> QED  BY <1>3, <1>5, <1>6, <1>10, InPlaceStep

(* Prepend puts bytes back in front, into headroom that is there. *)
LEMMA PrependStep ==
    ASSUME IInv, NEW data \in Data, Prepend(data)
    PROVE  Step /\ GrowthIsNeeded
<1>1. IsBuffer(buf) /\ aborted \in BOOLEAN  BY IInvIsBuffer
<1>2. data \in Seq(Byte)  BY DataFacts
<1>3. /\ ~aborted
      /\ Len(data) <= buf.r
      /\ buf' = [buf EXCEPT !.r = buf.r - Len(data),
                            !.v = Overwrite(buf.v, buf.r - Len(data), data)]
      /\ last' = [name |-> "prepend", data |-> data]
      /\ aborted' = aborted
      BY DEF Prepend, Done, Prependable
<1>4. /\ IsBuffer(buf')
      /\ Len(buf'.v) = Len(buf.v)
      /\ Content(buf') = data \o Content(buf)
      BY <1>1, <1>2, <1>3, PrependedFacts
<1>5. Bytes!Next  BY <1>2, <1>3, <1>4, QueueStep
<1> QED  BY <1>3, <1>4, <1>5, InPlaceStep

(* Every action is such a step. *)
LEMMA NextStep ==
    ASSUME IInv, Next
    PROVE  Step /\ GrowthIsNeeded
<1>1. ASSUME NEW data \in Data, Append_(data)
      PROVE  Step /\ GrowthIsNeeded
      BY <1>1, AppendStep
<1>2. ASSUME NEW data \in Data, ReadFd(data)
      PROVE  Step /\ GrowthIsNeeded
      BY <1>2, ReadFdStep
<1>3. ASSUME NEW data \in Data, HasWritten(data)
      PROVE  Step /\ GrowthIsNeeded
      BY <1>3, HasWrittenStep
<1>4. ASSUME NEW data \in Data, Prepend(data)
      PROVE  Step /\ GrowthIsNeeded
      BY <1>4, PrependStep
<1>5. ASSUME NEW n \in 1..MaxData, EnsureWriteableBytes(n)
      PROVE  Step /\ GrowthIsNeeded
      BY <1>5, EnsureWriteableBytesStep
<1>6. ASSUME NEW n \in 1..MaxData, Retrieve(n)
      PROVE  Step /\ GrowthIsNeeded
      BY <1>6, RetrieveStep
<1>7. CASE RetrieveAll  BY <1>7, RetrieveAllStep
<1> QED  BY <1>1, <1>2, <1>3, <1>4, <1>5, <1>6, <1>7 DEF Next
-----------------------------------------------------------------------------
(* A new buffer satisfies the invariant and is an empty queue. *)
LEMMA InitialBuffer ==
    ASSUME Init
    PROVE  IInv /\ Bytes!Init
<1>1. CheapPrepend \in Nat /\ InitialSize \in Nat /\ CheapPrepend + InitialSize \in Nat
      BY SizesAssumption
<1>2. /\ Zeros(CheapPrepend + InitialSize) \in Seq(Byte)
      /\ Len(Zeros(CheapPrepend + InitialSize)) = CheapPrepend + InitialSize
      BY <1>1, ZerosFacts
<1>3. /\ buf.v = Zeros(CheapPrepend + InitialSize)
      /\ buf.r = CheapPrepend
      /\ buf.w = CheapPrepend
      /\ buf \in [v : Seq(Byte), r : Int, w : Int]
      BY <1>1, <1>2 DEF Init
<1>4. aborted = FALSE /\ last = [name |-> "none", data |-> <<>>]  BY DEF Init
<1>5. last \in Bytes!Call
      <2>1. <<>> \in Seq(Byte)  BY EmptySeq
      <2> QED  BY <1>4, <2>1 DEF Bytes!Call
<1>6. Content(buf) = <<>>
      <2>1. CheapPrepend + 1 \in Int /\ CheapPrepend \in Int /\ CheapPrepend < CheapPrepend + 1
            BY <1>1
      <2> QED  BY <1>3, <2>1, SubSeqEmpty DEF Content
<1>7. ReadableInVector /\ HasHeadroom
      BY <1>1, <1>2, <1>3 DEF ReadableInVector, HasHeadroom
<1>8. IInv  BY <1>3, <1>4, <1>5, <1>7 DEF IInv, TypeOK
<1> QED  BY <1>4, <1>6, <1>8 DEF Bytes!Init

(* Every step preserves the invariant: the vector never shrinks. *)
LEMMA IInvIsInductive ==
    ASSUME IInv, [Next]_vars
    PROVE  IInv'
<1>1. CASE Next
      <2>1. Step  BY <1>1, NextStep
      <2>2. IsBuffer(buf) /\ CheapPrepend <= Len(buf.v) /\ last \in Bytes!Call
            BY IInvIsBuffer DEF IInv, TypeOK
      <2>3. IsBuffer(buf') /\ Len(buf.v) <= Len(buf'.v) /\ aborted' \in BOOLEAN
            BY <2>1 DEF Step
      <2>4. last' \in Bytes!Call  BY <2>1, <2>2 DEF Step, Bytes!Next
      <2>5. CheapPrepend <= Len(buf'.v)
            <3>1. Len(buf.v) \in Nat /\ CheapPrepend \in Nat  BY <2>2, Indices
            <3>2. Len(buf'.v) \in Nat  BY <2>3, Indices
            <3> QED  BY <2>2, <2>3, <3>1, <3>2
      <2> QED  BY <2>3, <2>4, <2>5 DEF IInv, TypeOK, ReadableInVector, HasHeadroom, IsBuffer
<1>2. CASE UNCHANGED vars
      BY <1>2 DEF vars, IInv, TypeOK, ReadableInVector, HasHeadroom
<1> QED  BY <1>1, <1>2

(* The vector is never shorter than its headroom. *)
THEOREM Invariance == Spec => []IInv
<1>1. Init => IInv  BY InitialBuffer
<1>2. IInv /\ [Next]_vars => IInv'  BY IInvIsInductive
<1> QED  BY <1>1, <1>2, PTL DEF Spec

(* The indices stay in order and inside the vector, and the vector holds
   bytes (CBuffer.cpp:9-13, 44-207). *)
THEOREM BufferTypeCorrect == Spec => []TypeOK
<1>1. IInv => TypeOK  BY DEF IInv
<1> QED  BY <1>1, Invariance, PTL

(* CBuffer is a queue of bytes, for every alphabet and every size: an append
   that grows or moves the vector, a read split over the extra buffer, a
   retrieve and a prepend are the queue's writes, reads and prepends. *)
THEOREM BufferIsByteQueue == Spec => ImplementsByteQueue
<1>1. Init => Bytes!Init  BY InitialBuffer
<1>2. IInv /\ [Next]_vars => [Bytes!Next]_<<Content(buf), last>>
      <2> SUFFICES ASSUME IInv, [Next]_vars
                   PROVE  [Bytes!Next]_<<Content(buf), last>>
          OBVIOUS
      <2>1. CASE Next
            <3>1. Step  BY <2>1, NextStep
            <3> QED  BY <3>1 DEF Step
      <2>2. CASE UNCHANGED vars  BY <2>2 DEF vars, Content
      <2> QED  BY <2>1, <2>2
<1> QED  BY <1>1, <1>2, Invariance, PTL DEF Spec, ImplementsByteQueue, Bytes!Spec

(* Space that was read is reused before the vector grows. *)
THEOREM GrowthIsBounded == Spec => GrowsOnlyWhenFull
<1>1. IInv /\ [Next]_vars =>
         [Len(buf.v') > Len(buf.v) =>
            LET new == Len(buf.v') - buf.w IN Readable(buf) + new > Len(buf.v)]_vars
      BY NextStep DEF GrowthIsNeeded
<1> QED  BY <1>1, Invariance, PTL DEF Spec, GrowsOnlyWhenFull

-----------------------------------------------------------------------------
(* A call that is to make room aborts when the asserts about space fail for
   the bytes it appends, and not otherwise. *)
LEMMA AppendToAborts ==
    ASSUME ~aborted, NEW b, NEW rest, NEW data, AppendTo(b, rest, data)
    PROVE  aborted' <=> SpaceAborts(b, Len(rest))
BY DEF AppendTo, Abort, Done

(* The asserts about space fail exactly in the gap. *)
LEMMA AbortsInTheGap ==
    ASSUME NEW b, IsBuffer(b), NEW n \in Nat
    PROVE  SpaceAborts(b, n) <=> InTheGap(b, n)
BY AbortInTheGap, GapAborts

LEMMA AppendAborts ==
    ASSUME IInv, NEW data \in Data, Append_(data)
    PROVE  aborted' <=> InTheGap(buf, Len(data))
<1>1. IsBuffer(buf)  BY IInvIsBuffer
<1>2. Len(data) \in Nat  BY DataFacts, LenProperties
<1>3. aborted' <=> SpaceAborts(buf, Len(data))  BY AppendToAborts DEF Append_
<1> QED  BY <1>1, <1>2, <1>3, AbortsInTheGap

(* Once the vector is filled, the rest is in the gap exactly when everything
   was in the gap before. *)
LEMMA ReadFdAborts ==
    ASSUME IInv, NEW data \in Data, ReadFd(data)
    PROVE  aborted' <=> InTheGap(buf, Len(data))
<1>1. IsBuffer(buf)  BY IInvIsBuffer
<1>2. Len(data) \in Nat  BY DataFacts, LenProperties
<1>3. ~aborted  BY DEF ReadFd
<1>4. /\ Len(buf.v) \in Nat /\ buf.r \in Int /\ buf.w \in Int /\ CheapPrepend \in Nat
      /\ 0 <= buf.r /\ buf.r <= buf.w /\ buf.w <= Len(buf.v)
      BY <1>1, Indices
<1>5. CASE Len(data) <= Writeable(buf)
      <2>1. ~aborted'  BY <1>3, <1>5 DEF ReadFd, HasWritten, Done
      <2>2. ~InTheGap(buf, Len(data))  BY <1>2, <1>4, <1>5 DEF InTheGap, Writeable
      <2> QED  BY <2>1, <2>2
<1>6. CASE ~(Len(data) <= Writeable(buf))
      <2>1. AppendTo(Filled(data), Extra(data), data)
            BY <1>6 DEF ReadFd, Filled, Extra
      <2>2. /\ IsBuffer(Filled(data))
            /\ Len(Filled(data).v) = Len(buf.v)
            /\ Filled(data).r = buf.r
            /\ Filled(data).w = Len(buf.v)
            /\ Len(Extra(data)) = Len(data) - Writeable(buf)
            BY <1>6, FilledFacts
      <2>3. Len(Extra(data)) \in Nat  BY <1>2, <1>4, <1>6, <2>2 DEF Writeable
      <2>4. aborted' <=> SpaceAborts(Filled(data), Len(Extra(data)))
            BY <1>3, <2>1, AppendToAborts
      <2>5. SpaceAborts(Filled(data), Len(Extra(data)))
               <=> InTheGap(Filled(data), Len(Extra(data)))
            BY <2>2, <2>3, AbortsInTheGap
      <2>6. InTheGap(Filled(data), Len(Extra(data))) <=> InTheGap(buf, Len(data))
            BY <1>2, <1>4, <1>6, <2>2 DEF InTheGap, Readable, Writeable
      <2> QED  BY <2>4, <2>5, <2>6
<1> QED  BY <1>5, <1>6

LEMMA EnsureWriteableBytesAborts ==
    ASSUME IInv, NEW n \in 1..MaxData, EnsureWriteableBytes(n)
    PROVE  aborted' <=> InTheGap(buf, n)
<1>1. IsBuffer(buf)  BY IInvIsBuffer
<1>2. n \in Nat  BY SizesAssumption
<1>3. aborted' <=> SpaceAborts(buf, n)  BY DEF EnsureWriteableBytes, Abort
<1> QED  BY <1>1, <1>2, <1>3, AbortsInTheGap

(* For every size and every sequence of calls, a call that is to make room
   for n bytes fails an assert about space exactly when these n are in the
   gap (CBuffer.cpp:93-118, 149-176, 190-207). *)
THEOREM AbortsAreTheGap == Spec => AbortsExactlyInTheGap
<1>1. IInv /\ [Next]_vars =>
         [\A n \in 1..MaxData : (aborted' <=> InTheGap(buf, n)) \/ ~MakesRoomFor(n)]_vars
      <2> SUFFICES ASSUME IInv, NEW n \in 1..MaxData, MakesRoomFor(n)
                   PROVE  aborted' <=> InTheGap(buf, n)
          OBVIOUS
      <2>1. CASE EnsureWriteableBytes(n)  BY <2>1, EnsureWriteableBytesAborts
      <2>2. ASSUME NEW data \in [1..n -> Byte], Append_(data) \/ ReadFd(data)
            PROVE  aborted' <=> InTheGap(buf, n)
            <3>1. data \in Data  BY DEF Data
            <3>2. n \in Nat  BY SizesAssumption
            <3>3. Len(data) = n  BY <3>2, FunctionIsSeq
            <3> QED  BY <2>2, <3>1, <3>3, AppendAborts, ReadFdAborts
      <2> QED  BY <2>1, <2>2 DEF MakesRoomFor
<1> QED  BY <1>1, Invariance, PTL DEF Spec, AbortsExactlyInTheGap
=============================================================================
