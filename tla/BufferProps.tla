---------------------------- MODULE BufferProps -----------------------------
(* The properties of Buffer. *)
EXTENDS Buffer

Bytes == INSTANCE ByteQueue WITH bytes <- Content(buf)

(* The readable bytes lie inside the vector: Peek is the address of the
   first one, as its comment says (CBuffer.cpp:44), and BeginWrite that of
   the first free one. *)
ReadableInVector == 0 <= buf.r /\ buf.r <= buf.w /\ buf.w <= Len(buf.v)

TypeOK ==
    /\ buf \in [v : Seq(Byte), r : Int, w : Int]
    /\ aborted \in BOOLEAN
    /\ last \in Bytes!Call
    /\ ReadableInVector

(* Bytes come out in the order in which they went in, each once, through any
   sequence of growing, moving to the front, reads split over the extra
   buffer, and headers prepended (CBuffer.cpp:93-207). *)
ImplementsByteQueue == Bytes!Spec

(* The two asserts about space fail exactly in one narrow case: the n bytes
   to come fit in the vector, and not with CheapPrepend bytes of headroom in
   front of them.  A call that is to make room for fewer bytes or for more
   succeeds, and so does one that finds the room; a ReadFd that spills into
   the extra buffer is like an Append of everything it read, although it
   appends the rest alone (CBuffer.cpp:93-118, 149-176, 190-207). *)
InTheGap(b, n) ==
    /\ Writeable(b) < n
    /\ Len(b.v) - CheapPrepend < Readable(b) + n
    /\ Readable(b) + n <= Len(b.v)
MakesRoomFor(n) ==
    \/ EnsureWriteableBytes(n)
    \/ \E data \in [1..n -> Byte] : Append_(data) \/ ReadFd(data)
AbortsExactlyInTheGap ==
    [][\A n \in 1..MaxData : (aborted' <=> InTheGap(buf, n)) \/ ~MakesRoomFor(n)]_vars

(* The vector grows only when all of its bytes, the headroom and what was
   already retrieved among them, would not hold the old contents and the new
   bytes: space that was read is reused, and a buffer whose contents stay
   bounded stays bounded (CBuffer.cpp:192).  It grows to the size that puts
   the new bytes behind the old ones. *)
GrowsOnlyWhenFull ==
    [][Len(buf.v') > Len(buf.v) =>
          LET new == Len(buf.v') - buf.w IN Readable(buf) + new > Len(buf.v)]_vars

(* The asserts of EnsureWriteableBytes and __MakeSpace as the source states
   them: whoever calls Append or ReadFd, they hold. *)
SpaceAssertsHold == ~aborted
=============================================================================
