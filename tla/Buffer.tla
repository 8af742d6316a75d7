------------------------------- MODULE Buffer -------------------------------
(***************************************************************************)
(* CBuffer (net/CBuffer.cpp): a vector of bytes with a reader and a writer *)
(* index, CheapPrepend bytes of headroom in front, which grows when its    *)
(* free space does not suffice and moves its contents to the front when it *)
(* does.  A connection reads its socket into one with ReadFd and keeps its *)
(* unsent output in another with Append and Retrieve; the user's message   *)
(* callback empties the input with RetrieveAsString.                       *)
(*                                                                         *)
(* The program is built with asserts: one that fails ends the process and  *)
(* is remembered in aborted.  Asserts about a caller's arguments are       *)
(* guards.                                                                 *)
(***************************************************************************)
EXTENDS Integers, Sequences

CONSTANTS Byte,          (* the values of a char *)
          CheapPrepend,  (* sm_nCheapPrepend *)
          InitialSize,   (* sm_nInitialSize *)
          ExtraSize,     (* sizeof(cExtraBuf) *)
          MaxSize,       (* bound: the vector is not grown beyond *)
          MaxData        (* bound: the bytes of one call *)

ASSUME SizesAssumption ==
    /\ 0 \in Byte
    /\ CheapPrepend \in Nat
    /\ InitialSize \in Nat
    /\ ExtraSize \in Nat
    /\ MaxSize \in Nat
    /\ MaxData \in Nat

VARIABLES buf,       (* [v |-> m_vBuffer, r |-> m_nReaderIndex, w |-> m_nWriterIndex] *)
          aborted,   (* an assert of EnsureWriteableBytes or __MakeSpace has failed *)
          last       (* the last call and the bytes it wrote or read (history) *)

vars == <<buf, aborted, last>>

(* GetReadableBytes, GetWriteableBytes, GetPrependableBytes of a buffer. *)
Readable(b) == b.w - b.r
Writeable(b) == Len(b.v) - b.w
Prependable(b) == b.r

(* The bytes from Peek() to BeginWrite(). *)
Content(b) == SubSeq(b.v, b.r + 1, b.w)

Zeros(n) == [i \in 1..n |-> 0]

Init ==
    /\ buf = [v |-> Zeros(CheapPrepend + InitialSize), r |-> CheapPrepend, w |-> CheapPrepend]
    /\ aborted = FALSE
    /\ last = [name |-> "none", data |-> <<>>]
-----------------------------------------------------------------------------
(* std::copy of data to offset at of v. *)
Overwrite(v, at, data) ==
    [i \in DOMAIN v |-> IF i - at \in DOMAIN data THEN data[i - at] ELSE v[i]]

(* EnsureWriteableBytes and __MakeSpace: how n bytes are made room for. *)
Grows(b, n) == Writeable(b) + Prependable(b) < n
Moves(b, n) == Writeable(b) < n /\ ~Grows(b, n)

(* A mutant of Grown: the new size is counted from the reader. *)
GrownFromReader(b, n) == [b EXCEPT !.v = b.v \o Zeros(b.r + n - Len(b.v))]

Grown(b, n) == [b EXCEPT !.v = b.v \o Zeros(b.w + n - Len(b.v))]

Moved(b) == [v |-> Overwrite(b.v, CheapPrepend, Content(b)),
             r |-> CheapPrepend,
             w |-> CheapPrepend + Readable(b)]

Spaced(b, n) ==
    IF Writeable(b) >= n THEN b ELSE IF Grows(b, n) THEN Grown(b, n) ELSE Moved(b)

(* The assert of __MakeSpace that the contents move towards the front, and
   that of EnsureWriteableBytes that the room is there. *)
SpaceAborts(b, n) ==
    \/ Moves(b, n) /\ b.r <= CheapPrepend
    \/ Writeable(Spaced(b, n)) < n

Abort == aborted' = TRUE /\ UNCHANGED <<buf, last>>

(* The call returns, having written or read data. *)
Done(name, data) ==
    /\ last' = [name |-> name, data |-> data]
    /\ UNCHANGED aborted

(* data is copied to BeginWrite() and followed by HasWritten. *)
Written(b, data) ==
    [b EXCEPT !.v = Overwrite(b.v, b.w, data), !.w = b.w + Len(data)]

(* Append of rest to b, which ReadFd has written the rest of data to. *)
AppendTo(b, rest, data) ==
    IF SpaceAborts(b, Len(rest))
    THEN Abort
    ELSE /\ Len(Spaced(b, Len(rest)).v) <= MaxSize
         /\ buf' = Written(Spaced(b, Len(rest)), rest)
         /\ Done("write", data)
-----------------------------------------------------------------------------
Append_(data) == ~aborted /\ AppendTo(buf, data, data)

(* EnsureWriteableBytes called by itself. *)
EnsureWriteableBytes(n) ==
    /\ ~aborted
    /\ IF SpaceAborts(buf, n)
       THEN Abort
       ELSE /\ Len(Spaced(buf, n).v) <= MaxSize
            /\ buf' = Spaced(buf, n)
            /\ UNCHANGED <<aborted, last>>

(* A caller's own copy to BeginWrite() followed by HasWritten. *)
HasWritten(data) ==
    /\ ~aborted
    /\ Len(data) <= Writeable(buf)
    /\ buf' = Written(buf, data)
    /\ Done("write", data)

(* A mutant of ReadFd: the first byte of the extra buffer is skipped. *)
ReadFdSkips(data) ==
    LET w == Writeable(buf) IN
    /\ ~aborted
    /\ Len(data) <= w + ExtraSize
    /\ IF Len(data) <= w
       THEN HasWritten(data)
       ELSE AppendTo(Written(buf, SubSeq(data, 1, w)),
                     SubSeq(data, w + 2, Len(data)), data)

(* readv(2) into the writeable bytes and then the extra buffer gave data; a
   result of 0 or -1 changes nothing. *)
ReadFd(data) ==
    LET w == Writeable(buf) IN
    /\ ~aborted
    /\ Len(data) <= w + ExtraSize
    /\ IF Len(data) <= w
       THEN HasWritten(data)
       ELSE AppendTo(Written(buf, SubSeq(data, 1, w)),
                     SubSeq(data, w + 1, Len(data)), data)

(* Retrieve, and RetrieveUtil, whose argument is a place. *)
Retrieve(n) ==
    /\ ~aborted
    /\ n <= Readable(buf)
    /\ buf' = [buf EXCEPT !.r = buf.r + n]
    /\ Done("read", SubSeq(buf.v, buf.r + 1, buf.r + n))

(* RetrieveAsString returns the contents; RetrieveAll drops them. *)
RetrieveAll ==
    /\ ~aborted
    /\ buf' = [buf EXCEPT !.r = CheapPrepend, !.w = CheapPrepend]
    /\ Done("read", Content(buf))

Prepend(data) ==
    /\ ~aborted
    /\ Len(data) <= Prependable(buf)
    /\ buf' = [buf EXCEPT !.r = buf.r - Len(data),
                          !.v = Overwrite(buf.v, buf.r - Len(data), data)]
    /\ Done("prepend", data)
-----------------------------------------------------------------------------
(* What callers pass. *)
Data == UNION {[1..n -> Byte] : n \in 1..MaxData}

Next ==
    \/ \E data \in Data : Append_(data) \/ ReadFd(data) \/ HasWritten(data) \/ Prepend(data)
    \/ \E n \in 1..MaxData : EnsureWriteableBytes(n) \/ Retrieve(n)
    \/ RetrieveAll

Spec == Init /\ [][Next]_vars
=============================================================================
