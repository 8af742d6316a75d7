-------------------------- MODULE TcpServerProofs ---------------------------
(***************************************************************************)
(* Proofs, for any number of connections, threads and messages, that the   *)
(* server and its connections keep their types, that every channel in the  *)
(* poller belongs to a live connection, that a connection is destroyed     *)
(* once and its callbacks are called in order, and of the asserts. The     *)
(* lemmas go from one connection, over the functors that wait for it, to   *)
(* one lemma for each action.                                              *)
(*                                                                         *)
(* Then the proof that the stream of a connection is the messages it was   *)
(* sent, whole and, for each thread, in order, from the same invariant and *)
(* one on the numbers of the messages in flight; that without other        *)
(* threads it ends after the output; and that the connections use the      *)
(* poller as PollSet takes for granted.                                    *)
(***************************************************************************)
EXTENDS TcpServerProps, SequenceTheorems, FiniteSetTheorems, FunctionTheorems,
        TLAPS

(* Concatenation of streams is associative. *)
LEMMA Assoc ==
    ASSUME NEW x \in Seq(Part), NEW y \in Seq(Part), NEW z \in Seq(Part)
    PROVE  (x \o y) \o z = x \o (y \o z)
BY ConcatAssociative

(* UpdateChannel: what Asked leaves of a connection, and when the poller
   mutes its channel. *)
LEMMA AskedFacts ==
    ASSUME NEW k \in Connection, NEW ev \in SUBSET {"in", "out"}
    PROVE  LET r == Asked(k, ev) IN
           /\ r \in Connection
           /\ r.state = k.state /\ r.fd = k.fd /\ r.events = ev
           /\ r.out = k.out /\ r.wire = k.wire /\ r.sent = k.sent /\ r.heard = k.heard
           /\ k.poll = "new" => r.poll = "polled"
           /\ k.poll # "new" /\ ev = {} => r.poll = "muted"
           /\ k.poll # "new" /\ ev # {} => r.poll = k.poll
BY DEF Asked, Connection, Polling

(* write(2) moves the first n parts to the wire and touches nothing else of
   the object. *)
LEMMA WroteFacts ==
    ASSUME NEW k \in Connection, NEW data \in Seq(Part), NEW n \in 0..Len(data)
    PROVE  LET r == Wrote(k, data, n) IN
           /\ r \in Connection
           /\ r.state = k.state /\ r.fd = k.fd /\ r.events = k.events /\ r.poll = k.poll
           /\ r.out = k.out /\ r.sent = k.sent /\ r.heard = k.heard
           /\ r.wire = k.wire \o SubSeq(data, 1, n)
<1> DEFINE x == k.wire \o SubSeq(data, 1, n)
           b == k.full \/ (~Broken(k) /\ n < Len(data))
<1>1. SubSeq(data, 1, n) \in Seq(Part)
  <2>1. \A i \in 1..n : data[i] \in Part
    BY ElementOfSeq
  <2> QED
    BY <2>1, SubSeqProperties
<1>2. k.wire \in Seq(Part)
  BY DEF Connection
<1>3. x \in Seq(Part)
  BY <1>1, <1>2, ConcatProperties
<1>4. b \in BOOLEAN
  OBVIOUS
<1>5. Wrote(k, data, n) = [k EXCEPT !.wire = x, !.full = b]
  BY Zenon DEF Wrote
<1> HIDE DEF x, b
<1>6. [k EXCEPT !.wire = x, !.full = b] \in Connection
  BY <1>3, <1>4 DEF Connection
<1> QED
  BY <1>5, <1>6 DEF Connection, x

(* What write(2) took and the rest make up the data again. *)
LEMMA RestFacts ==
    ASSUME NEW w \in Seq(Part), NEW data \in Seq(Part), NEW n \in 0..Len(data)
    PROVE  /\ Rest(data, n) \in Seq(Part)
           /\ (w \o SubSeq(data, 1, n)) \o Rest(data, n) = w \o data
<1>1. /\ \A i \in 1..Len(data) : data[i] \in Part
      /\ Len(data) \in Nat
  BY ElementOfSeq, LenProperties
<1>2. SubSeq(data, 1, n) \in Seq(Part)
  <2>1. \A i \in 1..n : data[i] \in Part
    BY <1>1
  <2> QED
    BY <2>1, SubSeqProperties
<1>3. Rest(data, n) \in Seq(Part)
  <2>1. \A i \in n + 1..Len(data) : data[i] \in Part
    BY <1>1
  <2> QED
    BY <1>1, <2>1, SubSeqProperties DEF Rest
<1>4. SubSeq(data, 1, n) \o Rest(data, n) = SubSeq(data, 1, Len(data))
  <2>1. 1 \in 1..Len(data) + 1 /\ n \in 1 - 1..Len(data) /\ Len(data) \in n..Len(data)
    BY <1>1
  <2> QED
    BY <2>1, ConcatAdjacentSubSeq, Zenon DEF Rest
<1>5. SubSeq(data, 1, Len(data)) = data
  BY SubSeqFull
<1>6. (w \o SubSeq(data, 1, n)) \o Rest(data, n) = w \o (SubSeq(data, 1, n) \o Rest(data, n))
  BY <1>2, <1>3, Assoc
<1> QED
  BY <1>3, <1>4, <1>5, <1>6

(* What the kernel does not take goes behind the output that waits. *)
LEMMA BufferedFacts ==
    ASSUME NEW k \in Connection, k.poll # "new", NEW data \in Seq(Part),
           NEW r \in Buffered(k, data)
    PROVE  /\ r \in Connection
           /\ r.state = k.state /\ r.fd = k.fd /\ r.poll = k.poll
           /\ r.wire = k.wire /\ r.sent = k.sent /\ r.heard = k.heard
           /\ r.out = k.out \o data
           /\ r.events = k.events \/ r.events # {}
<1> DEFINE b == [k EXCEPT !.out = k.out \o data]
<1>1. /\ b \in Connection
      /\ b.state = k.state /\ b.fd = k.fd /\ b.poll = k.poll
      /\ b.wire = k.wire /\ b.sent = k.sent /\ b.heard = k.heard
      /\ b.out = k.out \o data
      /\ b.events = k.events
  <2>1. k.out \o data \in Seq(Part)
    BY ConcatProperties DEF Connection
  <2> QED
    BY <2>1 DEF Connection
<1>2. r = b \/ \E ev \in BacklogEvents : r = Asked(b, k.events \cup {ev})
  BY DEF Buffered
<1> HIDE DEF b
<1>3. CASE r = b
  BY <1>1, <1>3
<1>4. CASE \E ev \in BacklogEvents : r = Asked(b, k.events \cup {ev})
  <2>1. PICK ev \in BacklogEvents : r = Asked(b, k.events \cup {ev})
    BY <1>4
  <2>2. k.events \cup {ev} \in SUBSET {"in", "out"} /\ k.events \cup {ev} # {}
    BY BacklogAssumption DEF BacklogAssumption, Connection
  <2> DEFINE e == k.events \cup {ev}
  <2> HIDE DEF e
  <2>3. LET a == Asked(b, e) IN
        /\ a \in Connection
        /\ a.state = b.state /\ a.fd = b.fd /\ a.poll = b.poll
        /\ a.out = b.out /\ a.wire = b.wire /\ a.sent = b.sent /\ a.heard = b.heard
        /\ a.events # {}
    <3>1. e \in SUBSET {"in", "out"} /\ e # {} /\ b.poll # "new"
      BY <1>1, <2>2 DEF e
    <3> QED
      BY <1>1, <3>1, AskedFacts
  <2> QED
    BY <1>1, <2>1, <2>3 DEF e
<1> QED
  BY <1>2, <1>3, <1>4

(* A message has two parts. *)
LEMMA PartsFacts ==
    ASSUME NEW m \in Messages
    PROVE  Parts(m) \in Seq(Part) /\ Len(Parts(m)) = 2
BY DEF Parts, Part

(* write(2) takes no more than it was given. *)
LEMMA WritesFacts ==
    ASSUME NEW k, NEW data \in Seq(Part), NEW n \in Writes(k, data)
    PROVE  n \in 0..Len(data)
BY LenProperties DEF Writes

(* __SendInLoop adds exactly the parts of its message, at the end of the
   stream. *)
LEMMA SendFacts ==
    ASSUME NEW k \in Connection, k.poll # "new", NEW m \in Messages,
           NEW r \in SendInLoop(k, m)
    PROVE  /\ r \in Connection
           /\ r.state = k.state /\ r.fd = k.fd /\ r.poll = k.poll
           /\ r.sent = Append(k.sent, m) /\ r.heard = k.heard
           /\ Stream(r) = Stream(k) \o Parts(m)
           /\ r.events = k.events \/ r.events # {}
<1> DEFINE s == [k EXCEPT !.sent = Append(k.sent, m)]
           p == Parts(m)
<1>0. p \in Seq(Part) /\ k.wire \in Seq(Part) /\ k.out \in Seq(Part) /\ <<>> \in Seq(Part)
  BY PartsFacts, EmptySeq DEF Connection
<1>1. /\ s \in Connection
      /\ s.state = k.state /\ s.fd = k.fd /\ s.poll = k.poll /\ s.events = k.events
      /\ s.wire = k.wire /\ s.out = k.out
      /\ s.sent = Append(k.sent, m) /\ s.heard = k.heard
  <2>1. Append(k.sent, m) \in Seq(Messages)
    BY AppendProperties DEF Connection
  <2> QED
    BY <2>1 DEF Connection
<1>2. \/ /\ k.out = <<>>
         /\ \E n \in Writes(k, p) : r \in Buffered(Wrote(s, p, n), Rest(p, n))
      \/ r \in Buffered(s, p)
  BY DEF SendInLoop
<1> HIDE DEF s, p
<1>3. CASE r \in Buffered(s, p)
  <2>1. /\ r \in Connection
        /\ r.state = k.state /\ r.fd = k.fd /\ r.poll = k.poll
        /\ r.wire = k.wire /\ r.sent = Append(k.sent, m) /\ r.heard = k.heard
        /\ r.out = k.out \o p
        /\ r.events = k.events \/ r.events # {}
    <3>1. s.poll # "new"
      BY <1>1
    <3>2. /\ r \in Connection
          /\ r.state = s.state /\ r.fd = s.fd /\ r.poll = s.poll
          /\ r.wire = s.wire /\ r.sent = s.sent /\ r.heard = s.heard
          /\ r.out = s.out \o p
          /\ r.events = s.events \/ r.events # {}
      BY <1>0, <1>1, <1>3, <3>1, BufferedFacts
    <3> QED
      BY <1>1, <3>2
  <2>2. k.wire \o (k.out \o p) = (k.wire \o k.out) \o p
    BY <1>0, Assoc
  <2> QED
    BY <2>1, <2>2 DEF Stream, p
<1>4. ASSUME k.out = <<>>, NEW n \in Writes(k, p), r \in Buffered(Wrote(s, p, n), Rest(p, n))
      PROVE  /\ r \in Connection
             /\ r.state = k.state /\ r.fd = k.fd /\ r.poll = k.poll
             /\ r.sent = Append(k.sent, m) /\ r.heard = k.heard
             /\ Stream(r) = Stream(k) \o Parts(m)
             /\ r.events = k.events \/ r.events # {}
  <2> DEFINE w == Wrote(s, p, n)
             u == k.wire \o SubSeq(p, 1, n)
  <2>1. n \in 0..Len(p)
    BY <1>0, <1>4, WritesFacts
  <2>2. /\ w \in Connection
        /\ w.state = k.state /\ w.fd = k.fd /\ w.poll = k.poll
        /\ w.out = <<>> /\ w.sent = Append(k.sent, m) /\ w.heard = k.heard
        /\ w.wire = u /\ w.events = k.events
    <3>1. /\ w \in Connection
          /\ w.state = s.state /\ w.fd = s.fd /\ w.poll = s.poll
          /\ w.out = s.out /\ w.sent = s.sent /\ w.heard = s.heard
          /\ w.wire = s.wire \o SubSeq(p, 1, n) /\ w.events = s.events
      BY <1>0, <1>1, <2>1, WroteFacts
    <3> QED
      BY <1>1, <1>4, <3>1
  <2>3. Rest(p, n) \in Seq(Part) /\ u \o Rest(p, n) = k.wire \o p
    BY <1>0, <2>1, RestFacts
  <2>4. r \in Buffered(w, Rest(p, n))
    BY <1>4
  <2> HIDE DEF w, u
  <2>5. /\ r \in Connection
        /\ r.state = k.state /\ r.fd = k.fd /\ r.poll = k.poll
        /\ r.wire = u /\ r.sent = Append(k.sent, m) /\ r.heard = k.heard
        /\ r.out = <<>> \o Rest(p, n)
        /\ r.events = k.events \/ r.events # {}
    BY <2>2, <2>3, <2>4, BufferedFacts
  <2>6. <<>> \o Rest(p, n) = Rest(p, n) /\ k.wire \o <<>> = k.wire
    BY <1>0, <2>3, ConcatEmptySeq
  <2> QED
    BY <1>4, <2>3, <2>5, <2>6 DEF Stream, p
<1> QED
  BY <1>2, <1>3, <1>4

(* __ShutdownInLoop leaves the object and its stream alone. *)
LEMMA ShutdownFacts ==
    ASSUME NEW k \in Connection
    PROVE  LET r == ShutdownInLoop(k) IN
           /\ r \in Connection
           /\ r.state = k.state /\ r.fd = k.fd /\ r.poll = k.poll /\ r.events = k.events
           /\ r.out = k.out /\ r.wire = k.wire /\ r.sent = k.sent /\ r.heard = k.heard
BY DEF ShutdownInLoop, ShutdownWrite, Connection

(* __HandleWrite moves output to the wire and leaves the stream as it is. *)
LEMMA HandleWriteFacts ==
    ASSUME NEW k \in Connection, k.poll # "new", NEW r \in HandleWrite(k)
    PROVE  /\ r \in Connection
           /\ r.state = k.state /\ r.fd = k.fd /\ r.poll \in {k.poll, "muted"}
           /\ r.sent = k.sent /\ r.heard = k.heard /\ Stream(r) = Stream(k)
           /\ \/ r.events = k.events /\ r.poll = k.poll
              \/ r.poll = IF r.events = {} THEN "muted" ELSE k.poll
<1>0. k.wire \in Seq(Part) /\ k.out \in Seq(Part)
  BY DEF Connection
<1>1. CASE r = k
  BY <1>1
<1>2. CASE ~(r = k)
  <2>1. PICK n \in Writes(k, k.out) :
           LET w == [Wrote(k, k.out, n) EXCEPT !.out = Rest(k.out, n)]
               d == Asked(w, w.events \ {"out"})
           IN r \in {w, d, ShutdownInLoop(d)}
    BY <1>2 DEF HandleWrite
  <2> DEFINE v == Wrote(k, k.out, n)
             w == [v EXCEPT !.out = Rest(k.out, n)]
             d == Asked(w, w.events \ {"out"})
             u == k.wire \o SubSeq(k.out, 1, n)
  <2>2. n \in 0..Len(k.out)
    BY <1>0, WritesFacts
  <2>3. Rest(k.out, n) \in Seq(Part) /\ u \o Rest(k.out, n) = k.wire \o k.out
    BY <1>0, <2>2, RestFacts
  <2>4. /\ v \in Connection
        /\ v.state = k.state /\ v.fd = k.fd /\ v.poll = k.poll
        /\ v.sent = k.sent /\ v.heard = k.heard /\ v.wire = u /\ v.events = k.events
    BY <1>0, <2>2, WroteFacts
  <2>5. r \in {w, d, ShutdownInLoop(d)}
    BY <2>1
  <2> HIDE DEF v
  <2>6. /\ w \in Connection
        /\ w.state = k.state /\ w.fd = k.fd /\ w.poll = k.poll
        /\ w.sent = k.sent /\ w.heard = k.heard /\ w.wire = u /\ w.out = Rest(k.out, n)
        /\ w.events = k.events
    BY <2>3, <2>4 DEF Connection
  <2>7. w.events \ {"out"} \in SUBSET {"in", "out"}
    BY <2>6 DEF Connection
  <2> HIDE DEF w, u
  <2>8. /\ d \in Connection
        /\ d.state = k.state /\ d.fd = k.fd /\ d.poll \in {k.poll, "muted"}
        /\ d.sent = k.sent /\ d.heard = k.heard /\ d.wire = w.wire /\ d.out = w.out
        /\ d.poll = IF d.events = {} THEN "muted" ELSE k.poll
    BY <2>6, <2>7, AskedFacts
  <2> HIDE DEF d
  <2>9. /\ r \in Connection
        /\ r.state = k.state /\ r.fd = k.fd /\ r.poll \in {k.poll, "muted"}
        /\ r.sent = k.sent /\ r.heard = k.heard /\ r.wire = w.wire /\ r.out = w.out
        /\ \/ r.events = k.events /\ r.poll = k.poll
           \/ r.poll = IF r.events = {} THEN "muted" ELSE k.poll
    BY <2>5, <2>6, <2>8, ShutdownFacts
  <2> QED
    BY <2>3, <2>6, <2>9 DEF Stream
<1> QED
  BY <1>1, <1>2

(* The stream of a connection is what was sent, part by part. *)
StreamWhole(k) ==
    /\ Len(Stream(k)) = 2 * Len(k.sent)
    /\ \A i \in DOMAIN k.sent : SubSeq(Stream(k), 2 * i - 1, 2 * i) = Parts(k.sent[i])

(* The types of the stream and of what was sent. *)
LEMMA StreamType ==
    ASSUME NEW k \in Connection
    PROVE  /\ Stream(k) \in Seq(Part) /\ Len(Stream(k)) \in Nat
           /\ k.sent \in Seq(Messages) /\ Len(k.sent) \in Nat
           /\ DOMAIN k.sent = 1..Len(k.sent)
<1>1. k.wire \in Seq(Part) /\ k.out \in Seq(Part) /\ k.sent \in Seq(Messages)
  BY DEF Connection
<1>2. Stream(k) \in Seq(Part)
  BY <1>1, ConcatProperties DEF Stream
<1> QED
  BY <1>1, <1>2, LenProperties

(* A new connection has the stream of no message. *)
LEMMA NothingSent ==
    ASSUME NEW k, k.out = <<>>, k.wire = <<>>, k.sent = <<>>
    PROVE  StreamWhole(k)
<1>1. Stream(k) = <<>>
  BY EmptySeq, ConcatEmptySeq DEF Stream
<1> QED
  BY <1>1 DEF StreamWhole

(* A message whose parts are added at the end keeps the stream whole. *)
LEMMA StreamGrows ==
    ASSUME NEW k \in Connection, NEW r \in Connection, NEW m \in Messages, StreamWhole(k),
           r.sent = Append(k.sent, m), Stream(r) = Stream(k) \o Parts(m)
    PROVE  StreamWhole(r)
<1> DEFINE s == Stream(k)
           p == Parts(m)
           n == Len(k.sent)
<1>1. /\ s \in Seq(Part) /\ p \in Seq(Part) /\ Len(p) = 2 /\ n \in Nat
      /\ Len(s) = 2 * n
      /\ Len(s \o p) = Len(s) + 2
  <2>1. s \in Seq(Part) /\ p \in Seq(Part) /\ Len(p) = 2 /\ n \in Nat
    BY StreamType, PartsFacts
  <2>2. Len(s) = 2 * n
    BY DEF StreamWhole
  <2>3. Len(s \o p) = Len(s) + Len(p)
    BY <2>1, ConcatProperties
  <2> QED
    BY <2>1, <2>2, <2>3
<1>2. /\ DOMAIN k.sent = 1..n
      /\ DOMAIN r.sent = 1..n + 1
      /\ Len(r.sent) = n + 1
      /\ \A i \in 1..n : r.sent[i] = k.sent[i]
      /\ r.sent[n + 1] = m
  <2>1. k.sent \in Seq(Messages) /\ r.sent \in Seq(Messages)
    BY StreamType
  <2>2. /\ Len(r.sent) = n + 1
        /\ \A i \in 1..n : r.sent[i] = k.sent[i]
        /\ r.sent[n + 1] = m
    BY <2>1, AppendProperties
  <2> QED
    BY <2>1, <2>2, LenProperties
<1>3. Stream(r) = s \o p
  OBVIOUS
<1>4. \A i \in 1..n : SubSeq(s, 2 * i - 1, 2 * i) = Parts(k.sent[i])
  BY <1>2 DEF StreamWhole
<1> HIDE DEF s, p, n
<1>5. Len(Stream(r)) = 2 * Len(r.sent)
  BY <1>1, <1>2, <1>3
<1>6. ASSUME NEW i \in DOMAIN r.sent
      PROVE  SubSeq(Stream(r), 2 * i - 1, 2 * i) = Parts(r.sent[i])
  <2>1. CASE i \in 1..n
    <3>1. 2 * i - 1 \in 1..Len(s) /\ 2 * i \in 1..Len(s)
      BY <1>1, <2>1
    <3>2. SubSeq(s \o p, 2 * i - 1, 2 * i) = SubSeq(s, 2 * i - 1, 2 * i)
      BY <1>1, <3>1, SubSeqOfConcat1, Zenon
    <3> QED
      BY <1>2, <1>3, <1>4, <2>1, <3>2
  <2>2. CASE i = n + 1
    <3> DEFINE a == 2 * i - 1
               b == 2 * i
    <3>1. /\ a \in Len(s) + 1..Len(s) + Len(p) /\ b \in Len(s) + 1..Len(s) + Len(p)
          /\ a - Len(s) = 1 /\ b - Len(s) = Len(p)
      BY <1>1, <2>2
    <3> HIDE DEF a, b
    <3>2. SubSeq(s \o p, a, b) = SubSeq(p, a - Len(s), b - Len(s))
      BY <1>1, <3>1, SubSeqOfConcat2
    <3>3. SubSeq(p, 1, Len(p)) = p
      BY <1>1, SubSeqFull
    <3>4. SubSeq(Stream(r), a, b) = p
      BY <1>3, <3>1, <3>2, <3>3
    <3>5. r.sent[i] = m
      BY <1>2, <2>2
    <3> QED
      BY <3>4, <3>5 DEF a, b, p
  <2>3. i \in 1..n \/ i = n + 1
    BY <1>1, <1>2, <1>6
  <2> QED
    BY <2>1, <2>2, <2>3, Zenon
<1> QED
  BY <1>5, <1>6 DEF StreamWhole

(* No ConnectDestroyed waits in an empty queue. *)
LEMMA DestroysNone ==
    ASSUME NEW c
    PROVE  Destroys(<<>>, c) = 0
BY FS_EmptySet DEF Destroys

(* Where ConnectDestroyed of c waits in s. *)
Positions(s, c) == {i \in DOMAIN s : s[i] = [op |-> "destroy", conn |-> c]}

(* Destroys counts a finite set of positions. *)
LEMMA PositionsFinite ==
    ASSUME NEW s \in Seq(Functors), NEW c
    PROVE  /\ IsFiniteSet(Positions(s, c))
           /\ Destroys(s, c) \in Nat
           /\ Destroys(s, c) = Cardinality(Positions(s, c))
<1>1. IsFiniteSet(1..Len(s))
  BY FS_Interval, LenProperties
<1>2. Positions(s, c) \subseteq 1..Len(s)
  BY LenProperties DEF Positions
<1>3. IsFiniteSet(Positions(s, c))
  BY <1>1, <1>2, FS_Subset
<1> QED
  BY <1>3, FS_CardinalityType DEF Positions, Destroys

(* QueueInLoop of f adds f to the count. *)
LEMMA DestroysAppend ==
    ASSUME NEW s \in Seq(Functors), NEW f \in Functors, NEW c
    PROVE  Destroys(Append(s, f), c) =
              Destroys(s, c) + IF f = [op |-> "destroy", conn |-> c] THEN 1 ELSE 0
<1> DEFINE n == Len(s) + 1
           a == Append(s, f)
<1>1. /\ n \in Nat /\ n \notin 1..Len(s)
      /\ DOMAIN s = 1..Len(s)
      /\ a \in Seq(Functors)
      /\ DOMAIN a = 1..Len(s) \cup {n}
      /\ \A i \in 1..Len(s) : a[i] = s[i]
      /\ a[n] = f
  BY AppendProperties, LenProperties
<1> HIDE DEF n, a
<1>2. /\ IsFiniteSet(Positions(s, c)) /\ Destroys(s, c) \in Nat
      /\ Destroys(s, c) = Cardinality(Positions(s, c))
      /\ Destroys(a, c) = Cardinality(Positions(a, c))
  BY <1>1, PositionsFinite
<1>3. CASE f = [op |-> "destroy", conn |-> c]
  <2>1. Positions(a, c) = Positions(s, c) \cup {n} /\ n \notin Positions(s, c)
    BY <1>1, <1>3 DEF Positions
  <2>2. Cardinality(Positions(s, c) \cup {n}) = Cardinality(Positions(s, c)) + 1
    BY <1>2, <2>1, FS_AddElement
  <2> QED
    BY <1>2, <1>3, <2>1, <2>2 DEF a
<1>4. CASE f # [op |-> "destroy", conn |-> c]
  <2>1. Positions(a, c) = Positions(s, c)
    BY <1>1, <1>4 DEF Positions
  <2> QED
    BY <1>2, <1>4, <2>1 DEF a
<1> QED
  BY <1>3, <1>4

(* Running the first functor takes it from the count. *)
LEMMA DestroysTail ==
    ASSUME NEW s \in Seq(Functors), s # <<>>, NEW c
    PROVE  Destroys(s, c) =
              Destroys(Tail(s), c) + IF Head(s) = [op |-> "destroy", conn |-> c] THEN 1 ELSE 0
<1> DEFINE t == Tail(s)
           T == Positions(t, c)
           U == {i + 1 : i \in T}
<1>1. /\ t \in Seq(Functors)
      /\ Len(t) \in Nat /\ DOMAIN t = 1..Len(t)
      /\ DOMAIN s = 1..Len(t) + 1
      /\ \A i \in 1..Len(t) : t[i] = s[i + 1]
      /\ Head(s) = s[1]
  BY HeadTailProperties, LenProperties
<1> HIDE DEF t
<1>2. /\ IsFiniteSet(T) /\ Destroys(t, c) \in Nat
      /\ Destroys(t, c) = Cardinality(T)
      /\ Destroys(s, c) = Cardinality(Positions(s, c))
  BY <1>1, PositionsFinite
<1>3. T \subseteq 1..Len(t)
  BY <1>1 DEF Positions
<1>4. IsFiniteSet(U) /\ Cardinality(U) = Cardinality(T)
  <2> DEFINE g == [i \in T |-> i + 1]
  <2>1. g \in Bijection(T, U)
    <3>1. g \in [T -> U]
      OBVIOUS
    <3>2. \A i, j \in T : g[i] = g[j] => i = j
      BY <1>1, <1>3
    <3>3. \A u \in U : \E i \in T : g[i] = u
      OBVIOUS
    <3> QED
      BY <3>1, <3>2, <3>3, Fun_IsBij
  <2> QED
    BY <1>2, <2>1, FS_Bijection DEF ExistsBijection
<1>5. 1 \notin U
  BY <1>1, <1>3
<1>6. \A i \in DOMAIN s : i # 1 => i - 1 \in 1..Len(t) /\ t[i - 1] = s[i] /\ (i - 1) + 1 = i
  BY <1>1
<1>7. CASE Head(s) = [op |-> "destroy", conn |-> c]
  <2>1. Positions(s, c) = U \cup {1}
    <3>1. \A i \in Positions(s, c) : i # 1 => i \in U
      BY <1>1, <1>6 DEF Positions
    <3>2. \A i \in U : i \in Positions(s, c)
      BY <1>1 DEF Positions
    <3>3. 1 \in Positions(s, c)
      BY <1>1, <1>7 DEF Positions
    <3> QED
      BY <3>1, <3>2, <3>3
  <2>2. Cardinality(U \cup {1}) = Cardinality(U) + 1
    BY <1>4, <1>5, FS_AddElement
  <2> QED
    BY <1>2, <1>4, <1>7, <2>1, <2>2 DEF t
<1>8. CASE Head(s) # [op |-> "destroy", conn |-> c]
  <2>1. Positions(s, c) = U
    <3>1. \A i \in Positions(s, c) : i # 1 /\ i \in U
      BY <1>1, <1>6, <1>8 DEF Positions
    <3>2. \A i \in U : i \in Positions(s, c)
      BY <1>1 DEF Positions
    <3> QED
      BY <3>1, <3>2
  <2> QED
    BY <1>2, <1>4, <1>8, <2>1 DEF t
<1> QED
  BY <1>7, <1>8

(* A count that is not zero has a functor to show for it. *)
LEMMA DestroysSome ==
    ASSUME NEW s \in Seq(Functors), NEW c, Destroys(s, c) # 0
    PROVE  \E i \in DOMAIN s : s[i] = [op |-> "destroy", conn |-> c]
<1>1. Positions(s, c) # {}
  BY PositionsFinite, FS_EmptySet
<1> QED
  BY <1>1 DEF Positions

(* Where the loop thread is, and what it works on. *)
Places ==
    /\ pc \in {"event", "message"} => cur \in DOMAIN active
    /\ pc \in {"up", "down"} => cur \in Conns
    /\ pc \notin {"dispatch", "event", "message", "up"} => DOMAIN active = {}
    /\ pc \notin {"functors", "down"} => batch = <<>>

(* ConnectDestroyed of c has run up to its callback. *)
GoingDown(c) == pc = "down" /\ cur = c

(* What the members of a connection say of each other. *)
Lifetime(c) ==
    /\ conn[c].state = "none" <=> conn[c].poll = "new"
    /\ conn[c].state = "eConnected" => Registered(c)
    /\ Registered(c) /\ ~GoingDown(c) => conn[c].state \in {"eConnected", "eDisconnecting"}
    /\ GoingDown(c) => /\ conn[c].poll = "muted"
                       /\ conn[c].events = {}
                       /\ conn[c].state # "eConnected"
                       /\ c \in done
    /\ conn[c].heard = "nothing" <=> conn[c].poll = "new"
    /\ conn[c].heard \in {"up", "message"} <=> Registered(c) /\ ~GoingDown(c)
    /\ StreamWhole(conn[c])
    /\ conn[c].poll = "new" => conn[c].sent = <<>>
    /\ c \in backlog => conn[c].state = "none"
    /\ c \in connMap => Registered(c) /\ ~GoingDown(c)
    /\ pc # "gone" /\ conn[c].poll = "polled" => c \in connMap
    /\ c \in DOMAIN active =>
          /\ Registered(c)
          /\ "hup" \in active[c] => active[c] = {"hup"}
          /\ active[c] \cap {"in", "hup"} # {} => c \in connMap

(* Functors and calls are about connections that were established, and the
   sends among them are those of the other threads. *)
InUse(f) ==
    f.op \in {"send", "shutdown", "setstate", "destroy"} => conn[f.conn].poll # "new"

(* What holds of a functor in the queue. *)
Queueable(f) == InUse(f) /\ (f.op = "send" => f.msg.by \in Threads)

(* What holds of the functors that wait. *)
QueueInv ==
    /\ \A i \in DOMAIN pending : Queueable(pending[i])
    /\ \A i \in DOMAIN batch : Queueable(batch[i])

(* What holds of the calls of other threads. *)
CallInv ==
    \A t \in Threads : InUse(call[t]) /\ (call[t].op = "send" => call[t].msg.by = t)

(* The inductive invariant. *)
IInv ==
    /\ TypeOK
    /\ Places
    /\ \A c \in Conns : Lifetime(c)
    /\ QueueInv
    /\ CallInv
    /\ DestroyedOnce
    /\ OtherAssertsHold

(* The bound on sends is a number. *)
LEMMA MaxSendsNat == MaxSends \in Nat
BY ServerAssumption DEF ServerAssumption

(* A connection that becomes r from k is as alive as it was. *)
Similar(k, r) ==
    /\ \/ r.poll = k.poll
       \/ k.poll = "polled" /\ r.poll = "muted"
    /\ \/ r.state = k.state
       \/ k.poll # "new" /\ r.state = "eDisconnecting"
    /\ \/ r.heard = k.heard
       \/ k.heard \in {"up", "message"} /\ r.heard = "message"
    /\ StreamWhole(k) => StreamWhole(r)
    /\ k.poll = "new" => r.sent = k.sent

(* What Lifetime reads besides the connection. *)
loopFrame == <<pc, cur, active, connMap, backlog, done>>

(* A connection that changes as Similar says stays consistent while the loop
   stands still. *)
LEMMA LifetimeKept ==
    ASSUME NEW c \in Conns, Lifetime(c), UNCHANGED loopFrame,
           Similar(conn[c], conn'[c]), GoingDown(c) => conn'[c].events = conn[c].events
    PROVE  /\ Lifetime(c)'
           /\ Registered(c)' <=> Registered(c)
           /\ conn[c].poll # "new" => conn'[c].poll # "new"
BY DEF Lifetime, GoingDown, Registered, Similar, loopFrame

(* No established connection becomes a new one. *)
InUseKept == \A d \in Conns : conn[d].poll # "new" => conn'[d].poll # "new"

(* Functors and calls stay about established connections. *)
LEMMA InUseStays ==
    ASSUME InUseKept, NEW f \in Calls
    PROVE  /\ InUse(f) => InUse(f)'
           /\ Queueable(f) => Queueable(f)'
BY DEF InUse, Queueable, Functors, Idle, Calls, InUseKept

(* The types of the queue, the batch and the calls. *)
LEMMA QueueTypes ==
    ASSUME IInv
    PROVE  /\ pending \in Seq(Functors) /\ batch \in Seq(Functors)
           /\ \A i \in DOMAIN pending : pending[i] \in Functors /\ pending[i] \in Calls
           /\ \A i \in DOMAIN batch : batch[i] \in Functors /\ batch[i] \in Calls
           /\ \A t \in Threads : call[t] \in Calls
BY ElementOfSeq, LenProperties DEF IInv, TypeOK, Calls

(* A step that leaves the queue alone keeps what holds of it. *)
LEMMA QueueKept ==
    ASSUME IInv, InUseKept, UNCHANGED <<pending, batch>>
    PROVE  /\ QueueInv'
           /\ \A c : DestroyFunctors(c)' = DestroyFunctors(c)
<1>1. QueueInv'
  BY QueueTypes, InUseStays DEF IInv, QueueInv
<1> QED
  BY <1>1 DEF DestroyFunctors

(* A step that leaves the calls alone keeps what holds of them. *)
LEMMA CallsKept ==
    ASSUME IInv, InUseKept, UNCHANGED call
    PROVE  CallInv'
BY QueueTypes, InUseStays DEF IInv, CallInv

(* QueueInLoop: what holds of the queue, and the count, with one more
   functor. *)
LEMMA QueuePushed ==
    ASSUME IInv, InUseKept, NEW f \in Functors, Queueable(f),
           pending' = Append(pending, f), UNCHANGED batch
    PROVE  /\ pending' \in Seq(Functors)
           /\ QueueInv'
           /\ \A c : DestroyFunctors(c) \in Nat /\ DestroyFunctors(c)' =
                 DestroyFunctors(c) + IF f = [op |-> "destroy", conn |-> c] THEN 1 ELSE 0
<1>1. /\ pending' \in Seq(Functors)
      /\ Len(pending) \in Nat
      /\ DOMAIN pending = 1..Len(pending)
      /\ DOMAIN pending' = 1..Len(pending) + 1
      /\ \A i \in 1..Len(pending) : pending'[i] = pending[i]
      /\ pending'[Len(pending) + 1] = f
  BY QueueTypes, AppendProperties, LenProperties
<1>2. QueueInv'
  <2>1. ASSUME NEW i \in DOMAIN pending'
        PROVE  Queueable(pending[i])'
    <3>1. CASE i \in 1..Len(pending)
      BY <1>1, <3>1, QueueTypes, InUseStays DEF IInv, QueueInv
    <3>2. CASE i = Len(pending) + 1
      BY <1>1, <3>2, InUseStays DEF Calls
    <3> QED
      BY <1>1, <2>1, <3>1, <3>2
  <2>2. \A i \in DOMAIN batch : Queueable(batch[i])'
    BY QueueTypes, InUseStays DEF IInv, QueueInv
  <2> QED
    BY <2>1, <2>2 DEF QueueInv
<1>3. ASSUME NEW c
      PROVE  DestroyFunctors(c) \in Nat /\ DestroyFunctors(c)' =
                 DestroyFunctors(c) + IF f = [op |-> "destroy", conn |-> c] THEN 1 ELSE 0
  <2>1. /\ Destroys(pending', c) =
              Destroys(pending, c) + IF f = [op |-> "destroy", conn |-> c] THEN 1 ELSE 0
        /\ Destroys(pending, c) \in Nat /\ Destroys(batch, c) \in Nat
    BY QueueTypes, DestroysAppend, PositionsFinite
  <2> QED
    BY <2>1 DEF DestroyFunctors
<1> QED
  BY <1>1, <1>2, <1>3

(* The loop runs a functor: what holds of the rest, and the count. *)
LEMMA QueuePopped ==
    ASSUME IInv, InUseKept, batch # <<>>, batch' = Tail(batch), UNCHANGED pending
    PROVE  /\ batch' \in Seq(Functors)
           /\ Head(batch) \in Functors /\ Queueable(Head(batch))
           /\ QueueInv'
           /\ \A c : /\ DestroyFunctors(c) \in Nat /\ DestroyFunctors(c)' \in Nat
                    /\ DestroyFunctors(c)' =
                 DestroyFunctors(c) - IF Head(batch) = [op |-> "destroy", conn |-> c] THEN 1 ELSE 0
<1>1. /\ batch' \in Seq(Functors)
      /\ Len(batch') \in Nat /\ Len(batch') = Len(batch) - 1
      /\ DOMAIN batch = 1..Len(batch)
      /\ DOMAIN batch' = 1..Len(batch')
      /\ \A i \in 1..Len(batch') : batch'[i] = batch[i + 1]
      /\ Head(batch) = batch[1]
      /\ 1 \in DOMAIN batch
  BY QueueTypes, HeadTailProperties, LenProperties
<1>2. QueueInv'
  <2>1. ASSUME NEW i \in DOMAIN batch'
        PROVE  Queueable(batch[i])'
    <3>1. i + 1 \in DOMAIN batch /\ batch'[i] = batch[i + 1]
      BY <1>1
    <3> QED
      BY <3>1, QueueTypes, InUseStays DEF IInv, QueueInv
  <2>2. \A i \in DOMAIN pending : Queueable(pending[i])'
    BY QueueTypes, InUseStays DEF IInv, QueueInv
  <2> QED
    BY <2>1, <2>2 DEF QueueInv
<1>3. ASSUME NEW c
      PROVE  /\ DestroyFunctors(c) \in Nat /\ DestroyFunctors(c)' \in Nat
             /\ DestroyFunctors(c)' =
                 DestroyFunctors(c) - IF Head(batch) = [op |-> "destroy", conn |-> c] THEN 1 ELSE 0
  <2>1. /\ Destroys(batch, c) =
              Destroys(batch', c) + IF Head(batch) = [op |-> "destroy", conn |-> c] THEN 1 ELSE 0
        /\ Destroys(pending, c) \in Nat /\ Destroys(batch', c) \in Nat
    BY <1>1, QueueTypes, DestroysTail, PositionsFinite
  <2> QED
    BY <2>1 DEF DestroyFunctors
<1> QED
  BY <1>1, <1>2, <1>3, QueueTypes DEF IInv, QueueInv

(* DestroyedOnce holds on when neither the count nor what it is compared with
   changes. *)
LEMMA CountKept ==
    ASSUME DestroyedOnce, UNCHANGED connMap, pc = "gone" => pc' = "gone",
           \A c \in Conns : /\ DestroyFunctors(c)' = DestroyFunctors(c)
                            /\ GoingDown(c)' <=> GoingDown(c)
                            /\ Registered(c)' <=> Registered(c)
    PROVE  DestroyedOnce'
<1> SUFFICES ASSUME NEW c \in Conns, pc' # "gone"
             PROVE  DestroyFunctors(c)' =
                       IF Registered(c)' /\ c \notin connMap' /\ ~GoingDown(c)' THEN 1 ELSE 0
  BY DEF DestroyedOnce, GoingDown
<1>1. DestroyFunctors(c) =
         IF Registered(c) /\ c \notin connMap /\ ~GoingDown(c) THEN 1 ELSE 0
  BY DEF DestroyedOnce, GoingDown
<1> QED
  BY <1>1

(* Steps that leave the loop where it is and the connections as they are. *)
LEMMA LoopIdle ==
    ASSUME IInv, UNCHANGED <<conn, connMap, loopVars>>,
           \A c \in backlog' : conn[c].state = "none"
    PROVE  /\ Places' /\ InUseKept
           /\ \A c \in Conns : Lifetime(c)'
           /\ (\A c : DestroyFunctors(c)' = DestroyFunctors(c)) => DestroyedOnce'
<1> USE DEF loopVars
<1>1. \A c \in Conns : (Registered(c)' <=> Registered(c)) /\ (GoingDown(c)' <=> GoingDown(c))
  BY DEF Registered, GoingDown
<1>2. Places' /\ InUseKept
  BY DEF IInv, Places, InUseKept
<1>3. (\A c : DestroyFunctors(c)' = DestroyFunctors(c)) => DestroyedOnce'
  BY <1>1, CountKept DEF IInv
<1>4. \A c \in Conns : Lifetime(c)'
  BY <1>1 DEF IInv, Lifetime, Registered
<1> QED
  BY <1>2, <1>3, <1>4

(* An assert that fails stops the step: nothing but failed changes. *)
LEMMA FailStep ==
    ASSUME IInv, failed' = "UpdateChannel",
           UNCHANGED <<conn, acceptor, connMap, loopVars, pending, userVars>>
    PROVE  IInv'
<1>1. TypeOK' /\ OtherAssertsHold'
  BY DEF IInv, TypeOK, OtherAssertsHold, acceptor, loopVars, userVars
<1>2. \A c \in backlog' : conn[c].state = "none"
  BY DEF IInv, TypeOK, Lifetime, acceptor
<1>3. UNCHANGED <<pending, batch, call>>
  BY DEF loopVars, userVars
<1> QED
  BY <1>1, <1>2, <1>3, LoopIdle, QueueKept, CallsKept DEF IInv

(* The user and the peers outside the loop thread, and an accept that fails. *)
LEMMA QuietStep ==
    ASSUME IInv, \/ StartOwner \/ Hold \/ AcceptFails
                 \/ \E c \in Conns : Release(c) \/ PeerConnects(c) \/ PeerGivesUp(c)
    PROVE  IInv'
<1> USE DEF StartOwner, Hold, AcceptFails, Release, PeerConnects, PeerGivesUp, StartListen
<1>1. TypeOK' /\ OtherAssertsHold'
  BY DEF IInv, TypeOK, OtherAssertsHold, acceptor, loopVars, userVars
<1>2. UNCHANGED <<conn, connMap, loopVars, pending, batch, call>>
  BY DEF acceptor, loopVars, userVars
<1>3. \A c \in backlog' : conn[c].state = "none"
  BY DEF IInv, TypeOK, Lifetime, acceptor, userVars, loopVars
<1> QED
  BY <1>1, <1>2, <1>3, LoopIdle, QueueKept, CallsKept DEF IInv

(* Another thread has read m_eState and is about to queue or to set it. *)
LEMMA ChecksStep ==
    ASSUME IInv, NEW t \in Threads, NEW c \in Conns, SendChecks(t, c) \/ ShutDownChecks(t, c)
    PROVE  IInv'
<1> USE DEF SendChecks, ShutDownChecks
<1>1. /\ UNCHANGED <<conn, connMap, loopVars, acceptor, pending, batch, held, failed>>
      /\ conn[c].state = "eConnected"
      /\ \/ /\ sends' = sends
            /\ call' = [call EXCEPT ![t] = [op |-> "setstate", conn |-> c]]
         \/ /\ sends < MaxSends /\ sends' = sends + 1
            /\ call' = [call EXCEPT ![t] = [op |-> "send", conn |-> c, msg |-> Message(t)]]
  BY DEF loopVars
<1>2. sends < MaxSends => sends + 1 \in 0..MaxSends /\ Message(t) \in Messages
  BY MaxSendsNat DEF IInv, TypeOK, Message, Messages
<1>3. TypeOK' /\ OtherAssertsHold'
  <2>1. sends' \in 0..MaxSends
    BY <1>1, <1>2 DEF IInv, TypeOK
  <2>2. call' \in [Threads -> Calls]
    <3>1. call \in [Threads -> Calls]
      BY DEF IInv, TypeOK
    <3>2. [op |-> "setstate", conn |-> c] \in Calls
      BY DEF Calls
    <3>3. sends < MaxSends => [op |-> "send", conn |-> c, msg |-> Message(t)] \in Calls
      BY <1>2 DEF Functors, Calls
    <3> QED
      BY <1>1, <3>1, <3>2, <3>3
  <2> QED
    BY <1>1, <2>1, <2>2 DEF IInv, TypeOK, OtherAssertsHold, acceptor, loopVars
<1>4. \A d \in backlog' : conn[d].state = "none"
  BY <1>1 DEF IInv, TypeOK, Lifetime, acceptor
<1>5. conn[c].poll # "new"
  BY <1>1 DEF IInv, Lifetime
<1>6. CallInv'
  BY <1>1, <1>5 DEF IInv, TypeOK, CallInv, InUse, Message
<1> QED
  BY <1>1, <1>3, <1>4, <1>6, LoopIdle, QueueKept DEF IInv

(* Start from another thread queues StartListen. *)
LEMMA StartThreadStep ==
    ASSUME IInv, NEW t \in Threads, StartThread(t)
    PROVE  IInv'
<1> USE DEF StartThread, QueueInLoop
<1> DEFINE f == [op |-> "listen"]
<1>1. f \in Functors /\ Queueable(f) /\ \A c : f # [op |-> "destroy", conn |-> c]
  BY DEF Functors, Queueable, InUse
<1>2. /\ pending' = Append(pending, f)
      /\ UNCHANGED <<conn, connMap, loopVars, acceptor, batch, held, call, sends, failed>>
  BY DEF loopVars, userVars
<1> HIDE DEF f
<1>3. \A d \in backlog' : conn[d].state = "none"
  BY <1>2 DEF IInv, TypeOK, Lifetime, acceptor
<1>4. InUseKept
  BY <1>2 DEF InUseKept
<1>5. pending' \in Seq(Functors) /\ QueueInv' /\ CallInv' /\ \A c : DestroyFunctors(c)' = DestroyFunctors(c)
  BY <1>1, <1>2, <1>4, QueuePushed, CallsKept
<1>6. TypeOK' /\ OtherAssertsHold'
  BY <1>2, <1>5 DEF IInv, TypeOK, OtherAssertsHold, acceptor, loopVars
<1> QED
  BY <1>2, <1>3, <1>5, <1>6, LoopIdle DEF IInv

(* Another thread queues the functor of its Send or ShutDown. *)
LEMMA CallQueuesStep ==
    ASSUME IInv, NEW t \in Threads, CallQueues(t)
    PROVE  IInv'
<1> DEFINE f == call[t]
<1>1. /\ pending' = Append(pending, f)
      /\ f.op \in {"send", "shutdown"}
      /\ call' = [call EXCEPT ![t] = Idle]
      /\ UNCHANGED <<conn, connMap, loopVars, acceptor, batch, held, sends, failed>>
  BY DEF CallQueues, QueueInLoop, loopVars
<1>2. f \in Functors /\ \A c : f # [op |-> "destroy", conn |-> c]
  BY <1>1, QueueTypes DEF Functors, Calls, Idle
<1>3. Queueable(f)
  BY DEF IInv, CallInv, Queueable
<1> HIDE DEF f
<1>4. \A d \in backlog' : conn[d].state = "none"
  BY <1>1 DEF IInv, TypeOK, Lifetime, acceptor
<1>5. InUseKept
  BY <1>1 DEF InUseKept
<1>6. pending' \in Seq(Functors) /\ QueueInv' /\ \A c : DestroyFunctors(c)' = DestroyFunctors(c)
  BY <1>1, <1>2, <1>3, <1>5, QueuePushed
<1>7. CallInv'
  <2> SUFFICES ASSUME NEW u \in Threads
               PROVE  (InUse(call[u]) /\ (call[u].op = "send" => call[u].msg.by = u))'
    BY DEF CallInv
  <2>1. CASE u = t
    BY <1>1, <2>1 DEF IInv, TypeOK, InUse, Idle
  <2>2. CASE u # t
    BY <1>1, <2>2 DEF IInv, TypeOK, CallInv, InUse
  <2> QED
    BY <2>1, <2>2
<1>8. TypeOK' /\ OtherAssertsHold'
  <2>1. call' \in [Threads -> Calls]
    BY <1>1 DEF IInv, TypeOK, Calls
  <2> QED
    BY <1>1, <1>6, <2>1 DEF IInv, TypeOK, OtherAssertsHold, acceptor, loopVars
<1> QED
  BY <1>1, <1>4, <1>6, <1>7, <1>8, LoopIdle DEF IInv

(* Steps between the parts of the loop, which leave the connections alone. *)
LEMMA LoopMoves ==
    ASSUME IInv, UNCHANGED <<conn, connMap, acceptor, userVars, failed>>,
           pc # "down" /\ pc' # "down", pc # "gone" /\ pc' # "gone",
           cur' \in Conns \cup {NoConn}, DOMAIN active' \subseteq Conns,
           active' \in [DOMAIN active' -> SUBSET {"in", "out", "hup"}],
           pc' \in {"setup", "poll", "dispatch", "event", "up", "message", "functors"},
           done' \subseteq Conns, Places',
           pending' \in Seq(Functors), batch' \in Seq(Functors), QueueInv',
           \A c \in Conns : DestroyFunctors(c)' = DestroyFunctors(c),
           \A c \in Conns : c \in DOMAIN active' =>
              /\ Registered(c)
              /\ "hup" \in active'[c] => active'[c] = {"hup"}
              /\ active'[c] \cap {"in", "hup"} # {} => c \in connMap
    PROVE  IInv'
<1> USE DEF acceptor, userVars
<1>1. \A c \in Conns : (Registered(c)' <=> Registered(c)) /\ ~GoingDown(c)' /\ ~GoingDown(c)
  BY DEF Registered, GoingDown
<1>2. TypeOK' /\ OtherAssertsHold'
  BY DEF IInv, TypeOK, OtherAssertsHold
<1>3. CallInv'
  BY CallsKept DEF InUseKept
<1>4. DestroyedOnce'
  BY <1>1, CountKept DEF IInv
<1>5. \A c \in Conns : Lifetime(c)'
  <2> SUFFICES ASSUME NEW c \in Conns PROVE Lifetime(c)'
    OBVIOUS
  <2>1. Lifetime(c)
    BY DEF IInv
  <2> QED
    BY <1>1, <2>1 DEF Lifetime
<1> QED
  BY <1>2, <1>3, <1>4, <1>5 DEF IInv

(* The events of the poll are those of registered channels, and input is of
   mapped connections. *)
LEMMA ActiveFacts ==
    ASSUME IInv
    PROVE  /\ DOMAIN active \subseteq Conns
           /\ active \in [DOMAIN active -> SUBSET {"in", "out", "hup"}]
           /\ \A c \in Conns : c \in DOMAIN active =>
              /\ Registered(c)
              /\ "hup" \in active[c] => active[c] = {"hup"}
              /\ active[c] \cap {"in", "hup"} # {} => c \in connMap
BY DEF IInv, TypeOK, Lifetime

(* The loop goes from one part of StartLoop to the next. *)
LEMMA MovesOnStep ==
    ASSUME IInv, \/ StartLoop \/ LeaveLoop \/ EndPendingFunctors \/ UpReturns \/ MessageReturns
                 \/ \E c \in Conns : BeginEvent(c)
    PROVE  IInv'
<1> USE DEF StartLoop, LeaveLoop, EndPendingFunctors, UpReturns, MessageReturns, BeginEvent
<1>1. /\ UNCHANGED <<conn, connMap, acceptor, userVars, failed, active, pending, batch>>
      /\ pc # "down" /\ pc' # "down" /\ pc # "gone" /\ pc' # "gone"
      /\ pc' \in {"setup", "poll", "dispatch", "event", "up", "message", "functors"}
  BY DEF loopVars
<1>2. cur' \in Conns \cup {NoConn} /\ done' \subseteq Conns
  BY DEF IInv, TypeOK
<1>3. Places'
  BY DEF IInv, Places
<1>4. QueueInv' /\ \A c \in Conns : DestroyFunctors(c)' = DestroyFunctors(c)
  BY <1>1, QueueKept DEF InUseKept
<1> HIDE DEF StartLoop, LeaveLoop, EndPendingFunctors, UpReturns, MessageReturns, BeginEvent
<1> QED
  BY <1>1, <1>2, <1>3, <1>4, LoopMoves, ActiveFacts, QueueTypes

(* The events of one channel are over. *)
LEMMA EndEventStep ==
    ASSUME IInv, EndEvent
    PROVE  IInv'
<1> USE DEF EndEvent
<1>1. /\ UNCHANGED <<conn, connMap, acceptor, userVars, failed, pending, batch, done>>
      /\ pc = "event" /\ pc' = "dispatch" /\ cur' = NoConn
      /\ active' = [c \in DOMAIN active \ {cur} |-> active[c]]
  BY DEF loopVars
<1>2. done' \subseteq Conns
  BY DEF IInv, TypeOK
<1>3. Places'
  BY DEF IInv, Places
<1>4. QueueInv' /\ \A c \in Conns : DestroyFunctors(c)' = DestroyFunctors(c)
  BY <1>1, QueueKept DEF InUseKept
<1> HIDE DEF EndEvent
<1>5. /\ DOMAIN active' \subseteq Conns
      /\ active' \in [DOMAIN active' -> SUBSET {"in", "out", "hup"}]
  BY <1>1, ActiveFacts
<1>6. \A c \in Conns : c \in DOMAIN active' =>
              /\ Registered(c)
              /\ "hup" \in active'[c] => active'[c] = {"hup"}
              /\ active'[c] \cap {"in", "hup"} # {} => c \in connMap
  BY <1>1, ActiveFacts
<1> QED
  BY <1>1, <1>2, <1>3, <1>4, <1>5, <1>6, LoopMoves, QueueTypes

(* The poll reports events of polled channels. *)
LEMMA PollStep ==
    ASSUME IInv, Poll
    PROVE  IInv'
<1>1. /\ UNCHANGED <<conn, connMap, listening, reading, backlog, userVars, failed, pending, batch, done, cur>>
      /\ pc = "poll" /\ pc' = "dispatch"
      /\ accepting' \in BOOLEAN
  BY DEF Poll
<1>2. PICK r \in [Polled -> SUBSET {"in", "out", "hup"}] :
          /\ \A c \in Polled : r[c] \in Reports(conn[c])
          /\ active' = [c \in {d \in Polled : r[d] # {}} |-> r[c]]
  BY DEF Poll
<1>3. /\ DOMAIN active' \subseteq Conns
      /\ active' \in [DOMAIN active' -> SUBSET {"in", "out", "hup"}]
      /\ \A c \in DOMAIN active' : c \in Polled /\ active'[c] \in Reports(conn[c])
  BY <1>2 DEF Polled
<1>4. \A c \in Conns : c \in DOMAIN active' =>
              /\ Registered(c)
              /\ "hup" \in active'[c] => active'[c] = {"hup"}
              /\ c \in connMap
  <2> SUFFICES ASSUME NEW c \in Conns, c \in DOMAIN active'
               PROVE  /\ Registered(c)
                      /\ "hup" \in active'[c] => active'[c] = {"hup"}
                      /\ c \in connMap
    OBVIOUS
  <2>1. conn[c].poll = "polled" /\ active'[c] \in Reports(conn[c])
    BY <1>3 DEF Polled
  <2>2. Registered(c) /\ c \in connMap
    BY <1>1, <2>1 DEF IInv, Lifetime, Registered
  <2>3. "hup" \in active'[c] => active'[c] = {"hup"}
    BY <2>1 DEF Reports
  <2> QED
    BY <2>2, <2>3
<1>5. Places'
  BY <1>1 DEF IInv, Places
<1>6. QueueInv' /\ \A c \in Conns : DestroyFunctors(c)' = DestroyFunctors(c)
  BY <1>1, QueueKept DEF InUseKept
<1>7. \A c \in Conns : (Registered(c)' <=> Registered(c)) /\ ~GoingDown(c)' /\ ~GoingDown(c)
  BY <1>1 DEF Registered, GoingDown
<1>8. TypeOK' /\ OtherAssertsHold'
  BY <1>1, <1>3 DEF IInv, TypeOK, OtherAssertsHold, userVars
<1>9. CallInv'
  BY <1>1, CallsKept DEF InUseKept, userVars
<1>10. DestroyedOnce'
  BY <1>1, <1>6, <1>7, CountKept DEF IInv
<1>11. \A c \in Conns : Lifetime(c)'
  <2> SUFFICES ASSUME NEW c \in Conns PROVE Lifetime(c)'
    OBVIOUS
  <2>1. Lifetime(c)
    BY DEF IInv
  <2> QED
    BY <1>1, <1>4, <1>7, <2>1 DEF Lifetime
<1> QED
  BY <1>5, <1>6, <1>8, <1>9, <1>10, <1>11 DEF IInv

(* __DoPendingFunctors swaps the queue into its batch. *)
LEMMA BeginPendingFunctorsStep ==
    ASSUME IInv, BeginPendingFunctors
    PROVE  IInv'
<1>1. /\ UNCHANGED <<conn, connMap, acceptor, userVars, failed, active, done, cur>>
      /\ pc = "dispatch" /\ pc' = "functors"
      /\ DOMAIN active = {}
      /\ batch' = pending /\ pending' = <<>>
      /\ batch = <<>>
  BY DEF BeginPendingFunctors, IInv, Places
<1>2. cur' \in Conns \cup {NoConn} /\ done' \subseteq Conns
  BY <1>1 DEF IInv, TypeOK
<1>3. Places'
  BY <1>1 DEF IInv, Places
<1>4. pending' \in Seq(Functors) /\ batch' \in Seq(Functors)
  BY <1>1, QueueTypes
<1>5. InUseKept
  BY <1>1 DEF InUseKept
<1>6. QueueInv'
  <2>1. \A i \in DOMAIN batch' : Queueable(batch[i])'
    BY <1>1, <1>5, QueueTypes, InUseStays DEF IInv, QueueInv
  <2> QED
    BY <1>1, <2>1 DEF QueueInv
<1>7. \A c \in Conns : DestroyFunctors(c)' = DestroyFunctors(c)
  <2> SUFFICES ASSUME NEW c \in Conns PROVE DestroyFunctors(c)' = DestroyFunctors(c)
    OBVIOUS
  <2>1. Destroys(pending, c) \in Nat /\ Destroys(<<>>, c) = 0
    BY QueueTypes, PositionsFinite, DestroysNone
  <2> QED
    BY <1>1, <2>1 DEF DestroyFunctors
<1> QED
  BY <1>1, <1>2, <1>3, <1>4, <1>6, <1>7, LoopMoves, ActiveFacts

(* ~CTcpServer clears the map; nothing is promised of its connections after
   that. *)
LEMMA DestroyServerStep ==
    ASSUME IInv, DestroyServer
    PROVE  IInv'
<1>1. /\ UNCHANGED <<conn, reading, accepting, cur, active, batch, done, pending, userVars, failed>>
      /\ pc = "setup" /\ pc' = "gone"
      /\ listening' = FALSE /\ backlog' = {} /\ connMap' = {}
      /\ DOMAIN active = {}
  BY DEF DestroyServer, IInv, Places
<1>2. TypeOK' /\ OtherAssertsHold'
  BY <1>1 DEF IInv, TypeOK, OtherAssertsHold, userVars
<1>3. Places'
  BY <1>1 DEF IInv, Places
<1>4. QueueInv' /\ CallInv'
  BY <1>1, QueueKept, CallsKept DEF InUseKept, userVars
<1>5. DestroyedOnce'
  BY <1>1 DEF DestroyedOnce
<1>6. \A c \in Conns : Lifetime(c)'
  <2> SUFFICES ASSUME NEW c \in Conns PROVE Lifetime(c)'
    OBVIOUS
  <2>1. Lifetime(c)
    BY DEF IInv
  <2>2. (Registered(c)' <=> Registered(c)) /\ ~GoingDown(c)' /\ ~GoingDown(c)
    BY <1>1 DEF Registered, GoingDown
  <2> QED
    BY <1>1, <2>1, <2>2 DEF Lifetime
<1> QED
  BY <1>2, <1>3, <1>4, <1>5, <1>6 DEF IInv

(* StartListen runs as a functor. *)
LEMMA RunListenStep ==
    ASSUME IInv, RunListen
    PROVE  IInv'
<1>1. /\ UNCHANGED <<conn, backlog, accepting, connMap, pc, cur, active, done, pending, userVars, failed>>
      /\ listening' = TRUE /\ reading' = TRUE
      /\ pc = "functors"
      /\ batch # <<>> /\ Head(batch).op = "listen" /\ batch' = Tail(batch)
  BY DEF RunListen, NextFunctor, StartListen
<1>2. InUseKept
  BY <1>1 DEF InUseKept
<1>3. /\ batch' \in Seq(Functors)
      /\ QueueInv'
      /\ \A c : DestroyFunctors(c)' = DestroyFunctors(c)
  <2>1. \A c : Head(batch) # [op |-> "destroy", conn |-> c]
    BY <1>1
  <2> QED
    BY <1>1, <1>2, <2>1, QueuePopped
<1>4. TypeOK' /\ OtherAssertsHold'
  BY <1>1, <1>3 DEF IInv, TypeOK, OtherAssertsHold, userVars
<1>5. Places'
  BY <1>1 DEF IInv, Places
<1>6. CallInv'
  BY <1>1, <1>2, CallsKept DEF userVars
<1>7. \A c \in Conns : (Registered(c)' <=> Registered(c)) /\ (GoingDown(c)' <=> GoingDown(c))
  BY <1>1 DEF Registered, GoingDown
<1>8. DestroyedOnce'
  BY <1>1, <1>3, <1>7, CountKept DEF IInv
<1>9. \A c \in Conns : Lifetime(c)'
  <2> SUFFICES ASSUME NEW c \in Conns PROVE Lifetime(c)'
    OBVIOUS
  <2>1. Lifetime(c) /\ Similar(conn[c], conn'[c]) /\ UNCHANGED loopFrame
    BY <1>1 DEF IInv, Similar, loopFrame
  <2> QED
    BY <1>1, <2>1, LifetimeKept
<1> QED
  BY <1>3, <1>4, <1>5, <1>6, <1>8, <1>9 DEF IInv

(* Steps that change one connection and handle, at most, an event of it. *)
EventsLeft ==
    \A d \in DOMAIN active' :
        /\ d \in DOMAIN active
        /\ \/ active'[d] = active[d]
           \/ \E ev \in {"in", "out", "hup"} : active'[d] = active[d] \ {ev}

(* The step calls back in order. *)
HeardInOrder ==
    \A c \in Conns : conn'[c].heard # conn[c].heard =>
          <<conn[c].heard, conn'[c].heard>> \in
              {<<"nothing", "up">>, <<"up", "message">>, <<"up", "down">>, <<"message", "down">>}

(* The step sends nothing. *)
SentKept == \A c \in Conns : conn'[c].sent = conn[c].sent

(* The stream is whole on when neither it nor what was sent changes. *)
LEMMA StreamSame ==
    ASSUME NEW k, NEW r, r.sent = k.sent,
           Stream(r) = Stream(k) \/ (r.wire = k.wire /\ r.out = k.out)
    PROVE  StreamWhole(k) => StreamWhole(r)
BY DEF StreamWhole, Stream

(* A connection that stays as alive as it was, with an event of it handled at
   most. *)
LEMMA Touched ==
    ASSUME IInv, NEW c \in Conns, NEW r \in Connection, conn' = [conn EXCEPT ![c] = r],
           Similar(conn[c], r), GoingDown(c) => r.events = conn[c].events,
           UNCHANGED <<connMap, done, backlog, cur>>, EventsLeft,
           \/ pc' = pc
           \/ pc = "event" /\ pc' = "message"
    PROVE  /\ conn' \in [Conns -> Connection]
           /\ InUseKept
           /\ \A d \in Conns : Lifetime(d)'
           /\ (\A d \in Conns : DestroyFunctors(d)' = DestroyFunctors(d)) => DestroyedOnce'
           /\ HeardInOrder
           /\ r.sent = conn[c].sent => SentKept
<1>1. conn \in [Conns -> Connection]
  BY DEF IInv, TypeOK
<1>2. ASSUME NEW d \in Conns
      PROVE  /\ Lifetime(d)'
             /\ Registered(d)' <=> Registered(d)
             /\ conn[d].poll # "new" => conn'[d].poll # "new"
             /\ GoingDown(d)' <=> GoingDown(d)
  <2>1. Similar(conn[d], conn'[d]) /\ (GoingDown(d) => conn'[d].events = conn[d].events)
    <3>1. CASE d = c
      BY <1>1, <3>1
    <3>2. CASE d # c
      BY <1>1, <3>2 DEF Similar
    <3> QED
      BY <3>1, <3>2
  <2>2. GoingDown(d)' <=> GoingDown(d)
    BY DEF GoingDown
  <2>3. /\ Registered(d)' <=> Registered(d)
        /\ conn[d].poll # "new" => conn'[d].poll # "new"
    BY <2>1 DEF Registered, Similar
  <2>4. Lifetime(d)
    BY DEF IInv
  <2>5. d \in DOMAIN active' =>
          /\ Registered(d)'
          /\ "hup" \in active'[d] => active'[d] = {"hup"}
          /\ active'[d] \cap {"in", "hup"} # {} => d \in connMap'
    <3> SUFFICES ASSUME d \in DOMAIN active'
                 PROVE  /\ Registered(d)'
                        /\ "hup" \in active'[d] => active'[d] = {"hup"}
                        /\ active'[d] \cap {"in", "hup"} # {} => d \in connMap'
      OBVIOUS
    <3>1. /\ d \in DOMAIN active
          /\ \/ active'[d] = active[d]
             \/ \E ev \in {"in", "out", "hup"} : active'[d] = active[d] \ {ev}
      BY DEF EventsLeft
    <3>2. /\ Registered(d)
          /\ "hup" \in active[d] => active[d] = {"hup"}
          /\ active[d] \cap {"in", "hup"} # {} => d \in connMap
      BY <2>4, <3>1 DEF Lifetime
    <3> QED
      BY <2>3, <3>1, <3>2
  <2>6. Lifetime(d)'
    BY <2>1, <2>2, <2>3, <2>4, <2>5 DEF Lifetime, Similar
  <2> QED
    BY <2>2, <2>3, <2>6
<1>3. conn' \in [Conns -> Connection]
  BY <1>1
<1>4. (\A d \in Conns : DestroyFunctors(d)' = DestroyFunctors(d)) => DestroyedOnce'
  <2>1. pc = "gone" => pc' = "gone"
    OBVIOUS
  <2> QED
    BY <1>2, <2>1, CountKept DEF IInv
<1>5. HeardInOrder
  <2> SUFFICES ASSUME NEW d \in Conns, conn'[d].heard # conn[d].heard
               PROVE  <<conn[d].heard, conn'[d].heard>> \in
                         {<<"nothing", "up">>, <<"up", "message">>, <<"up", "down">>, <<"message", "down">>}
    BY DEF HeardInOrder
  <2>1. d = c /\ conn'[d].heard = r.heard
    BY <1>1
  <2> QED
    BY <2>1 DEF Similar
<1>6. r.sent = conn[c].sent => SentKept
  BY <1>1 DEF SentKept
<1> QED
  BY <1>2, <1>3, <1>4, <1>5, <1>6 DEF InUseKept

(* Of those, the ones that leave the queue and the threads alone. *)
LEMMA TouchStep ==
    ASSUME IInv, NEW c \in Conns, NEW r \in Connection, conn' = [conn EXCEPT ![c] = r],
           Similar(conn[c], r), GoingDown(c) => r.events = conn[c].events,
           UNCHANGED <<acceptor, connMap, done, cur, batch, pending, held, call, failed>>,
           sends' \in 0..MaxSends,
           EventsLeft, DOMAIN active' = DOMAIN active,
           active' \in [DOMAIN active' -> SUBSET {"in", "out", "hup"}],
           \/ pc' = pc
           \/ pc = "event" /\ pc' = "message"
    PROVE  IInv' /\ HeardInOrder /\ (r.sent = conn[c].sent => SentKept)
<1>1. UNCHANGED backlog
  BY DEF acceptor
<1>2. /\ conn' \in [Conns -> Connection]
      /\ InUseKept
      /\ \A d \in Conns : Lifetime(d)'
      /\ (\A d \in Conns : DestroyFunctors(d)' = DestroyFunctors(d)) => DestroyedOnce'
      /\ HeardInOrder
      /\ r.sent = conn[c].sent => SentKept
  BY <1>1, Touched
<1>3. QueueInv' /\ CallInv' /\ DestroyedOnce'
  BY <1>2, QueueKept, CallsKept
<1>4. TypeOK' /\ OtherAssertsHold'
  BY <1>2 DEF IInv, TypeOK, OtherAssertsHold, acceptor
<1>5. Places'
  BY DEF IInv, Places
<1> QED
  BY <1>2, <1>3, <1>4, <1>5 DEF IInv

(* A step that handles no event leaves the events as they are. *)
LEMMA EventsUntouched ==
    ASSUME IInv, UNCHANGED active
    PROVE  /\ EventsLeft /\ DOMAIN active' = DOMAIN active
           /\ active' \in [DOMAIN active' -> SUBSET {"in", "out", "hup"}]
BY ActiveFacts DEF EventsLeft

(* A step that handles one event leaves the others. *)
LEMMA EventHandled ==
    ASSUME IInv, NEW ev \in {"in", "out", "hup"}, Handled(ev)
    PROVE  /\ EventsLeft /\ DOMAIN active' = DOMAIN active
           /\ active' \in [DOMAIN active' -> SUBSET {"in", "out", "hup"}]
<1>1. active' = [active EXCEPT ![cur] = @ \ {ev}]
  BY DEF Handled
<1>2. /\ DOMAIN active' = DOMAIN active
      /\ active' \in [DOMAIN active' -> SUBSET {"in", "out", "hup"}]
  BY <1>1, ActiveFacts
<1>3. \A d \in DOMAIN active : active'[d] = active[d] \/ active'[d] = active[d] \ {ev}
  BY <1>1, ActiveFacts
<1> QED
  BY <1>2, <1>3 DEF EventsLeft

(* The connection whose events are being handled is registered and up. *)
LEMMA CurrentEvent ==
    ASSUME IInv, pc \in {"event", "message"}
    PROVE  /\ cur \in Conns /\ cur \in DOMAIN active /\ Registered(cur)
           /\ conn[cur] \in Connection /\ conn[cur].poll # "new"
           /\ ~GoingDown(cur) /\ conn[cur].heard \in {"up", "message"}
<1>1. cur \in DOMAIN active /\ cur \in Conns
  BY ActiveFacts DEF IInv, Places
<1>2. Registered(cur) /\ conn[cur] \in Connection
  BY <1>1, ActiveFacts DEF IInv, TypeOK
<1>3. conn[cur].poll # "new" /\ ~GoingDown(cur)
  BY <1>2 DEF Registered, GoingDown
<1>4. conn[cur].heard \in {"up", "message"}
  BY <1>1, <1>2, <1>3 DEF IInv, Lifetime
<1> QED
  BY <1>1, <1>2, <1>3, <1>4

(* __HandleRead with input. *)
LEMMA ReadMessageStep ==
    ASSUME IInv, ReadMessage
    PROVE  IInv' /\ HeardInOrder /\ SentKept
<1> DEFINE r == [conn[cur] EXCEPT !.unread = FALSE, !.heard = "message"]
<1>1. /\ conn' = [conn EXCEPT ![cur] = r]
      /\ UNCHANGED <<acceptor, connMap, done, cur, batch, pending, held, call, sends, failed>>
      /\ pc = "event" /\ pc' = "message"
      /\ Handled("in")
  BY DEF ReadMessage, Set, userVars
<1>2. /\ r \in Connection /\ Similar(conn[cur], r) /\ r.events = conn[cur].events /\ cur \in Conns
      /\ r.sent = conn[cur].sent
  <2>1. /\ conn[cur] \in Connection /\ cur \in Conns
        /\ conn[cur].heard \in {"up", "message"}
    BY <1>1, CurrentEvent
  <2>2. r \in Connection
    BY <2>1 DEF Connection
  <2>3. StreamWhole(conn[cur]) => StreamWhole(r)
    BY <2>1, StreamSame DEF Connection
  <2> QED
    BY <2>1, <2>2, <2>3 DEF Connection, Similar
<1> HIDE DEF r
<1>3. sends' \in 0..MaxSends
  BY <1>1 DEF IInv, TypeOK
<1> QED
  BY <1>1, <1>2, <1>3, EventHandled, TouchStep

(* __HandleRead with an error. *)
LEMMA ReadErrorStep ==
    ASSUME IInv, ReadError
    PROVE  IInv' /\ HeardInOrder /\ SentKept
<1> DEFINE r == GetSocketError(conn[cur])
<1>1. /\ conn' = [conn EXCEPT ![cur] = r]
      /\ UNCHANGED <<acceptor, connMap, done, cur, batch, pending, held, call, sends, failed>>
      /\ pc = "event" /\ pc' = pc
      /\ Handled("in")
  BY DEF ReadError, Set, userVars
<1>2. /\ r \in Connection /\ Similar(conn[cur], r) /\ r.events = conn[cur].events /\ cur \in Conns
      /\ r.sent = conn[cur].sent
  BY <1>1, CurrentEvent, StreamSame DEF Connection, Similar, GetSocketError, Peers
<1> HIDE DEF r
<1>3. sends' \in 0..MaxSends
  BY <1>1 DEF IInv, TypeOK
<1> QED
  BY <1>1, <1>2, <1>3, EventHandled, TouchStep

(* __HandleWrite. *)
LEMMA WriteEventStep ==
    ASSUME IInv, WriteEvent
    PROVE  IInv' /\ HeardInOrder /\ SentKept
<1>1. PICK r \in HandleWrite(conn[cur]) : conn' = [conn EXCEPT ![cur] = r]
  BY DEF WriteEvent, Set
<1>2. /\ UNCHANGED <<acceptor, connMap, done, cur, batch, pending, held, call, sends, failed>>
      /\ pc = "event" /\ pc' = pc
      /\ Handled("out")
  BY DEF WriteEvent, userVars
<1>3. /\ conn[cur] \in Connection /\ cur \in Conns
      /\ conn[cur].poll \in {"polled", "muted"}
      /\ ~GoingDown(cur)
  BY <1>2, CurrentEvent DEF Registered
<1>4. r \in Connection /\ Similar(conn[cur], r) /\ r.sent = conn[cur].sent
  BY <1>1, <1>3, HandleWriteFacts, StreamSame DEF Similar
<1>5. sends' \in 0..MaxSends
  BY <1>2 DEF IInv, TypeOK
<1> QED
  BY <1>1, <1>2, <1>3, <1>4, <1>5, EventHandled, TouchStep

(* The peer sends, reads, finishes or resets. *)
LEMMA PeerTouches ==
    ASSUME IInv, NEW c \in Conns,
           PeerSends(c) \/ PeerFinishes(c) \/ PeerResets(c) \/ PeerReads(c)
    PROVE  IInv' /\ HeardInOrder /\ SentKept
<1>1. \E r \in {[conn[c] EXCEPT !.unread = TRUE], [conn[c] EXCEPT !.peer = "fin"],
                [conn[c] EXCEPT !.peer = "reset"], [conn[c] EXCEPT !.full = FALSE]} : Peer(c, r)
  BY DEF PeerSends, PeerFinishes, PeerResets, PeerReads
<1>2. PICK r \in {[conn[c] EXCEPT !.unread = TRUE], [conn[c] EXCEPT !.peer = "fin"],
                [conn[c] EXCEPT !.peer = "reset"], [conn[c] EXCEPT !.full = FALSE]} : Peer(c, r)
  BY <1>1
<1>3. /\ conn' = [conn EXCEPT ![c] = r]
      /\ UNCHANGED <<acceptor, connMap, done, cur, batch, pending, held, call, sends, failed, active>>
      /\ pc' = pc
  BY <1>2 DEF Peer, Set, loopVars, userVars
<1>4. r \in Connection /\ Similar(conn[c], r) /\ r.events = conn[c].events /\ r.sent = conn[c].sent
  <2>1. conn[c] \in Connection
    BY DEF IInv, TypeOK
  <2> QED
    BY <1>2, <2>1, StreamSame DEF Connection, Similar, Peers
<1>5. sends' \in 0..MaxSends
  BY <1>3 DEF IInv, TypeOK
<1> QED
  BY <1>3, <1>4, <1>5, EventsUntouched, TouchStep

(* __SendInLoop leaves a connection as alive as it was, with a stream that is
   whole. *)
LEMMA SendSimilar ==
    ASSUME NEW k \in Connection, k.poll # "new", NEW m \in Messages, NEW r \in SendInLoop(k, m)
    PROVE  r \in Connection /\ Similar(k, r)
<1>1. /\ r \in Connection
      /\ r.state = k.state /\ r.poll = k.poll /\ r.heard = k.heard
      /\ r.sent = Append(k.sent, m) /\ Stream(r) = Stream(k) \o Parts(m)
  BY SendFacts
<1>2. StreamWhole(k) => StreamWhole(r)
  BY <1>1, StreamGrows
<1> QED
  BY <1>1, <1>2 DEF Similar

(* Send in the loop thread. *)
LEMMA SendOwnerStep ==
    ASSUME IInv, NEW c \in Conns, SendOwner(c)
    PROVE  IInv' /\ HeardInOrder
<1>1. PICK r \in SendInLoop(conn[c], Message(Owner)) :
          Assert_("UpdateChannel", ~Unknown(conn[c], r),
                  /\ Set(c, r)
                  /\ sends' = sends + 1
                  /\ UNCHANGED <<acceptor, connMap, loopVars, pending, held, call>>)
  BY DEF SendOwner
<1>2. conn[c].state = "eConnected" /\ sends < MaxSends
  BY DEF SendOwner
<1>3. CASE failed' = "UpdateChannel" /\ UNCHANGED <<conn, acceptor, connMap, loopVars, pending, userVars>>
  <2>1. IInv'
    BY <1>3, FailStep
  <2> QED
    BY <1>3, <2>1 DEF HeardInOrder
<1>4. CASE UNCHANGED failed /\ Set(c, r) /\ sends' = sends + 1
              /\ UNCHANGED <<acceptor, connMap, loopVars, pending, held, call>>
  <2>1. /\ conn' = [conn EXCEPT ![c] = r]
        /\ UNCHANGED <<acceptor, connMap, done, cur, batch, pending, held, call, failed, active>>
        /\ pc' = pc
    BY <1>4 DEF Set, loopVars
  <2>2. conn[c] \in Connection /\ conn[c].poll # "new" /\ ~GoingDown(c)
    BY <1>2 DEF IInv, TypeOK, Lifetime
  <2>3. Message(Owner) \in Messages /\ sends' \in 0..MaxSends
    BY <1>2, <1>4, MaxSendsNat DEF IInv, TypeOK, Message, Messages
  <2>4. r \in Connection /\ Similar(conn[c], r)
    BY <1>1, <2>2, <2>3, SendSimilar
  <2> QED
    BY <2>1, <2>2, <2>3, <2>4, EventsUntouched, TouchStep
<1> QED
  BY <1>1, <1>3, <1>4 DEF Assert_

(* ShutDown in the loop thread. *)
LEMMA ShutDownOwnerStep ==
    ASSUME IInv, NEW c \in Conns, ShutDownOwner(c)
    PROVE  IInv' /\ HeardInOrder /\ SentKept
<1> DEFINE k == [conn[c] EXCEPT !.state = "eDisconnecting"]
           r == ShutdownInLoop(k)
<1>1. /\ conn' = [conn EXCEPT ![c] = r]
      /\ UNCHANGED <<acceptor, connMap, done, cur, batch, pending, held, call, sends, failed, active>>
      /\ pc' = pc
      /\ conn[c].state = "eConnected"
  BY DEF ShutDownOwner, Set, loopVars, userVars
<1>2. conn[c] \in Connection /\ conn[c].poll # "new"
  BY <1>1 DEF IInv, TypeOK, Lifetime
<1>3. /\ k \in Connection /\ k.state = "eDisconnecting"
      /\ k.poll = conn[c].poll /\ k.events = conn[c].events /\ k.heard = conn[c].heard
      /\ k.out = conn[c].out /\ k.wire = conn[c].wire /\ k.sent = conn[c].sent
  BY <1>2 DEF Connection, States
<1> HIDE DEF k
<1>4. r \in Connection /\ Similar(conn[c], r) /\ r.events = conn[c].events /\ r.sent = conn[c].sent
  BY <1>2, <1>3, ShutdownFacts, StreamSame DEF Similar
<1> HIDE DEF r
<1>5. sends' \in 0..MaxSends
  BY <1>1 DEF IInv, TypeOK
<1> QED
  BY <1>1, <1>4, <1>5, EventsUntouched, TouchStep

(* ShutDown in another thread has set m_eState, on the strength of what it
   read before. *)
LEMMA ShutDownSetsStateStep ==
    ASSUME IInv, NEW t \in Threads, ShutDownSetsState(t)
    PROVE  IInv' /\ HeardInOrder /\ SentKept
<1> DEFINE c == call[t].conn
           r == [conn[c] EXCEPT !.state = "eDisconnecting"]
           f == [op |-> "shutdown", conn |-> c]
<1>1. /\ conn' = [conn EXCEPT ![c] = r]
      /\ UNCHANGED <<acceptor, connMap, done, cur, batch, pending, held, sends, failed, active>>
      /\ pc' = pc
      /\ call' = [call EXCEPT ![t] = f]
      /\ call[t].op = "setstate"
  BY DEF ShutDownSetsState, Set, loopVars, userVars
<1>2. c \in Conns
  BY <1>1, QueueTypes DEF Calls, Functors, Idle
<1>3. conn[c] \in Connection /\ conn[c].poll # "new"
  BY <1>1, <1>2 DEF IInv, TypeOK, CallInv, InUse
<1>4. r \in Connection /\ Similar(conn[c], r) /\ r.events = conn[c].events /\ r.sent = conn[c].sent
  BY <1>3, StreamSame DEF Similar, Connection, States
<1>5. f \in Calls
  BY <1>2 DEF Functors, Calls
<1>6. f.op = "shutdown" /\ f.conn = c
  OBVIOUS
<1> HIDE DEF c, r, f
<1>7. /\ conn' \in [Conns -> Connection]
      /\ InUseKept
      /\ \A d \in Conns : Lifetime(d)'
      /\ (\A d \in Conns : DestroyFunctors(d)' = DestroyFunctors(d)) => DestroyedOnce'
      /\ HeardInOrder /\ SentKept
  BY <1>1, <1>2, <1>4, EventsUntouched, Touched DEF acceptor
<1>8. QueueInv' /\ DestroyedOnce'
  BY <1>1, <1>7, QueueKept
<1>9. TypeOK' /\ OtherAssertsHold'
  <2>1. call' \in [Threads -> Calls]
    BY <1>1, <1>5 DEF IInv, TypeOK
  <2> QED
    BY <1>1, <1>7, <2>1 DEF IInv, TypeOK, OtherAssertsHold, acceptor
<1>10. Places'
  BY <1>1 DEF IInv, Places
<1>11. CallInv'
  <2> SUFFICES ASSUME NEW u \in Threads
               PROVE  (InUse(call[u]) /\ (call[u].op = "send" => call[u].msg.by = u))'
    BY DEF CallInv
  <2>1. CASE u = t
    <3>1. call'[u] = f
      BY <1>1, <2>1 DEF IInv, TypeOK
    <3>2. conn'[c].poll # "new"
      BY <1>2, <1>3, <1>7 DEF InUseKept
    <3> QED
      BY <1>6, <3>1, <3>2 DEF InUse
  <2>2. CASE u # t
    <3>1. call'[u] = call[u] /\ call[u] \in Calls
      BY <1>1, <2>2 DEF IInv, TypeOK
    <3> QED
      BY <1>7, <3>1, InUseStays DEF IInv, CallInv, InUse
  <2> QED
    BY <2>1, <2>2
<1> QED
  BY <1>7, <1>8, <1>9, <1>10, <1>11 DEF IInv

(* The functors of Send and ShutDown. *)
LEMMA PopAndTouch ==
    ASSUME IInv, pc = "functors", batch # <<>>, Head(batch).op # "destroy", batch' = Tail(batch),
           NEW c \in Conns, NEW r \in Connection, conn' = [conn EXCEPT ![c] = r],
           Similar(conn[c], r),
           UNCHANGED <<acceptor, connMap, pc, cur, active, done, pending, userVars, failed>>
    PROVE  IInv' /\ HeardInOrder /\ (r.sent = conn[c].sent => SentKept)
<1> USE DEF acceptor, userVars
<1>1. /\ conn' \in [Conns -> Connection]
      /\ InUseKept
      /\ \A d \in Conns : Lifetime(d)'
      /\ (\A d \in Conns : DestroyFunctors(d)' = DestroyFunctors(d)) => DestroyedOnce'
      /\ HeardInOrder
      /\ r.sent = conn[c].sent => SentKept
  <2>1. ~GoingDown(c) /\ EventsLeft
    BY DEF GoingDown, EventsLeft
  <2> QED
    BY <2>1, Touched
<1>2. /\ batch' \in Seq(Functors)
      /\ QueueInv'
      /\ \A d : DestroyFunctors(d)' = DestroyFunctors(d)
  <2>1. \A d : Head(batch) # [op |-> "destroy", conn |-> d]
    OBVIOUS
  <2>2. \A d : DestroyFunctors(d) \in Nat
    BY QueueTypes, PositionsFinite DEF DestroyFunctors
  <2> QED
    BY <1>1, <2>1, <2>2, QueuePopped
<1>3. CallInv' /\ DestroyedOnce'
  BY <1>1, <1>2, CallsKept
<1>4. TypeOK' /\ OtherAssertsHold'
  BY <1>1, <1>2 DEF IInv, TypeOK, OtherAssertsHold
<1>5. Places'
  BY DEF IInv, Places
<1> QED
  BY <1>1, <1>2, <1>3, <1>4, <1>5 DEF IInv

(* The functor at the head is about an established connection, and a
   ConnectDestroyed about one that is out of the map and still registered. *)
LEMMA NextFunctorFacts ==
    ASSUME IInv, batch # <<>>
    PROVE  /\ Head(batch) \in Functors /\ Queueable(Head(batch))
           /\ Head(batch).op = "send" =>
                 /\ Head(batch).conn \in Conns /\ Head(batch).msg \in Messages
                 /\ conn[Head(batch).conn].poll # "new"
           /\ Head(batch).op \in {"shutdown", "destroy"} =>
                 /\ Head(batch).conn \in Conns
                 /\ conn[Head(batch).conn].poll # "new"
           /\ Head(batch).op = "destroy" =>
                 Head(batch) = [op |-> "destroy", conn |-> Head(batch).conn]
<1>1. Head(batch) \in Functors /\ Queueable(Head(batch))
  <2>1. Head(batch) = batch[1] /\ 1 \in DOMAIN batch
    BY QueueTypes, LenProperties, EmptySeq, HeadTailProperties
  <2> QED
    BY <2>1, QueueTypes DEF IInv, QueueInv
<1> QED
  BY <1>1 DEF Functors, Queueable, InUse

(* __ShutdownInLoop runs as a functor. *)
LEMMA RunShutdownStep ==
    ASSUME IInv, RunShutdown
    PROVE  IInv' /\ HeardInOrder /\ SentKept
<1> DEFINE c == Head(batch).conn
           r == ShutdownInLoop(conn[c])
<1>1. /\ pc = "functors" /\ batch # <<>> /\ Head(batch).op = "shutdown" /\ batch' = Tail(batch)
      /\ conn' = [conn EXCEPT ![c] = r]
      /\ UNCHANGED <<acceptor, connMap, pc, cur, active, done, pending, userVars, failed>>
  BY DEF RunShutdown, NextFunctor, Set
<1>2. c \in Conns /\ conn[c] \in Connection
  BY <1>1, NextFunctorFacts DEF IInv, TypeOK
<1>3. r \in Connection /\ Similar(conn[c], r) /\ r.sent = conn[c].sent
  BY <1>2, ShutdownFacts, StreamSame DEF Similar
<1> HIDE DEF c, r
<1> QED
  BY <1>1, <1>2, <1>3, PopAndTouch

(* __SendInLoop runs as a functor. *)
LEMMA RunSendStep ==
    ASSUME IInv, RunSend
    PROVE  IInv' /\ HeardInOrder
<1> DEFINE c == Head(batch).conn
<1>1. PICK r \in SendInLoop(conn[c], Head(batch).msg) :
          Assert_("UpdateChannel", ~Unknown(conn[c], r),
                  /\ Set(c, r)
                  /\ batch' = Tail(batch)
                  /\ UNCHANGED <<acceptor, connMap, pc, cur, active, done, pending, userVars>>)
  BY DEF RunSend
<1>2. pc = "functors" /\ batch # <<>> /\ Head(batch).op = "send"
  BY DEF RunSend, NextFunctor
<1>3. CASE failed' = "UpdateChannel" /\ UNCHANGED <<conn, acceptor, connMap, loopVars, pending, userVars>>
  <2>1. IInv'
    BY <1>3, FailStep
  <2> QED
    BY <1>3, <2>1 DEF HeardInOrder
<1>4. CASE UNCHANGED failed /\ Set(c, r) /\ batch' = Tail(batch)
              /\ UNCHANGED <<acceptor, connMap, pc, cur, active, done, pending, userVars>>
  <2>1. c \in Conns /\ Head(batch).msg \in Messages /\ conn[c].poll # "new" /\ conn[c] \in Connection
    BY <1>2, NextFunctorFacts DEF IInv, TypeOK
  <2>2. r \in Connection /\ Similar(conn[c], r)
    BY <1>1, <2>1, SendSimilar
  <2>3. conn' = [conn EXCEPT ![c] = r]
    BY <1>4 DEF Set
  <2> HIDE DEF c
  <2> QED
    BY <1>2, <1>4, <2>1, <2>2, <2>3, PopAndTouch
<1> QED
  BY <1>1, <1>3, <1>4 DEF Assert_

(* The close of a connection. *)
LEMMA ClosingFacts ==
    ASSUME NEW k \in Connection, k.poll # "new"
    PROVE  /\ Closing(k) \in Connection
           /\ Closing(k).state = k.state /\ Closing(k).poll = "muted"
           /\ Closing(k).events = {} /\ Closing(k).fd = k.fd
           /\ Closing(k).heard = k.heard
           /\ Closing(k).out = k.out /\ Closing(k).wire = k.wire /\ Closing(k).sent = k.sent
BY AskedFacts DEF Closing

(* __HandleClose and __RemoveConnection: the connection leaves the map and
   its ConnectDestroyed is queued, for the first and only time. *)
LEMMA HandleCloseStep ==
    ASSUME IInv, pc = "event", NEW ev \in {"in", "hup"}, ev \in active[cur],
           HandleClose(cur, conn[cur], ev)
    PROVE  IInv' /\ HeardInOrder /\ SentKept
<1> DEFINE r == Closing(conn[cur])
           f == [op |-> "destroy", conn |-> cur]
<1>1. /\ cur \in Conns /\ cur \in DOMAIN active /\ Registered(cur) /\ cur \in connMap
      /\ conn[cur] \in Connection /\ conn[cur].poll # "new"
      /\ conn[cur].state \in {"eConnected", "eDisconnecting"}
  <2>1. /\ cur \in Conns /\ cur \in DOMAIN active /\ Registered(cur)
        /\ conn[cur] \in Connection /\ conn[cur].poll # "new"
        /\ ~GoingDown(cur)
    BY CurrentEvent
  <2>2. cur \in connMap
    BY <2>1, ActiveFacts
  <2> QED
    BY <2>1, <2>2 DEF IInv, Lifetime
<1>2. /\ conn' = [conn EXCEPT ![cur] = r]
      /\ connMap' = connMap \ {cur}
      /\ pending' = Append(pending, f)
      /\ Handled(ev)
      /\ UNCHANGED <<acceptor, pc, cur, batch, done, userVars, failed>>
  BY <1>1 DEF HandleClose, Assert_, Set, QueueInLoop
<1>3. /\ r \in Connection /\ r.state = conn[cur].state /\ r.poll = "muted"
      /\ r.heard = conn[cur].heard /\ r.sent = conn[cur].sent
      /\ StreamWhole(conn[cur]) => StreamWhole(r)
  BY <1>1, ClosingFacts, StreamSame
<1>4. f \in Functors /\ Queueable(f)
  BY <1>1 DEF Functors, Queueable, InUse
<1>5. \A c : f = [op |-> "destroy", conn |-> c] <=> c = cur
  OBVIOUS
<1> HIDE DEF r, f
<1>6. /\ conn' \in [Conns -> Connection]
      /\ conn'[cur] = r
      /\ \A c \in Conns \ {cur} : conn'[c] = conn[c]
  BY <1>1, <1>2, <1>3 DEF IInv, TypeOK
<1>7. InUseKept
  BY <1>3, <1>6 DEF InUseKept
<1>8. /\ pending' \in Seq(Functors)
      /\ QueueInv'
      /\ \A c : DestroyFunctors(c) \in Nat /\ DestroyFunctors(c)' =
                 DestroyFunctors(c) + IF f = [op |-> "destroy", conn |-> c] THEN 1 ELSE 0
  BY <1>2, <1>4, <1>7, QueuePushed
<1>9. /\ EventsLeft /\ DOMAIN active' = DOMAIN active
      /\ active' \in [DOMAIN active' -> SUBSET {"in", "out", "hup"}]
      /\ active'[cur] = active[cur] \ {ev}
      /\ \A c \in DOMAIN active \ {cur} : active'[c] = active[c]
  BY <1>1, <1>2, EventHandled, ActiveFacts DEF Handled
<1>10. \A c \in Conns : /\ Registered(c)' <=> Registered(c)
                        /\ ~GoingDown(c) /\ ~GoingDown(c)'
  BY <1>1, <1>2, <1>3, <1>6 DEF Registered, GoingDown
<1>11. DestroyedOnce'
  <2> SUFFICES ASSUME NEW c \in Conns
               PROVE  DestroyFunctors(c)' =
                         IF Registered(c)' /\ c \notin connMap' /\ ~GoingDown(c)' THEN 1 ELSE 0
    BY DEF DestroyedOnce, GoingDown
  <2>1. DestroyFunctors(c) =
           IF Registered(c) /\ c \notin connMap /\ ~GoingDown(c) THEN 1 ELSE 0
    BY DEF IInv, DestroyedOnce, GoingDown
  <2>2. CASE c = cur
    <3>1. DestroyFunctors(c) = 0
      BY <1>1, <2>1, <2>2
    <3>2. DestroyFunctors(c)' = 1
      BY <1>5, <1>8, <2>2, <3>1
    <3> QED
      BY <1>1, <1>2, <1>10, <2>2, <3>2
  <2>3. CASE c # cur
    <3>1. DestroyFunctors(c)' = DestroyFunctors(c)
      BY <1>5, <1>8, <2>3
    <3> QED
      BY <1>2, <1>10, <2>1, <2>3, <3>1
  <2> QED
    BY <2>2, <2>3
<1>12. ASSUME NEW c \in Conns
       PROVE  Lifetime(c)'
  <2>1. Lifetime(c)
    BY DEF IInv
  <2>2. CASE c = cur
    <3>1. "hup" \notin active'[c] /\ active'[c] \cap {"in", "hup"} = {}
      BY <1>1, <1>9, <2>2, ActiveFacts
    <3>2. /\ conn'[c].state \in {"eConnected", "eDisconnecting"} /\ conn'[c].poll = "muted"
          /\ Registered(c)' /\ ~GoingDown(c)' /\ c \notin connMap' /\ c \notin backlog'
          /\ conn'[c].heard \in {"up", "message"} /\ StreamWhole(conn'[c])
      <4>1. /\ c \notin backlog /\ conn[c].heard \in {"up", "message"}
            /\ StreamWhole(conn[c])
        BY <1>1, <1>10, <2>1, <2>2 DEF Lifetime
      <4> QED
        BY <1>1, <1>2, <1>3, <1>6, <1>10, <2>2, <4>1 DEF acceptor
    <3> QED
      BY <3>1, <3>2 DEF Lifetime
  <2>3. CASE c # cur
    <3>1. /\ conn'[c] = conn[c] /\ (c \in connMap' <=> c \in connMap)
          /\ (c \in DOMAIN active' => c \in DOMAIN active /\ active'[c] = active[c])
          /\ (c \in backlog' <=> c \in backlog) /\ done' = done /\ pc' = pc
      BY <1>2, <1>6, <1>9, <2>3 DEF acceptor
    <3> QED
      BY <1>10, <2>1, <3>1 DEF Lifetime
  <2> QED
    BY <2>2, <2>3
<1>13. CallInv'
  BY <1>2, <1>7, CallsKept DEF userVars
<1>14. TypeOK' /\ OtherAssertsHold'
  BY <1>2, <1>6, <1>8, <1>9 DEF IInv, TypeOK, OtherAssertsHold, acceptor, userVars
<1>15. Places'
  BY <1>2, <1>9 DEF IInv, Places
<1>16. HeardInOrder /\ SentKept
  BY <1>3, <1>6 DEF HeardInOrder, SentKept
<1> QED
  BY <1>8, <1>11, <1>12, <1>13, <1>14, <1>15, <1>16 DEF IInv

(* The two events that close a connection. *)
LEMMA ClosesStep ==
    ASSUME IInv, HandleHangup \/ ReadEnd
    PROVE  IInv' /\ HeardInOrder /\ SentKept
BY HandleCloseStep DEF HandleHangup, ReadEnd

(* ConnectDestroyed. *)
LEMMA DownFacts ==
    ASSUME NEW k \in Connection, k.poll # "new"
    PROVE  /\ Down(k) \in Connection
           /\ Down(k).state = "eDisconnected" /\ Down(k).poll = "muted" /\ Down(k).events = {}
           /\ Down(k).heard = "down" /\ Down(k).fd = k.fd
           /\ Down(k).out = k.out /\ Down(k).wire = k.wire /\ Down(k).sent = k.sent
<1> DEFINE d == [k EXCEPT !.state = "eDisconnected"]
           a == Asked(d, {})
<1>1. /\ d \in Connection /\ d.state = "eDisconnected" /\ d.poll = k.poll /\ d.fd = k.fd
      /\ d.out = k.out /\ d.wire = k.wire /\ d.sent = k.sent
  BY DEF Connection, States
<1> HIDE DEF d
<1>2. /\ a \in Connection /\ a.state = "eDisconnected" /\ a.poll = "muted" /\ a.events = {}
      /\ a.fd = k.fd
      /\ a.out = k.out /\ a.wire = k.wire /\ a.sent = k.sent
  BY <1>1, AskedFacts
<1> HIDE DEF a
<1>3. Down(k) = Told(a)
  BY DEF Down, a, d
<1> QED
  BY <1>2, <1>3 DEF Told, Connection, IsConnected

(* ConnectDestroyed runs for a connection that is registered, has left the map
   and was up. *)
LEMMA DestroyedIsRegistered ==
    ASSUME IInv, RunDestroy, NEW c, c = Head(batch).conn
    PROVE  /\ c \in Conns /\ conn[c] \in Connection
           /\ Registered(c) /\ c \notin connMap /\ ~GoingDown(c)
           /\ conn[c].state \in {"eConnected", "eDisconnecting"}
<1> DEFINE f == [op |-> "destroy", conn |-> c]
<1>1. pc = "functors" /\ batch # <<>> /\ Head(batch).op = "destroy"
  BY DEF RunDestroy, NextFunctor
<1>2. /\ c \in Conns /\ conn[c].poll # "new" /\ conn[c] \in Connection
      /\ Head(batch) = f
  BY <1>1, NextFunctorFacts DEF IInv, TypeOK
<1>3. Destroys(batch, c) # 0 /\ Destroys(batch, c) \in Nat /\ Destroys(pending, c) \in Nat
  <2>1. /\ Destroys(batch, c) = Destroys(Tail(batch), c) + 1
        /\ Destroys(Tail(batch), c) \in Nat
    BY <1>1, <1>2, QueueTypes, DestroysTail, PositionsFinite, HeadTailProperties
  <2> QED
    BY <2>1, QueueTypes, PositionsFinite
<1>4. Registered(c) /\ c \notin connMap /\ ~GoingDown(c)
  BY <1>1, <1>2, <1>3 DEF IInv, DestroyedOnce, DestroyFunctors, GoingDown
<1> QED
  BY <1>2, <1>4 DEF IInv, Lifetime

(* ConnectDestroyed begins. *)
LEMMA RunDestroyStep ==
    ASSUME IInv, RunDestroy
    PROVE  IInv' /\ HeardInOrder /\ SentKept
<1> DEFINE c == Head(batch).conn
           r == Down(conn[c])
           f == [op |-> "destroy", conn |-> c]
<1>1. pc = "functors" /\ batch # <<>> /\ Head(batch).op = "destroy"
  BY DEF RunDestroy, NextFunctor
<1>2. /\ c \in Conns /\ conn[c].poll # "new" /\ conn[c] \in Connection
      /\ Head(batch) = f
  BY <1>1, NextFunctorFacts DEF IInv, TypeOK
<1>4. Registered(c) /\ c \notin connMap /\ ~GoingDown(c)
  BY DestroyedIsRegistered
<1>5. /\ conn[c].state \in {"eConnected", "eDisconnecting"} /\ c \notin backlog
      /\ conn[c].heard \in {"up", "message"} /\ StreamWhole(conn[c])
  BY <1>2, <1>4 DEF IInv, Lifetime
<1>6. /\ conn' = [conn EXCEPT ![c] = r]
      /\ batch' = Tail(batch)
      /\ done' = done \cup {c}
      /\ cur' = c
      /\ pc' = "down"
      /\ UNCHANGED <<acceptor, connMap, active, pending, userVars, failed>>
  BY <1>5 DEF RunDestroy, Assert_, Set
<1>7. /\ r \in Connection
      /\ r.state = "eDisconnected" /\ r.poll = "muted" /\ r.events = {}
      /\ r.heard = "down" /\ r.sent = conn[c].sent /\ StreamWhole(r)
  BY <1>2, <1>5, DownFacts, StreamSame
<1>8. \A d : f = [op |-> "destroy", conn |-> d] <=> d = c
  OBVIOUS
<1> HIDE DEF c, r, f
<1>9. /\ conn' \in [Conns -> Connection]
      /\ conn'[c] = r
      /\ \A d \in Conns \ {c} : conn'[d] = conn[d]
  BY <1>2, <1>6, <1>7 DEF IInv, TypeOK
<1>10. InUseKept
  BY <1>7, <1>9 DEF InUseKept
<1>11. /\ batch' \in Seq(Functors)
       /\ QueueInv'
       /\ \A d : DestroyFunctors(d)' =
                    DestroyFunctors(d) - IF f = [op |-> "destroy", conn |-> d] THEN 1 ELSE 0
  BY <1>1, <1>2, <1>6, <1>10, QueuePopped
<1>12. \A d \in Conns : /\ Registered(d)' <=> Registered(d)
                        /\ GoingDown(d)' <=> d = c
                        /\ ~GoingDown(d)
  BY <1>1, <1>4, <1>6, <1>7, <1>9 DEF Registered, GoingDown
<1>13. DestroyedOnce'
  <2> SUFFICES ASSUME NEW d \in Conns
               PROVE  DestroyFunctors(d)' =
                         IF Registered(d)' /\ d \notin connMap' /\ ~GoingDown(d)' THEN 1 ELSE 0
    BY DEF DestroyedOnce, GoingDown
  <2>1. DestroyFunctors(d) =
           IF Registered(d) /\ d \notin connMap /\ ~GoingDown(d) THEN 1 ELSE 0
    BY <1>1 DEF IInv, DestroyedOnce, GoingDown
  <2>2. CASE d = c
    BY <1>4, <1>8, <1>11, <1>12, <2>1, <2>2
  <2>3. CASE d # c
    <3>1. DestroyFunctors(d)' = DestroyFunctors(d)
      BY <1>8, <1>11, <2>1, <2>3
    <3> QED
      BY <1>6, <1>12, <2>1, <2>3, <3>1
  <2> QED
    BY <2>2, <2>3
<1>14. ASSUME NEW d \in Conns
       PROVE  Lifetime(d)'
  <2>1. Lifetime(d) /\ d \notin DOMAIN active
    BY <1>1 DEF IInv, Places
  <2>2. CASE d = c
    <3>1. /\ conn'[d].state = "eDisconnected" /\ conn'[d].poll = "muted" /\ conn'[d].events = {}
          /\ conn'[d].heard = "down" /\ StreamWhole(conn'[d])
          /\ d \in done' /\ GoingDown(d)' /\ d \notin connMap' /\ d \notin backlog'
          /\ d \notin DOMAIN active'
      BY <1>4, <1>5, <1>6, <1>7, <1>9, <1>12, <2>1, <2>2 DEF acceptor
    <3> QED
      BY <3>1 DEF Lifetime
  <2>3. CASE d # c
    <3>1. /\ conn'[d] = conn[d] /\ connMap' = connMap /\ active' = active /\ backlog' = backlog
          /\ pc # "gone" /\ pc' # "gone"
      BY <1>1, <1>6, <1>9, <2>3 DEF acceptor
    <3> QED
      BY <1>12, <2>1, <2>3, <3>1 DEF Lifetime
  <2> QED
    BY <2>2, <2>3
<1>15. CallInv'
  BY <1>6, <1>10, CallsKept DEF userVars
<1>16. TypeOK' /\ OtherAssertsHold'
  BY <1>2, <1>6, <1>9, <1>11 DEF IInv, TypeOK, OtherAssertsHold, acceptor, userVars
<1>17. Places'
  BY <1>1, <1>2, <1>6 DEF IInv, Places
<1>18. HeardInOrder /\ SentKept
  BY <1>5, <1>7, <1>9 DEF HeardInOrder, SentKept
<1> QED
  BY <1>11, <1>13, <1>14, <1>15, <1>16, <1>17, <1>18 DEF IInv

(* ConnectDestroyed ends: the channel leaves the poller. *)
LEMMA DownReturnsStep ==
    ASSUME IInv, DownReturns
    PROVE  IInv' /\ HeardInOrder /\ SentKept
<1>0. PICK c \in Conns : c = cur
  BY DEF DownReturns, IInv, Places
<1> DEFINE r == Removed(conn[c])
<1>1. pc = "down" /\ GoingDown(c)
  BY <1>0 DEF DownReturns, IInv, Places, GoingDown
<1>2. /\ conn[c] \in Connection
      /\ conn[c].poll = "muted" /\ conn[c].events = {}
      /\ conn[c].state # "eConnected" /\ conn[c].state # "none"
      /\ c \notin connMap /\ c \notin backlog
      /\ conn[c].heard \notin {"nothing", "up", "message"} /\ StreamWhole(conn[c])
  BY <1>1 DEF IInv, TypeOK, Lifetime
<1>3. /\ conn' = [conn EXCEPT ![c] = r]
      /\ cur' = NoConn
      /\ pc' = "functors"
      /\ UNCHANGED <<acceptor, connMap, active, batch, done, pending, userVars, failed>>
  BY <1>0, <1>2 DEF DownReturns, Assert_, Set
<1>4. /\ r \in Connection /\ r.state = conn[c].state /\ r.poll = "removed"
      /\ r.heard = conn[c].heard /\ r.sent = conn[c].sent /\ StreamWhole(r)
  <2>1. /\ r \in Connection /\ r.state = conn[c].state /\ r.poll = "removed"
        /\ r.heard = conn[c].heard /\ r.sent = conn[c].sent
        /\ r.wire = conn[c].wire /\ r.out = conn[c].out
    BY <1>2 DEF Removed, Connection, Polling
  <2> QED
    BY <1>2, <2>1, StreamSame
<1> HIDE DEF r
<1>5. /\ conn' \in [Conns -> Connection]
      /\ conn'[c] = r
      /\ \A d \in Conns \ {c} : conn'[d] = conn[d]
  BY <1>1, <1>3, <1>4 DEF IInv, TypeOK
<1>6. InUseKept
  BY <1>4, <1>5 DEF InUseKept
<1>7. QueueInv' /\ CallInv' /\ \A d : DestroyFunctors(d)' = DestroyFunctors(d)
  BY <1>3, <1>6, QueueKept, CallsKept DEF userVars
<1>8. /\ \A d \in Conns : GoingDown(d) <=> d = c
      /\ \A d \in Conns : ~GoingDown(d)'
      /\ ~Registered(c)'
      /\ \A d \in Conns \ {c} : Registered(d)' <=> Registered(d)
  BY <1>0, <1>1, <1>3, <1>4, <1>5 DEF Registered, GoingDown
<1>9. DestroyedOnce'
  <2> SUFFICES ASSUME NEW d \in Conns
               PROVE  DestroyFunctors(d)' =
                         IF Registered(d)' /\ d \notin connMap' /\ ~GoingDown(d)' THEN 1 ELSE 0
    BY DEF DestroyedOnce, GoingDown
  <2>1. DestroyFunctors(d) =
           IF Registered(d) /\ d \notin connMap /\ ~GoingDown(d) THEN 1 ELSE 0
    BY <1>1 DEF IInv, DestroyedOnce, GoingDown
  <2> QED
    BY <1>3, <1>7, <1>8, <2>1
<1>10. ASSUME NEW d \in Conns
       PROVE  Lifetime(d)'
  <2>1. Lifetime(d) /\ d \notin DOMAIN active
    BY <1>1 DEF IInv, Places
  <2>2. CASE d = c
    <3>1. /\ conn'[d].state \notin {"eConnected", "none"} /\ conn'[d].poll = "removed"
          /\ conn'[d].heard \notin {"nothing", "up", "message"} /\ StreamWhole(conn'[d])
          /\ ~Registered(d)' /\ ~GoingDown(d)' /\ d \notin connMap' /\ d \notin backlog'
          /\ d \notin DOMAIN active'
      BY <1>2, <1>3, <1>4, <1>5, <1>8, <2>1, <2>2 DEF acceptor
    <3> QED
      BY <3>1 DEF Lifetime
  <2>3. CASE d # c
    <3>1. /\ conn'[d] = conn[d] /\ connMap' = connMap /\ active' = active /\ backlog' = backlog
          /\ pc # "gone" /\ pc' # "gone" /\ ~GoingDown(d) /\ ~GoingDown(d)'
      BY <1>1, <1>3, <1>5, <1>8, <2>3 DEF acceptor
    <3> QED
      BY <1>8, <2>1, <2>3, <3>1 DEF Lifetime
  <2> QED
    BY <2>2, <2>3
<1>11. TypeOK' /\ OtherAssertsHold'
  BY <1>3, <1>5 DEF IInv, TypeOK, OtherAssertsHold, acceptor, userVars
<1>12. Places'
  BY <1>1, <1>3 DEF IInv, Places
<1>13. HeardInOrder /\ SentKept
  BY <1>4, <1>5 DEF HeardInOrder, SentKept
<1> QED
  BY <1>7, <1>9, <1>10, <1>11, <1>12, <1>13 DEF IInv

(* A new connection. *)
LEMMA EstablishedFacts ==
    ASSUME NEW fd \in Fds
    PROVE  LET r == Established(NewConnection(fd)) IN
           /\ r \in Connection
           /\ r.state = "eConnected" /\ r.poll = "polled" /\ r.heard = "up"
           /\ r.out = <<>> /\ r.wire = <<>> /\ r.sent = <<>>
           /\ r.fd = fd /\ r.events = {"in"}
<1> DEFINE k == NewConnection(fd)
           e == [k EXCEPT !.state = "eConnected"]
           a == Asked(e, k.events \cup {"in"})
<1>1. <<>> \in Seq(Part) /\ <<>> \in Seq(Messages)
  BY EmptySeq
<1>2. k \in Connection /\ k.events = {} /\ k.poll = "new" /\ k.out = <<>> /\ k.wire = <<>> /\ k.sent = <<>>
      /\ k.fd = fd
  BY <1>1 DEF NewConnection, Connection, States, Polling, Peers
<1> HIDE DEF k
<1>3. /\ e \in Connection /\ e.state = "eConnected" /\ e.poll = "new" /\ e.fd = fd
      /\ e.out = <<>> /\ e.wire = <<>> /\ e.sent = <<>>
  BY <1>2 DEF Connection, States
<1>4. k.events \cup {"in"} \in SUBSET {"in", "out"}
  BY <1>2
<1> HIDE DEF e
<1>5. /\ a \in Connection /\ a.state = "eConnected" /\ a.poll = "polled" /\ a.fd = fd
      /\ a.events = {"in"}
      /\ a.out = <<>> /\ a.wire = <<>> /\ a.sent = <<>>
  BY <1>2, <1>3, <1>4, AskedFacts
<1> HIDE DEF a
<1>6. Established(NewConnection(fd)) = Told(a)
  BY DEF Established, a, e, k
<1> QED
  BY <1>5, <1>6 DEF Told, Connection, IsConnected

(* CAcceptor accepts: a new connection is mapped and established. Its
   descriptor is in nobody's channel, which is where the lifetimes come in. *)
LEMMA AcceptConnectionStep ==
    ASSUME IInv, NEW c \in Conns, NEW fd \in Fds, AcceptConnection(c, fd)
    PROVE  IInv' /\ HeardInOrder /\ SentKept
<1> DEFINE r == Established(NewConnection(fd))
<1>1. pc = "dispatch" /\ c \in backlog
  BY DEF AcceptConnection
<1>2. CASE failed' = "UpdateChannel" /\ UNCHANGED <<conn, acceptor, connMap, loopVars, pending, userVars>>
  <2>1. IInv'
    BY <1>2, FailStep
  <2> QED
    BY <1>2, <2>1 DEF HeardInOrder, SentKept
<1>3. CASE /\ UNCHANGED failed
           /\ ServerNewConnection(c, fd)
           /\ accepting' = FALSE
           /\ backlog' = backlog \ {c}
           /\ UNCHANGED <<listening, reading>>
  <2>1. /\ conn' = [conn EXCEPT ![c] = r]
        /\ connMap' = connMap \cup {c}
        /\ cur' = c
        /\ pc' = "up"
        /\ UNCHANGED <<active, batch, done, pending, userVars, failed>>
        /\ backlog' = backlog \ {c}
        /\ accepting' = FALSE
        /\ UNCHANGED <<listening, reading>>
    BY <1>3 DEF ServerNewConnection, Set
  <2>2. /\ conn[c].poll = "new" /\ ~Registered(c) /\ c \notin DOMAIN active
        /\ conn[c].heard = "nothing"
    BY <1>1 DEF IInv, Lifetime, Registered
  <2>3. /\ r \in Connection /\ r.state = "eConnected" /\ r.poll = "polled"
        /\ r.heard = "up" /\ StreamWhole(r) /\ r.sent = <<>>
    <3>1. /\ r \in Connection /\ r.state = "eConnected" /\ r.poll = "polled"
          /\ r.heard = "up" /\ r.out = <<>> /\ r.wire = <<>> /\ r.sent = <<>>
      BY EstablishedFacts
    <3> QED
      BY <3>1, NothingSent
  <2> HIDE DEF r
  <2>4. /\ conn' \in [Conns -> Connection]
        /\ conn'[c] = r
        /\ \A d \in Conns \ {c} : conn'[d] = conn[d]
    BY <2>1, <2>3 DEF IInv, TypeOK
  <2>5. InUseKept
    BY <2>3, <2>4 DEF InUseKept
  <2>6. QueueInv' /\ CallInv' /\ \A d : DestroyFunctors(d)' = DestroyFunctors(d)
    BY <2>1, <2>5, QueueKept, CallsKept DEF userVars
  <2>7. /\ \A d \in Conns : ~GoingDown(d) /\ ~GoingDown(d)'
        /\ Registered(c)'
        /\ \A d \in Conns \ {c} : Registered(d)' <=> Registered(d)
    BY <1>1, <2>1, <2>3, <2>4 DEF Registered, GoingDown
  <2>8. DestroyedOnce'
    <3> SUFFICES ASSUME NEW d \in Conns
                 PROVE  DestroyFunctors(d)' =
                           IF Registered(d)' /\ d \notin connMap' /\ ~GoingDown(d)' THEN 1 ELSE 0
      BY DEF DestroyedOnce, GoingDown
    <3>1. DestroyFunctors(d) =
             IF Registered(d) /\ d \notin connMap /\ ~GoingDown(d) THEN 1 ELSE 0
      BY <1>1 DEF IInv, DestroyedOnce, GoingDown
    <3> QED
      BY <2>1, <2>2, <2>6, <2>7, <3>1
  <2>9. ASSUME NEW d \in Conns
        PROVE  Lifetime(d)'
    <3>1. Lifetime(d)
      BY DEF IInv
    <3>2. CASE d = c
      <4>1. /\ conn'[d].state = "eConnected" /\ conn'[d].poll = "polled"
            /\ conn'[d].heard = "up" /\ StreamWhole(conn'[d])
            /\ Registered(d)' /\ ~GoingDown(d)' /\ d \in connMap' /\ d \notin backlog'
            /\ d \notin DOMAIN active'
        BY <2>1, <2>2, <2>3, <2>4, <2>7, <3>2
      <4> QED
        BY <4>1 DEF Lifetime
    <3>3. CASE d # c
      <4>1. /\ conn'[d] = conn[d] /\ (d \in connMap' <=> d \in connMap) /\ active' = active
            /\ (d \in backlog' <=> d \in backlog)
            /\ pc # "gone" /\ pc' # "gone" /\ ~GoingDown(d) /\ ~GoingDown(d)'
        BY <1>1, <2>1, <2>4, <2>7, <3>3
      <4> QED
        BY <2>7, <3>1, <3>3, <4>1 DEF Lifetime
    <3> QED
      BY <3>2, <3>3
  <2>10. TypeOK' /\ OtherAssertsHold'
    BY <2>1, <2>4 DEF IInv, TypeOK, OtherAssertsHold, userVars
  <2>11. Places'
    BY <1>1, <2>1 DEF IInv, Places
  <2>12. HeardInOrder
    BY <2>2, <2>3, <2>4 DEF HeardInOrder
  <2>13. SentKept
    BY <2>2, <2>3, <2>4 DEF SentKept, IInv, Lifetime
  <2> QED
    BY <2>6, <2>8, <2>9, <2>10, <2>11, <2>12, <2>13 DEF IInv
<1> QED
  BY <1>2, <1>3 DEF AcceptConnection, Assert_

(* The initial state satisfies the invariant. *)
LEMMA InitialIInv == Init => IInv
<1> SUFFICES ASSUME Init PROVE IInv
  OBVIOUS
<1> USE DEF Init
<1>1. NoConnection \in Connection
  BY EmptySeq DEF NoConnection, NewConnection, Connection, States, Polling, Peers
<1>2. TypeOK
  <2>1. conn \in [Conns -> Connection]
    BY <1>1
  <2>2. pending \in Seq(Functors) /\ batch \in Seq(Functors)
    BY EmptySeq
  <2>3. DOMAIN active = {} /\ active \in [DOMAIN active -> SUBSET {"in", "out", "hup"}]
    OBVIOUS
  <2>4. call \in [Threads -> Calls]
    BY DEF Calls
  <2>5. sends \in 0..MaxSends
    BY MaxSendsNat
  <2>6. DOMAIN active \subseteq Conns
    BY <2>3
  <2>7. cur \in Conns \cup {NoConn}
    OBVIOUS
  <2> QED
    BY <2>1, <2>2, <2>3, <2>4, <2>5, <2>6, <2>7 DEF TypeOK
<1>3. Places
  BY DEF Places
<1>4. \A c \in Conns : Lifetime(c)
  <2>1. /\ NoConnection.state = "none" /\ NoConnection.poll = "new"
        /\ NoConnection.heard = "nothing" /\ NoConnection.sent = <<>>
        /\ NoConnection.wire = <<>> /\ NoConnection.out = <<>>
    BY DEF NoConnection, NewConnection
  <2>2. StreamWhole(NoConnection)
    BY <2>1, NothingSent
  <2> QED
    BY <2>1, <2>2 DEF Lifetime, Registered, GoingDown
<1>5. QueueInv /\ CallInv
  BY DEF QueueInv, CallInv, InUse, Idle
<1>6. DestroyedOnce
  BY DestroysNone DEF DestroyedOnce, DestroyFunctors, Registered, NoConnection, NewConnection
<1>7. OtherAssertsHold
  BY DEF OtherAssertsHold
<1> QED
  BY <1>2, <1>3, <1>4, <1>5, <1>6, <1>7 DEF IInv

(* The actions by what they do to the connections. *)
Quiet ==
    \/ StartLoop \/ LeaveLoop \/ DestroyServer \/ StartOwner \/ Hold
    \/ Poll \/ EndEvent \/ BeginPendingFunctors \/ EndPendingFunctors
    \/ AcceptFails \/ UpReturns \/ MessageReturns \/ RunListen
    \/ \E c \in Conns : BeginEvent(c) \/ Release(c) \/ PeerConnects(c) \/ PeerGivesUp(c)
    \/ \E t \in Threads : StartThread(t) \/ CallQueues(t)
    \/ \E t \in Threads, c \in Conns : SendChecks(t, c) \/ ShutDownChecks(t, c)

Changing ==
    \/ DownReturns \/ HandleHangup \/ ReadMessage \/ ReadError \/ ReadEnd \/ WriteEvent
    \/ RunDestroy \/ RunShutdown
    \/ \E c \in Conns, fd \in Fds : AcceptConnection(c, fd)
    \/ \E c \in Conns : \/ ShutDownOwner(c)
                        \/ PeerSends(c) \/ PeerFinishes(c) \/ PeerResets(c) \/ PeerReads(c)
    \/ \E t \in Threads : ShutDownSetsState(t)

(* The steps that give a message to a connection. *)
Sending == RunSend \/ \E c \in Conns : SendOwner(c)

(* Every action is of one kind. *)
LEMMA KindsOfSteps == Next => Quiet \/ Changing \/ Sending
BY DEF Next, LoopStep, OwnerStep, ThreadStep, PeerStep, Quiet, Changing, Sending

(* Quiet steps keep the invariant and the connections. *)
LEMMA QuietKeeps ==
    ASSUME IInv, Quiet
    PROVE  IInv' /\ UNCHANGED conn
<1>1. IInv'
  BY MovesOnStep, DestroyServerStep, QuietStep, PollStep, EndEventStep, BeginPendingFunctorsStep,
     RunListenStep, StartThreadStep, CallQueuesStep, ChecksStep DEF Quiet
<1>2. UNCHANGED conn
  BY DEF Quiet, StartLoop, LeaveLoop, DestroyServer, StartOwner, Hold, Poll, EndEvent,
         BeginPendingFunctors, EndPendingFunctors, AcceptFails, UpReturns, MessageReturns,
         RunListen, BeginEvent, Release, PeerConnects, PeerGivesUp, StartThread, CallQueues,
         SendChecks, ShutDownChecks
<1> QED
  BY <1>1, <1>2

(* Changing steps keep the invariant, the order of the callbacks and what was
   sent. *)
LEMMA ChangingKeeps ==
    ASSUME IInv, Changing
    PROVE  IInv' /\ HeardInOrder /\ SentKept
BY DownReturnsStep, ClosesStep, ReadMessageStep, ReadErrorStep, WriteEventStep, RunDestroyStep,
   RunShutdownStep, AcceptConnectionStep, ShutDownOwnerStep, PeerTouches, ShutDownSetsStateStep
   DEF Changing

(* Sending steps keep the invariant and the order of the callbacks. *)
LEMMA SendingKeeps ==
    ASSUME IInv, Sending
    PROVE  IInv' /\ HeardInOrder
BY RunSendStep, SendOwnerStep DEF Sending

(* So does a step of nobody. *)
LEMMA StutterKeeps ==
    ASSUME IInv, UNCHANGED vars
    PROVE  IInv'
<1>1. UNCHANGED <<conn, acceptor, connMap, loopVars, pending, batch, userVars, call, failed>>
  BY DEF vars, loopVars, userVars
<1>2. TypeOK' /\ OtherAssertsHold'
  BY <1>1 DEF IInv, TypeOK, OtherAssertsHold, acceptor, loopVars, userVars
<1>3. \A c \in backlog' : conn[c].state = "none"
  BY <1>1 DEF IInv, TypeOK, Lifetime, acceptor
<1> QED
  BY <1>1, <1>2, <1>3, LoopIdle, QueueKept, CallsKept DEF IInv

(* The invariant is inductive, and no step calls back out of order. *)
LEMMA IInvIsInductive ==
    ASSUME IInv, [Next]_vars
    PROVE  IInv' /\ HeardInOrder
<1>1. CASE Quiet
  BY <1>1, QuietKeeps DEF HeardInOrder
<1>2. CASE Changing
  BY <1>2, ChangingKeeps
<1>3. CASE Sending
  BY <1>3, SendingKeeps
<1>4. CASE UNCHANGED vars
  <2>1. UNCHANGED conn
    BY <1>4 DEF vars
  <2> QED
    BY <1>4, <2>1, StutterKeeps DEF HeardInOrder
<1> QED
  BY <1>1, <1>2, <1>3, <1>4, KindsOfSteps

(* Every reachable state satisfies the inductive invariant: the loop is where
   its locals say (CEventLoop.cpp:71), the members of each connection agree with
   each other and with the map, and queued work is about connections that exist. *)
THEOREM Invariance == Spec => []IInv
<1>1. Init => IInv
  BY InitialIInv
<1>2. IInv /\ [Next]_vars => IInv'
  BY IInvIsInductive
<1> QED
  BY <1>1, <1>2, PTL DEF Spec

(* Type correctness: the members of the server, its acceptor, its connections
   and its loop keep their types, however many connections and threads there
   are. *)
THEOREM TypeCorrect == Spec => []TypeOK
<1>1. IInv => TypeOK
  BY DEF IInv
<1> QED
  BY <1>1, Invariance, PTL

(* A registered channel has an owner: the map, a functor that waits, or
   ConnectDestroyed itself. *)
LEMMA RegisteredIsAlive ==
    ASSUME IInv, pc # "gone", NEW c \in Conns, Registered(c)
    PROVE  Alive(c)
<1>1. CASE c \in connMap \/ GoingDown(c)
  BY <1>1 DEF IInv, Lifetime, Alive
<1>2. CASE c \notin connMap /\ ~GoingDown(c)
  <2>1. DestroyFunctors(c) = 1
    BY <1>2 DEF IInv, DestroyedOnce, GoingDown
  <2>2. Destroys(pending, c) # 0 \/ Destroys(batch, c) # 0
    BY <2>1 DEF DestroyFunctors
  <2>3. \/ \E i \in DOMAIN pending : pending[i] = [op |-> "destroy", conn |-> c]
        \/ \E i \in DOMAIN batch : batch[i] = [op |-> "destroy", conn |-> c]
    BY <2>2, QueueTypes, DestroysSome
  <2>4. [op |-> "destroy", conn |-> c] \in Queued
    BY <2>3 DEF Queued
  <2> QED
    BY <2>4 DEF Alive
<1> QED
  BY <1>1, <1>2

(* The raw CChannel pointers of the poller and of m_activeChannels
   (CPoller.cpp:58, CEventLoop.cpp:84) belong to live connections as long as the
   server does: HandleEvent never runs on a destroyed object. *)
THEOREM ChannelsDoNotDangle == Spec => []NoDanglingChannel
<1>1. IInv => NoDanglingChannel
  <2> SUFFICES ASSUME IInv PROVE NoDanglingChannel
    OBVIOUS
  <2>1. pc # "gone" => \A c \in Conns : Registered(c) => Alive(c)
    BY RegisteredIsAlive
  <2>2. \A c \in DOMAIN active : Registered(c)
    BY ActiveFacts
  <2>3. pc \in {"event", "message"} => Registered(cur)
    BY CurrentEvent
  <2> QED
    BY <2>1, <2>2, <2>3 DEF NoDanglingChannel
<1> QED
  BY <1>1, Invariance, PTL

(* A connection that has left the map has exactly one ConnectDestroyed waiting
   until that runs, and one in the map has none (CTcpServer.cpp:78): no close is
   handled twice and none is lost. *)
THEOREM ConnectionsDestroyedOnce == Spec => []DestroyedOnce
<1>1. IInv => DestroyedOnce
  BY DEF IInv
<1> QED
  BY <1>1, Invariance, PTL

(* Of the asserts in the loop thread only CPoller::UpdateChannel's can fail
   (CPoller.cpp:63): those of ConnectDestroyed, RemoveChannel, HandleClose and
   of a reused descriptor never do. *)
THEOREM OtherAssertsNeverFail == Spec => []OtherAssertsHold
<1>1. IInv => OtherAssertsHold
  BY DEF IInv
<1> QED
  BY <1>1, Invariance, PTL

(* The user hears of a connection up, then of messages, then down, once each
   for up and down and nothing after (CTcpConnection.cpp:87, 96). *)
THEOREM CallbacksInOrder == Spec => CallbackOrder
<1>1. IInv /\ [Next]_vars => HeardInOrder
  BY IInvIsInductive
<1> QED
  BY <1>1, Invariance, PTL DEF Spec, CallbackOrder, HeardInOrder

(* The only assert that can fail first is the one a late send runs into. *)
LEMMA OnlyLateSendsFail ==
    ASSUME IInv, [Next]_vars, failed = "none", failed' # "none"
    PROVE  RunSend
<1>1. ASSUME NEW c \in Conns, NEW fd \in Fds, AcceptConnection(c, fd)
      PROVE  FALSE
  <2>1. /\ pc = "dispatch" /\ fd \in FreeFds
        /\ ~(\A d \in Conns : conn[d].poll \in {"polled", "muted"} => conn[d].fd # fd)
    BY <1>1 DEF AcceptConnection, Assert_
  <2>2. PICK d \in Conns : Registered(d) /\ conn[d].fd = fd
    BY <2>1 DEF Registered
  <2>3. Alive(d)
    BY <2>1, <2>2, RegisteredIsAlive
  <2> QED
    BY <2>1, <2>2, <2>3 DEF FreeFds
<1>2. ASSUME NEW c \in Conns, SendOwner(c)
      PROVE  FALSE
  <2>1. conn[c].state = "eConnected" /\ \E r : Unknown(conn[c], r)
    BY <1>2 DEF SendOwner, Assert_
  <2>2. Registered(c)
    BY <2>1 DEF IInv, Lifetime
  <2> QED
    BY <2>1, <2>2 DEF Unknown, Registered
<1>3. failed' = "UpdateChannel"
  BY IInvIsInductive DEF IInv, OtherAssertsHold
<1>4. CASE Quiet
  BY <1>4 DEF Quiet, StartLoop, LeaveLoop, DestroyServer, StartOwner, Hold, Poll, EndEvent,
         BeginPendingFunctors, EndPendingFunctors, AcceptFails, UpReturns, MessageReturns,
         RunListen, BeginEvent, Release, PeerConnects, PeerGivesUp, StartThread, CallQueues,
         SendChecks, ShutDownChecks
<1>5. CASE Changing
  BY <1>1, <1>3, <1>5 DEF Changing, DownReturns, HandleHangup, ReadMessage, ReadError, ReadEnd,
         WriteEvent, RunDestroy, RunShutdown, ShutDownOwner, PeerSends, PeerFinishes, PeerResets,
         PeerReads, Peer, ShutDownSetsState, HandleClose, Assert_
<1>6. CASE Sending
  BY <1>2, <1>6 DEF Sending
<1>7. CASE UNCHANGED vars
  BY <1>7 DEF vars
<1> QED
  BY <1>4, <1>5, <1>6, <1>7, KindsOfSteps

(* A server that only its own thread uses never fails an assert: the failure
   that the late send of another thread can cause needs that other thread. *)
THEOREM AssertsHoldInOneThread ==
    ASSUME Threads = {}
    PROVE  Spec => []AssertsHold
<1>1. Init => AssertsHold
  BY DEF Init, AssertsHold
<1>2. IInv /\ AssertsHold /\ [Next]_vars => AssertsHold'
  <2> SUFFICES ASSUME IInv, AssertsHold, [Next]_vars, ~AssertsHold'
               PROVE  FALSE
    OBVIOUS
  <2>1. RunSend
    BY OnlyLateSendsFail DEF AssertsHold
  <2>2. batch # <<>> /\ Head(batch).op = "send"
    BY <2>1 DEF RunSend, NextFunctor
  <2>3. Head(batch).msg.by \in Threads
    BY <2>2, NextFunctorFacts DEF Queueable
  <2> QED
    BY <2>3
<1> QED
  BY <1>1, <1>2, Invariance, PTL DEF Spec
-----------------------------------------------------------------------------
(* m comes before n in what one thread sends; f is a functor or a call. *)
Before(m, n) == m.by = n.by => m.id < n.id
Follows(f, m) == f.op = "send" => Before(m, f.msg)
(* g comes after f, if both send for one thread. *)
InOrder(f, g) == f.op = "send" => Follows(g, f.msg)
(* The number of the message was given out. *)
Numbered(f) == f.op = "send" => f.msg.id <= sends

(* What c was given precedes, thread by thread, what is still on its way. *)
SentOrder(c) ==
    \A i \in DOMAIN conn[c].sent :
        /\ conn[c].sent[i].id <= sends
        /\ \A j \in DOMAIN conn[c].sent : i < j => Before(conn[c].sent[i], conn[c].sent[j])
        /\ \A j \in DOMAIN batch : Follows(batch[j], conn[c].sent[i])
        /\ \A j \in DOMAIN pending : Follows(pending[j], conn[c].sent[i])
        /\ \A t \in Threads : Follows(call[t], conn[c].sent[i])

(* The batch is in order and precedes the queue and the calls. *)
BatchOrder ==
    \A i \in DOMAIN batch :
        /\ Numbered(batch[i])
        /\ \A j \in DOMAIN batch : i < j => InOrder(batch[i], batch[j])
        /\ \A j \in DOMAIN pending : InOrder(batch[i], pending[j])
        /\ \A t \in Threads : InOrder(batch[i], call[t])

(* The queue is in order and precedes the calls. *)
PendingOrder ==
    \A i \in DOMAIN pending :
        /\ Numbered(pending[i])
        /\ \A j \in DOMAIN pending : i < j => InOrder(pending[i], pending[j])
        /\ \A t \in Threads : InOrder(pending[i], call[t])

(* The messages of calls are numbered. *)
CallOrder == \A t \in Threads : Numbered(call[t])

(* Messages of one thread are numbered in the order in which they go from its
   call through the queue to the connection. *)
OrderInv ==
    /\ \A c \in Conns : SentOrder(c)
    /\ BatchOrder
    /\ PendingOrder
    /\ CallOrder

(* Sends are counted in numbers. *)
LEMMA SendsType == IInv => sends \in Nat
BY MaxSendsNat DEF IInv, TypeOK

(* The messages given to a connection, and their types. *)
LEMMA SentType ==
    ASSUME IInv, NEW c \in Conns
    PROVE  /\ conn[c] \in Connection
           /\ conn[c].sent \in Seq(Messages) /\ Len(conn[c].sent) \in Nat
           /\ DOMAIN conn[c].sent = 1..Len(conn[c].sent)
           /\ \A i \in DOMAIN conn[c].sent : conn[c].sent[i] \in Messages
<1>1. conn[c] \in Connection
  BY DEF IInv, TypeOK
<1>2. /\ conn[c].sent \in Seq(Messages) /\ Len(conn[c].sent) \in Nat
      /\ DOMAIN conn[c].sent = 1..Len(conn[c].sent)
  BY <1>1, StreamType
<1> QED
  BY <1>1, <1>2, ElementOfSeq

(* Nothing sent or queued, and every call the same or over. *)
LEMMA OrderKept ==
    ASSUME OrderInv, SentKept, UNCHANGED <<pending, batch, sends>>,
           \A t \in Threads : call'[t] = call[t] \/ call'[t].op # "send"
    PROVE  OrderInv'
<1>1. ASSUME NEW c \in Conns
      PROVE  SentOrder(c)'
  BY DEF OrderInv, SentOrder, SentKept, Follows, Before
<1>2. BatchOrder'
  BY DEF OrderInv, BatchOrder, InOrder, Follows, Numbered
<1>3. PendingOrder'
  BY DEF OrderInv, PendingOrder, InOrder, Follows, Numbered
<1>4. CallOrder'
  BY DEF OrderInv, CallOrder, Numbered
<1> QED
  BY <1>1, <1>2, <1>3, <1>4 DEF OrderInv

(* A functor is queued that comes after all of its thread's. *)
LEMMA OrderPushed ==
    ASSUME IInv, OrderInv, SentKept, UNCHANGED <<batch, sends>>,
           \A t \in Threads : call'[t] = call[t] \/ call'[t].op # "send",
           NEW f \in Functors, pending' = Append(pending, f),
           Numbered(f),
           \A c \in Conns : \A i \in DOMAIN conn[c].sent : Follows(f, conn[c].sent[i]),
           \A i \in DOMAIN batch : InOrder(batch[i], f),
           \A i \in DOMAIN pending : InOrder(pending[i], f),
           \A t \in Threads : InOrder(f, call'[t])
    PROVE  OrderInv'
<1> DEFINE n == Len(pending)
<1>1. /\ n \in Nat
      /\ DOMAIN pending = 1..n
      /\ DOMAIN pending' = 1..n + 1
      /\ \A i \in 1..n : pending'[i] = pending[i]
      /\ pending'[n + 1] = f
  BY QueueTypes, AppendProperties, LenProperties
<1> HIDE DEF n
<1>2. \A i \in DOMAIN pending' : \/ i \in DOMAIN pending /\ pending'[i] = pending[i]
                                 \/ i = n + 1 /\ pending'[i] = f
  BY <1>1
<1>3. ASSUME NEW c \in Conns
      PROVE  SentOrder(c)'
  <2> SUFFICES ASSUME NEW i \in DOMAIN conn[c].sent
               PROVE  /\ conn[c].sent[i].id <= sends
                      /\ \A j \in DOMAIN conn[c].sent : i < j => Before(conn[c].sent[i], conn[c].sent[j])
                      /\ \A j \in DOMAIN batch : Follows(batch[j], conn[c].sent[i])
                      /\ \A j \in DOMAIN pending' : Follows(pending'[j], conn[c].sent[i])
                      /\ \A t \in Threads : Follows(call'[t], conn[c].sent[i])
    BY DEF SentOrder, SentKept, Follows, Before
  <2> QED
    BY <1>2 DEF OrderInv, SentOrder, Follows
<1>4. BatchOrder'
  <2> SUFFICES ASSUME NEW i \in DOMAIN batch
               PROVE  /\ Numbered(batch[i])
                      /\ \A j \in DOMAIN batch : i < j => InOrder(batch[i], batch[j])
                      /\ \A j \in DOMAIN pending' : InOrder(batch[i], pending'[j])
                      /\ \A t \in Threads : InOrder(batch[i], call'[t])
    BY DEF BatchOrder, Numbered, InOrder, Follows
  <2> QED
    BY <1>2 DEF OrderInv, BatchOrder, InOrder, Follows
<1>5. PendingOrder'
  <2> SUFFICES ASSUME NEW i \in DOMAIN pending'
               PROVE  /\ Numbered(pending'[i])
                      /\ \A j \in DOMAIN pending' : i < j => InOrder(pending'[i], pending'[j])
                      /\ \A t \in Threads : InOrder(pending'[i], call'[t])
    BY DEF PendingOrder, Numbered, InOrder, Follows
  <2>1. CASE i \in DOMAIN pending /\ pending'[i] = pending[i]
    <3>1. /\ Numbered(pending[i])
          /\ \A j \in DOMAIN pending : i < j => InOrder(pending[i], pending[j])
          /\ \A t \in Threads : InOrder(pending[i], call[t])
      BY <2>1 DEF OrderInv, PendingOrder
    <3>2. \A t \in Threads : InOrder(pending[i], call'[t])
      BY <3>1 DEF InOrder, Follows
    <3> QED
      BY <1>2, <2>1, <3>1, <3>2
  <2>2. CASE i = n + 1 /\ pending'[i] = f
    <3>1. \A j \in DOMAIN pending' : ~(i < j)
      BY <1>1, <2>2
    <3> QED
      BY <2>2, <3>1
  <2> QED
    BY <1>2, <2>1, <2>2
<1>6. CallOrder'
  BY DEF OrderInv, CallOrder, Numbered
<1> QED
  BY <1>3, <1>4, <1>5, <1>6 DEF OrderInv

(* What is left of the queue is in order. *)
LEMMA QueuePoppedInOrder ==
    ASSUME IInv, OrderInv, UNCHANGED <<pending, sends, call>>,
           batch # <<>>, batch' = Tail(batch)
    PROVE  /\ BatchOrder' /\ PendingOrder' /\ CallOrder'
           /\ \A i \in DOMAIN batch' : i + 1 \in DOMAIN batch /\ batch'[i] = batch[i + 1] /\ i \in Nat
<1>1. \A i \in DOMAIN batch' : i + 1 \in DOMAIN batch /\ batch'[i] = batch[i + 1] /\ i \in Nat
  BY QueueTypes, HeadTailProperties, LenProperties
<1>3. BatchOrder'
  <2> SUFFICES ASSUME NEW i \in DOMAIN batch'
               PROVE  /\ Numbered(batch'[i])
                      /\ \A j \in DOMAIN batch' : i < j => InOrder(batch'[i], batch'[j])
                      /\ \A j \in DOMAIN pending : InOrder(batch'[i], pending[j])
                      /\ \A t \in Threads : InOrder(batch'[i], call[t])
    BY DEF BatchOrder, Numbered, InOrder, Follows
  <2>1. i + 1 \in DOMAIN batch /\ batch'[i] = batch[i + 1] /\ i \in Nat
    BY <1>1
  <2>2. \A j \in DOMAIN batch' : i < j => i + 1 < j + 1
    BY <1>1, <2>1
  <2> QED
    BY <1>1, <2>1, <2>2 DEF OrderInv, BatchOrder
<1>4. PendingOrder'
  BY DEF OrderInv, PendingOrder, InOrder, Follows, Numbered
<1>5. CallOrder'
  BY DEF OrderInv, CallOrder, Numbered
<1> QED
  BY <1>1, <1>3, <1>4, <1>5

(* A functor is run that sends nothing. *)
LEMMA OrderPopped ==
    ASSUME IInv, OrderInv, SentKept, UNCHANGED <<pending, sends, call>>,
           batch # <<>>, batch' = Tail(batch)
    PROVE  OrderInv'
<1>1. ASSUME NEW c \in Conns
      PROVE  SentOrder(c)'
  BY QueuePoppedInOrder DEF OrderInv, SentOrder, SentKept, Follows, Before
<1> QED
  BY <1>1, QueuePoppedInOrder DEF OrderInv

(* The queue becomes the batch, in its order. *)
LEMMA OrderOfBatch ==
    ASSUME IInv, OrderInv, SentKept, UNCHANGED <<sends, call>>,
           batch' = pending, pending' = <<>>
    PROVE  OrderInv'
<1>1. ASSUME NEW c \in Conns
      PROVE  SentOrder(c)'
  BY DEF OrderInv, SentOrder, SentKept, Follows, Before
<1>2. BatchOrder'
  BY DEF OrderInv, BatchOrder, PendingOrder, InOrder, Follows, Numbered
<1>3. PendingOrder'
  BY DEF PendingOrder
<1>4. CallOrder'
  BY DEF OrderInv, CallOrder, Numbered
<1> QED
  BY <1>1, <1>2, <1>3, <1>4 DEF OrderInv

(* Messages have numbers. *)
LEMMA MessageTypes ==
    ASSUME IInv
    PROVE  /\ \A f \in Calls : f.op = "send" => f.msg.id \in Nat
           /\ \A c \in Conns : \A i \in DOMAIN conn[c].sent : conn[c].sent[i].id \in Nat
           /\ sends \in Nat
<1>1. \A m \in Messages : m.id \in Nat
  BY MaxSendsNat DEF Messages
<1>2. \A f \in Calls : f.op = "send" => f.msg \in Messages
  BY DEF Calls, Functors, Idle
<1> QED
  BY <1>1, <1>2, SentType, SendsType

(* What SentOrder asks of the next state, in terms of the stream it will have. *)
LEMMA SentOrderOf ==
    ASSUME NEW d, NEW a, conn'[d].sent = a,
           \A i \in DOMAIN a :
               /\ a[i].id <= sends'
               /\ \A j \in DOMAIN a : i < j => Before(a[i], a[j])
               /\ \A j \in DOMAIN batch' : Follows(batch'[j], a[i])
               /\ \A j \in DOMAIN pending' : Follows(pending'[j], a[i])
               /\ \A t \in Threads : Follows(call'[t], a[i])
    PROVE  SentOrder(d)'
<1> SUFFICES ASSUME NEW i \in DOMAIN a
             PROVE  /\ a[i].id <= sends'
                    /\ \A j \in DOMAIN a : i < j => (a[i].by = a[j].by => a[i].id < a[j].id)
                    /\ \A j \in DOMAIN batch' :
                          batch'[j].op = "send" =>
                              (a[i].by = batch'[j].msg.by => a[i].id < batch'[j].msg.id)
                    /\ \A j \in DOMAIN pending' :
                          pending'[j].op = "send" =>
                              (a[i].by = pending'[j].msg.by => a[i].id < pending'[j].msg.id)
                    /\ \A t \in Threads :
                          call'[t].op = "send" =>
                              (a[i].by = call'[t].msg.by => a[i].id < call'[t].msg.id)
  BY Zenon DEF SentOrder, Follows, Before
<1> QED
  BY Zenon DEF Follows, Before

(* __SendInLoop gives m to a connection. *)
LEMMA SentGrows ==
    ASSUME IInv, OrderInv, NEW c \in Conns, NEW m \in Messages, NEW r \in Connection,
           conn' = [conn EXCEPT ![c] = r], r.sent = Append(conn[c].sent, m),
           sends' \in {sends, sends + 1}, m.id <= sends',
           \A i \in DOMAIN conn[c].sent : Before(conn[c].sent[i], m),
           UNCHANGED <<pending, call>>,
           \A j \in DOMAIN batch' : \E i \in DOMAIN batch : batch'[j] = batch[i],
           \A j \in DOMAIN batch' : Follows(batch'[j], m),
           \A j \in DOMAIN pending : Follows(pending[j], m),
           \A t \in Threads : Follows(call[t], m)
    PROVE  \A d \in Conns : SentOrder(d)'
<1> SUFFICES ASSUME NEW d \in Conns PROVE SentOrder(d)'
  OBVIOUS
<1> DEFINE s == conn[d].sent
           n == Len(s)
<1>1. /\ s \in Seq(Messages) /\ n \in Nat /\ DOMAIN s = 1..n
      /\ \A i \in 1..n : s[i].id \in Nat
      /\ sends \in Nat
      /\ conn \in [Conns -> Connection]
  BY SentType, MessageTypes DEF IInv, TypeOK
<1>2. \A i \in 1..n :
        /\ s[i].id <= sends'
        /\ \A j \in 1..n : i < j => Before(s[i], s[j])
        /\ \A j \in DOMAIN batch' : Follows(batch'[j], s[i])
        /\ \A j \in DOMAIN pending' : Follows(pending'[j], s[i])
        /\ \A t \in Threads : Follows(call'[t], s[i])
  <2>1. \A i \in 1..n :
          /\ s[i].id <= sends
          /\ \A j \in 1..n : i < j => Before(s[i], s[j])
          /\ \A j \in DOMAIN batch : Follows(batch[j], s[i])
          /\ \A j \in DOMAIN pending : Follows(pending[j], s[i])
          /\ \A t \in Threads : Follows(call[t], s[i])
    BY <1>1 DEF OrderInv, SentOrder
  <2>2. \A i \in 1..n : s[i].id <= sends'
    BY <1>1, <2>1
  <2>3. \A i \in 1..n : \A j \in DOMAIN batch' : Follows(batch'[j], s[i])
    BY <2>1
  <2> QED
    BY <2>1, <2>2, <2>3
<1>3. CASE d # c
  <2>1. conn'[d].sent = s
    BY <1>1, <1>3
  <2> HIDE DEF s, n
  <2> QED
    BY <1>1, <1>2, <2>1, SentOrderOf
<1>4. CASE d = c
  <2>1. /\ conn'[d].sent = Append(s, m)
        /\ \A i \in 1..n : Before(s[i], m)
    BY <1>1, <1>4
  <2> DEFINE a == Append(s, m)
  <2> HIDE DEF s, n
  <2>2. /\ DOMAIN a = 1..n + 1
        /\ \A i \in 1..n : a[i] = s[i]
        /\ a[n + 1] = m
    <3>1. /\ a \in Seq(Messages) /\ Len(a) = Len(s) + 1
          /\ \A i \in 1..Len(s) : a[i] = s[i]
          /\ a[Len(s) + 1] = m
      BY <1>1, AppendProperties
    <3> QED
      BY <3>1, LenProperties DEF n
  <2> HIDE DEF a
  <2>3. ASSUME NEW i \in 1..n + 1
        PROVE  /\ a[i].id <= sends'
               /\ \A j \in 1..n + 1 : i < j => Before(a[i], a[j])
               /\ \A j \in DOMAIN batch' : Follows(batch'[j], a[i])
               /\ \A j \in DOMAIN pending' : Follows(pending'[j], a[i])
               /\ \A t \in Threads : Follows(call'[t], a[i])
    <3>1. CASE i \in 1..n
      <4>1. a[i] = s[i] /\ Before(s[i], m)
        BY <2>1, <2>2, <3>1
      <4>2. \A j \in 1..n + 1 : i < j => Before(a[i], a[j])
        <5> SUFFICES ASSUME NEW j \in 1..n + 1, i < j PROVE Before(s[i], a[j])
          BY <4>1
        <5>1. CASE j \in 1..n
          BY <1>2, <2>2, <3>1, <5>1
        <5>2. CASE j = n + 1
          BY <2>2, <4>1, <5>2
        <5> QED
          BY <1>1, <5>1, <5>2
      <4> QED
        BY <1>2, <3>1, <4>1, <4>2
    <3>2. CASE i = n + 1
      <4>1. a[i] = m /\ \A j \in 1..n + 1 : ~(i < j)
        BY <1>1, <2>2, <3>2
      <4> QED
        BY <4>1
    <3> QED
      BY <1>1, <3>1, <3>2
  <2>4. conn'[d].sent = a
    BY <2>1 DEF a
  <2> QED
    BY <2>2, <2>3, <2>4, SentOrderOf
<1> QED
  BY <1>3, <1>4

(* A queued send runs: every other one of its thread comes later. *)
LEMMA RunSendOrder ==
    ASSUME IInv, OrderInv, RunSend
    PROVE  OrderInv'
<1> DEFINE h == Head(batch)
           c == h.conn
           m == h.msg
<1>1. PICK r \in SendInLoop(conn[c], m) :
          Assert_("UpdateChannel", ~Unknown(conn[c], r),
                  /\ Set(c, r)
                  /\ batch' = Tail(batch)
                  /\ UNCHANGED <<acceptor, connMap, pc, cur, active, done, pending, userVars>>)
  BY DEF RunSend
<1>2. batch # <<>> /\ h.op = "send"
  BY DEF RunSend, NextFunctor
<1>3. CASE UNCHANGED <<conn, acceptor, connMap, loopVars, pending, userVars>>
  BY <1>3, OrderKept DEF SentKept, loopVars, userVars
<1>4. CASE Set(c, r) /\ batch' = Tail(batch) /\ UNCHANGED <<pending, userVars>>
  <2>1. c \in Conns /\ m \in Messages /\ conn[c].poll # "new" /\ conn[c] \in Connection
    BY <1>2, NextFunctorFacts DEF IInv, TypeOK
  <2>2. r \in Connection /\ r.sent = Append(conn[c].sent, m)
    BY <1>1, <2>1, SendFacts
  <2>3. conn' = [conn EXCEPT ![c] = r] /\ UNCHANGED <<pending, sends, call>> /\ batch' = Tail(batch)
    BY <1>4 DEF Set, userVars
  <2>4. /\ h = batch[1] /\ 1 \in DOMAIN batch
        /\ \A i \in DOMAIN batch' : i + 1 \in DOMAIN batch /\ 1 < i + 1 /\ batch'[i] = batch[i + 1]
    BY <1>2, <2>3, QueueTypes, HeadTailProperties, LenProperties
  <2>5. /\ Numbered(h)
        /\ \A j \in DOMAIN batch : 1 < j => InOrder(h, batch[j])
        /\ \A j \in DOMAIN pending : InOrder(h, pending[j])
        /\ \A t \in Threads : InOrder(h, call[t])
    BY <2>4 DEF OrderInv, BatchOrder
  <2>6. \A i \in DOMAIN conn[c].sent : Follows(h, conn[c].sent[i])
    BY <2>1, <2>4 DEF OrderInv, SentOrder
  <2> HIDE DEF h, c
  <2>7. /\ m.id <= sends
        /\ \A i \in DOMAIN conn[c].sent : Before(conn[c].sent[i], m)
        /\ \A j \in DOMAIN batch' : Follows(batch'[j], m)
        /\ \A j \in DOMAIN pending : Follows(pending[j], m)
        /\ \A t \in Threads : Follows(call[t], m)
    BY <1>2, <2>4, <2>5, <2>6 DEF Numbered, InOrder, Follows
  <2> HIDE DEF m
  <2>8. \A j \in DOMAIN batch' : \E i \in DOMAIN batch : batch'[j] = batch[i]
    BY <2>4
  <2>9. \A d \in Conns : SentOrder(d)'
    BY <2>1, <2>2, <2>3, <2>7, <2>8, SentGrows
  <2> QED
    BY <1>2, <2>3, <2>9, QueuePoppedInOrder DEF OrderInv
<1> QED
  BY <1>1, <1>3, <1>4 DEF Assert_

(* No message in flight has a number to come. *)
LEMMA LaterNumbered ==
    ASSUME IInv, OrderInv, sends' \in {sends, sends + 1}
    PROVE  /\ \A i \in DOMAIN batch :
              Numbered(batch[i]) /\ (batch[i].op = "send" => batch[i].msg.id <= sends')
           /\ \A i \in DOMAIN pending :
              Numbered(pending[i]) /\ (pending[i].op = "send" => pending[i].msg.id <= sends')
           /\ \A t \in Threads : Numbered(call[t]) /\ (call[t].op = "send" => call[t].msg.id <= sends')
<1>1. ASSUME NEW f \in Calls, Numbered(f)
      PROVE  f.op = "send" => f.msg.id <= sends'
  BY <1>1, MessageTypes DEF Numbered
<1> QED
  BY <1>1, QueueTypes DEF OrderInv, BatchOrder, PendingOrder, CallOrder

(* Send in the loop thread goes ahead of the queue, but none of its own
   messages are there. *)
LEMMA SendOwnerOrder ==
    ASSUME IInv, OrderInv, NEW c \in Conns, SendOwner(c)
    PROVE  OrderInv'
<1> DEFINE m == Message(Owner)
<1>1. PICK r \in SendInLoop(conn[c], m) :
          Assert_("UpdateChannel", ~Unknown(conn[c], r),
                  /\ Set(c, r)
                  /\ sends' = sends + 1
                  /\ UNCHANGED <<acceptor, connMap, loopVars, pending, held, call>>)
  BY DEF SendOwner
<1>2. conn[c].state = "eConnected" /\ sends < MaxSends
  BY DEF SendOwner
<1>3. CASE UNCHANGED <<conn, acceptor, connMap, loopVars, pending, userVars>>
  BY <1>3, OrderKept DEF SentKept, loopVars, userVars
<1>4. CASE Set(c, r) /\ sends' = sends + 1 /\ UNCHANGED <<acceptor, connMap, loopVars, pending, held, call>>
  <2>1. conn[c].poll # "new" /\ conn[c] \in Connection
    BY <1>2 DEF IInv, TypeOK, Lifetime
  <2>2. m \in Messages /\ m.id = sends + 1 /\ m.by = Owner
    BY <1>2, MaxSendsNat DEF IInv, TypeOK, Message, Messages
  <2>3. r \in Connection /\ r.sent = Append(conn[c].sent, m)
    BY <1>1, <2>1, <2>2, SendFacts
  <2>4. conn' = [conn EXCEPT ![c] = r] /\ UNCHANGED <<pending, batch, call>>
    BY <1>4 DEF Set, loopVars
  <2> HIDE DEF m
  <2>5. m.id <= sends' /\ \A i \in DOMAIN conn[c].sent : Before(conn[c].sent[i], m)
    BY <1>4, <2>2, MessageTypes DEF OrderInv, SentOrder, Before
  <2>6. Owner \notin Threads
    BY ServerAssumption DEF ServerAssumption
  <2>7. /\ \A j \in DOMAIN batch : Follows(batch[j], m)
        /\ \A j \in DOMAIN pending : Follows(pending[j], m)
        /\ \A t \in Threads : Follows(call[t], m)
    BY <2>2, <2>6 DEF IInv, QueueInv, CallInv, Queueable, Follows, Before
  <2>8. \A d \in Conns : SentOrder(d)'
    BY <1>4, <2>2, <2>3, <2>4, <2>5, <2>7, SentGrows
  <2>9. BatchOrder' /\ PendingOrder' /\ CallOrder'
    <3>1. sends' \in {sends, sends + 1}
      BY <1>4
    <3> QED
      BY <2>4, <3>1, LaterNumbered
         DEF OrderInv, BatchOrder, PendingOrder, CallOrder, InOrder, Follows, Numbered
  <2> QED
    BY <2>8, <2>9 DEF OrderInv
<1> QED
  BY <1>1, <1>3, <1>4 DEF Assert_

(* A new message of a thread comes after all of its others. *)
LEMMA SendChecksOrder ==
    ASSUME IInv, OrderInv, NEW t \in Threads, NEW c \in Conns, SendChecks(t, c)
    PROVE  OrderInv'
<1> DEFINE m == Message(t)
           f == [op |-> "send", conn |-> c, msg |-> m]
<1>1. /\ UNCHANGED <<conn, batch, pending>>
      /\ sends' = sends + 1
      /\ call' = [call EXCEPT ![t] = f]
  BY DEF SendChecks, loopVars
<1>2. f.op = "send" /\ f.msg = m /\ m.id = sends + 1
  BY DEF Message
<1> HIDE DEF f, m
<1>3. sends \in Nat /\ sends' \in {sends, sends + 1}
  BY <1>1, MessageTypes
<1>4. \A u \in Threads : call'[u] = IF u = t THEN f ELSE call[u]
  BY <1>1 DEF IInv, TypeOK
<1>5. ASSUME NEW d \in Conns
      PROVE  SentOrder(d)'
  <2> SUFFICES ASSUME NEW i \in DOMAIN conn[d].sent
               PROVE  /\ conn[d].sent[i].id <= sends'
                      /\ \A j \in DOMAIN conn[d].sent : i < j => Before(conn[d].sent[i], conn[d].sent[j])
                      /\ \A j \in DOMAIN batch : Follows(batch[j], conn[d].sent[i])
                      /\ \A j \in DOMAIN pending : Follows(pending[j], conn[d].sent[i])
                      /\ \A u \in Threads : Follows(call'[u], conn[d].sent[i])
    BY <1>1 DEF SentOrder, Follows, Before
  <2>1. /\ conn[d].sent[i].id <= sends /\ conn[d].sent[i].id \in Nat
        /\ \A j \in DOMAIN conn[d].sent : i < j => Before(conn[d].sent[i], conn[d].sent[j])
        /\ \A j \in DOMAIN batch : Follows(batch[j], conn[d].sent[i])
        /\ \A j \in DOMAIN pending : Follows(pending[j], conn[d].sent[i])
        /\ \A u \in Threads : Follows(call[u], conn[d].sent[i])
    BY MessageTypes DEF OrderInv, SentOrder
  <2>2. conn[d].sent[i].id <= sends' /\ Before(conn[d].sent[i], m)
    BY <1>1, <1>2, <1>3, <2>1 DEF Before
  <2>3. \A u \in Threads : Follows(call'[u], conn[d].sent[i])
    BY <1>2, <1>4, <2>1, <2>2 DEF Follows
  <2> QED
    BY <2>1, <2>2, <2>3
<1>6. BatchOrder'
  <2> SUFFICES ASSUME NEW i \in DOMAIN batch
               PROVE  /\ batch[i].op = "send" => batch[i].msg.id <= sends'
                      /\ \A j \in DOMAIN batch : i < j => InOrder(batch[i], batch[j])
                      /\ \A j \in DOMAIN pending : InOrder(batch[i], pending[j])
                      /\ \A u \in Threads : InOrder(batch[i], call'[u])
    BY <1>1 DEF BatchOrder, Numbered, InOrder, Follows
  <2>1. InOrder(batch[i], f)
    BY <1>2, <1>3, LaterNumbered, MessageTypes, QueueTypes DEF InOrder, Follows, Before, Numbered
  <2> QED
    BY <1>3, <1>4, <2>1, LaterNumbered DEF OrderInv, BatchOrder
<1>7. PendingOrder'
  <2> SUFFICES ASSUME NEW i \in DOMAIN pending
               PROVE  /\ pending[i].op = "send" => pending[i].msg.id <= sends'
                      /\ \A j \in DOMAIN pending : i < j => InOrder(pending[i], pending[j])
                      /\ \A u \in Threads : InOrder(pending[i], call'[u])
    BY <1>1 DEF PendingOrder, Numbered, InOrder, Follows
  <2>1. InOrder(pending[i], f)
    BY <1>2, <1>3, LaterNumbered, MessageTypes, QueueTypes DEF InOrder, Follows, Before, Numbered
  <2> QED
    BY <1>3, <1>4, <2>1, LaterNumbered DEF OrderInv, PendingOrder
<1>8. CallOrder'
  <2>1. f.msg.id <= sends'
    BY <1>1, <1>2, <1>3
  <2> QED
    BY <1>3, <1>4, <2>1, LaterNumbered DEF CallOrder, Numbered
<1> QED
  BY <1>5, <1>6, <1>7, <1>8 DEF OrderInv

(* A thread's call becomes a functor at the end of the queue. *)
LEMMA CallQueuesOrder ==
    ASSUME IInv, OrderInv, NEW t \in Threads, CallQueues(t)
    PROVE  OrderInv'
<1> DEFINE f == call[t]
<1>1. /\ pending' = Append(pending, f)
      /\ f.op \in {"send", "shutdown"}
      /\ call' = [call EXCEPT ![t] = Idle]
      /\ UNCHANGED <<conn, batch, sends>>
  BY DEF CallQueues, QueueInLoop, loopVars
<1>2. f \in Functors
  BY <1>1, QueueTypes DEF Functors, Calls, Idle
<1>3. \A u \in Threads : call'[u] = IF u = t THEN Idle ELSE call[u]
  BY <1>1 DEF IInv, TypeOK
<1>4. /\ Numbered(f)
      /\ \A c \in Conns : \A i \in DOMAIN conn[c].sent : Follows(f, conn[c].sent[i])
      /\ \A i \in DOMAIN batch : InOrder(batch[i], f)
      /\ \A i \in DOMAIN pending : InOrder(pending[i], f)
  BY DEF OrderInv, SentOrder, BatchOrder, PendingOrder, CallOrder
<1>5. \A u \in Threads : InOrder(f, call'[u])
  BY <1>3 DEF IInv, CallInv, InOrder, Follows, Before, Idle
<1>6. \A u \in Threads : call'[u] = call[u] \/ call'[u].op # "send"
  BY <1>3 DEF Idle
<1>7. SentKept
  BY <1>1 DEF SentKept
<1> HIDE DEF f
<1> QED
  BY <1>1, <1>2, <1>4, <1>5, <1>6, <1>7, OrderPushed

(* A functor is queued that sends nothing. *)
LEMMA PlainFunctorOrder ==
    ASSUME IInv, OrderInv, SentKept, NEW f \in Functors, f.op # "send",
           pending' = Append(pending, f), UNCHANGED <<batch, sends, call>>
    PROVE  OrderInv'
<1>1. /\ Numbered(f)
      /\ \A c \in Conns : \A i \in DOMAIN conn[c].sent : Follows(f, conn[c].sent[i])
      /\ \A i \in DOMAIN batch : InOrder(batch[i], f)
      /\ \A i \in DOMAIN pending : InOrder(pending[i], f)
      /\ \A t \in Threads : InOrder(f, call'[t])
  BY DEF Numbered, Follows, InOrder
<1> QED
  BY <1>1, OrderPushed

(* Quiet steps keep the order. *)
LEMMA QuietOrder ==
    ASSUME IInv, OrderInv, Quiet
    PROVE  OrderInv'
<1>0. SentKept
  BY QuietKeeps DEF SentKept
<1>1. CASE \/ StartLoop \/ LeaveLoop \/ DestroyServer \/ StartOwner \/ Hold \/ Poll \/ EndEvent
           \/ EndPendingFunctors \/ AcceptFails \/ UpReturns \/ MessageReturns
           \/ \E c \in Conns : BeginEvent(c) \/ Release(c) \/ PeerConnects(c) \/ PeerGivesUp(c)
  <2>1. UNCHANGED <<pending, batch, call, sends>>
    BY <1>1 DEF StartLoop, LeaveLoop, DestroyServer, StartOwner, Hold, Poll, EndEvent,
         EndPendingFunctors, AcceptFails, UpReturns, MessageReturns, BeginEvent, Release,
         PeerConnects, PeerGivesUp, loopVars, userVars
  <2> QED
    BY <1>0, <2>1, OrderKept
<1>2. CASE BeginPendingFunctors
  <2>1. UNCHANGED <<sends, call>> /\ batch' = pending /\ pending' = <<>>
    BY <1>2 DEF BeginPendingFunctors, userVars
  <2> QED
    BY <1>0, <2>1, OrderOfBatch
<1>3. CASE RunListen
  <2>1. UNCHANGED <<pending, sends, call>> /\ batch # <<>> /\ batch' = Tail(batch)
    BY <1>3 DEF RunListen, NextFunctor, userVars
  <2> QED
    BY <1>0, <2>1, OrderPopped
<1>4. ASSUME NEW t \in Threads, StartThread(t)
      PROVE  OrderInv'
  <2> DEFINE f == [op |-> "listen"]
  <2>1. pending' = Append(pending, f) /\ UNCHANGED <<batch, sends, call>>
    BY <1>4 DEF StartThread, QueueInLoop, loopVars, userVars
  <2>2. f \in Functors /\ f.op # "send"
    BY DEF Functors
  <2> HIDE DEF f
  <2> QED
    BY <1>0, <2>1, <2>2, PlainFunctorOrder
<1>5. ASSUME NEW t \in Threads, NEW c \in Conns, ShutDownChecks(t, c)
      PROVE  OrderInv'
  <2>1. /\ UNCHANGED <<pending, batch, sends>>
        /\ call' = [call EXCEPT ![t] = [op |-> "setstate", conn |-> c]]
    BY <1>5 DEF ShutDownChecks, loopVars
  <2>2. \A u \in Threads : call'[u] = call[u] \/ call'[u].op # "send"
    BY <2>1 DEF IInv, TypeOK
  <2> QED
    BY <1>0, <2>1, <2>2, OrderKept
<1> QED
  BY <1>1, <1>2, <1>3, <1>4, <1>5, CallQueuesOrder, SendChecksOrder DEF Quiet

(* Changing steps keep the order. *)
LEMMA ChangingOrder ==
    ASSUME IInv, OrderInv, Changing
    PROVE  OrderInv'
<1>0. SentKept
  BY ChangingKeeps
<1>1. CASE \/ DownReturns \/ ReadMessage \/ ReadError \/ WriteEvent
           \/ \E c \in Conns, fd \in Fds : AcceptConnection(c, fd)
           \/ \E c \in Conns : \/ ShutDownOwner(c)
                               \/ PeerSends(c) \/ PeerFinishes(c) \/ PeerResets(c) \/ PeerReads(c)
  <2>1. UNCHANGED <<pending, batch, call, sends>>
    BY <1>1 DEF DownReturns, ReadMessage, ReadError, WriteEvent, AcceptConnection,
         ServerNewConnection, ShutDownOwner, PeerSends, PeerFinishes, PeerResets, PeerReads, Peer,
         Assert_, loopVars, userVars
  <2> QED
    BY <1>0, <2>1, OrderKept
<1>2. CASE RunDestroy \/ RunShutdown
  <2>1. /\ UNCHANGED <<pending, call, sends>>
        /\ \/ UNCHANGED batch
           \/ batch # <<>> /\ batch' = Tail(batch)
    BY <1>2 DEF RunDestroy, RunShutdown, NextFunctor, Assert_, loopVars, userVars
  <2> QED
    BY <1>0, <2>1, OrderKept, OrderPopped
<1>3. CASE HandleHangup \/ ReadEnd
  <2> DEFINE f == [op |-> "destroy", conn |-> cur]
  <2>1. /\ UNCHANGED <<batch, call, sends>>
        /\ \/ UNCHANGED pending
           \/ pending' = Append(pending, f)
    BY <1>3 DEF HandleHangup, ReadEnd, HandleClose, QueueInLoop, Assert_, loopVars, userVars
  <2>2. cur \in Conns
    BY <1>3, CurrentEvent DEF HandleHangup, ReadEnd
  <2>3. f \in Functors /\ f.op # "send"
    BY <2>2 DEF Functors
  <2> HIDE DEF f
  <2> QED
    BY <1>0, <2>1, <2>3, OrderKept, PlainFunctorOrder
<1>4. ASSUME NEW t \in Threads, ShutDownSetsState(t)
      PROVE  OrderInv'
  <2>1. /\ UNCHANGED <<pending, batch, sends>>
        /\ call' = [call EXCEPT ![t] = [op |-> "shutdown", conn |-> call[t].conn]]
    BY <1>4 DEF ShutDownSetsState, loopVars
  <2>2. \A u \in Threads : call'[u] = call[u] \/ call'[u].op # "send"
    BY <2>1 DEF IInv, TypeOK
  <2> QED
    BY <1>0, <2>1, <2>2, OrderKept
<1> QED
  BY <1>1, <1>2, <1>3, <1>4 DEF Changing

(* Nothing was sent yet. *)
LEMMA InitialOrder == Init => OrderInv
BY DEF Init, OrderInv, SentOrder, BatchOrder, PendingOrder, CallOrder, Numbered, Idle,
       NoConnection, NewConnection

(* The order is kept by every step. *)
LEMMA OrderInvIsInductive ==
    ASSUME IInv, OrderInv, [Next]_vars
    PROVE  OrderInv'
<1>1. CASE Sending
  BY <1>1, RunSendOrder, SendOwnerOrder DEF Sending
<1>2. CASE UNCHANGED vars
  <2>1. SentKept /\ UNCHANGED <<pending, batch, call, sends>>
    BY <1>2 DEF vars, loopVars, userVars, SentKept
  <2> QED
    BY <2>1, OrderKept
<1> QED
  BY <1>1, <1>2, QuietOrder, ChangingOrder, KindsOfSteps

(* What a connection has written and buffered is the messages it was given, whole
   and in the order in which each thread sent them (CTcpConnection.cpp:199, 100):
   parts of two messages are never interleaved, lost or doubled, wherever the
   kernel cuts a write and whatever the queue holds meanwhile. *)
THEOREM StreamsInOrder == Spec => []StreamInOrder
<1>1. IInv /\ OrderInv => StreamInOrder
  BY DEF IInv, Lifetime, StreamWhole, OrderInv, SentOrder, Before, StreamInOrder
<1>2. Init => OrderInv
  BY InitialOrder
<1>3. IInv /\ OrderInv /\ [Next]_vars => OrderInv'
  BY OrderInvIsInductive
<1> QED
  BY <1>1, <1>2, <1>3, Invariance, PTL DEF Spec
-----------------------------------------------------------------------------
(* The end of the stream is on its way when it should be. *)
FinRight(k) ==
    k.poll = "polled" =>
        /\ k.state = "eConnected" => ~k.shut
        /\ k.state = "eDisconnecting" => (k.shut <=> ~IsWriting(k))

(* No shutdown waits for the loop: ShutDown in the loop thread queues none. *)
NothingLate ==
    /\ \A i \in DOMAIN pending : pending[i].op # "shutdown"
    /\ \A i \in DOMAIN batch : batch[i].op # "shutdown"

(* The invariant of the half-close. *)
FinInv == NothingLate /\ \A c \in Conns : FinRight(conn[c])

(* __SendInLoop does not shut down. *)
LEMMA SendKeepsShut ==
    ASSUME NEW k \in Connection, NEW m \in Messages, NEW r \in SendInLoop(k, m)
    PROVE  r.shut = k.shut
<1> DEFINE s == [k EXCEPT !.sent = Append(k.sent, m)]
           p == Parts(m)
<1>1. p \in Seq(Part) /\ s \in Connection /\ s.shut = k.shut
  <2>1. Append(k.sent, m) \in Seq(Messages)
    BY AppendProperties DEF Connection
  <2> QED
    BY <2>1, PartsFacts DEF Connection
<1>2. \/ \E n \in Writes(k, p) : r \in Buffered(Wrote(s, p, n), Rest(p, n))
      \/ r \in Buffered(s, p)
  BY DEF SendInLoop
<1> HIDE DEF s, p
<1>3. ASSUME NEW n \in Writes(k, p)
      PROVE  Wrote(s, p, n) \in Connection /\ Wrote(s, p, n).shut = k.shut
  <2>1. Wrote(s, p, n) \in Connection
    BY <1>1, <1>3, WritesFacts, WroteFacts
  <2>2. Wrote(s, p, n).shut = k.shut
    BY <1>1 DEF Wrote, Connection
  <2> QED
    BY <2>1, <2>2
<1>4. ASSUME NEW b \in Connection, NEW data, r \in Buffered(b, data)
      PROVE  r.shut = b.shut
  <2> DEFINE o == [b EXCEPT !.out = b.out \o data]
  <2>1. r = o \/ \E ev \in BacklogEvents : r = Asked(o, b.events \cup {ev})
    BY <1>4 DEF Buffered
  <2>2. o.shut = b.shut /\ \A e : Asked(o, e).shut = b.shut
    BY DEF Asked, Connection
  <2> QED
    BY <2>1, <2>2
<1> QED
  BY <1>1, <1>2, <1>3, <1>4

(* __HandleWrite ends the stream after the last byte, and not before. *)
LEMMA HandleWriteFin ==
    ASSUME NEW k \in Connection, k.poll # "new", FinRight(k), NEW r \in HandleWrite(k)
    PROVE  FinRight(r)
<1>1. CASE r = k
  BY <1>1
<1>2. CASE IsWriting(k) /\ r # k
  <2>1. PICK n \in Writes(k, k.out) :
           LET w == [Wrote(k, k.out, n) EXCEPT !.out = Rest(k.out, n)]
               d == Asked(w, w.events \ {"out"})
           IN r = IF n = 0 \/ w.out # <<>> THEN w
                  ELSE IF d.state = "eDisconnecting" THEN ShutdownInLoop(d) ELSE d
    BY <1>2, Zenon DEF HandleWrite
  <2> DEFINE w == [Wrote(k, k.out, n) EXCEPT !.out = Rest(k.out, n)]
             d == Asked(w, w.events \ {"out"})
  <2>2. w.events = k.events /\ w.state = k.state /\ w.poll = k.poll /\ w.shut = k.shut
    BY DEF Wrote, Connection
  <2>3. /\ d.events = w.events \ {"out"} /\ d.state = w.state /\ d.shut = w.shut
        /\ d.poll \in {w.poll, "muted"}
    BY <1>2, <2>2 DEF Asked, Wrote, Connection
  <2>4. /\ ShutdownInLoop(d).shut
        /\ ShutdownInLoop(d).events = d.events /\ ShutdownInLoop(d).state = d.state
    BY <2>3 DEF ShutdownInLoop, ShutdownWrite, IsWriting, Asked, Wrote, Connection
  <2>5. \/ r = w
        \/ r = d /\ d.state # "eDisconnecting"
        \/ r = ShutdownInLoop(d) /\ d.state = "eDisconnecting"
    BY <2>1
  <2>6. ShutdownInLoop(d).poll = d.poll
    BY DEF ShutdownInLoop, ShutdownWrite, IsWriting, Asked, Wrote, Connection
  <2> HIDE DEF w, d
  <2>7. CASE r = w
    BY <2>2, <2>7 DEF FinRight, IsWriting
  <2>8. CASE r = d /\ d.state # "eDisconnecting"
    BY <1>2, <2>2, <2>3, <2>8 DEF FinRight, IsWriting
  <2>9. CASE r = ShutdownInLoop(d) /\ d.state = "eDisconnecting"
    BY <1>2, <2>2, <2>3, <2>4, <2>6, <2>9 DEF FinRight, IsWriting
  <2> QED
    BY <2>5, <2>7, <2>8, <2>9
<1> QED
  BY <1>1, <1>2 DEF HandleWrite

(* ShutDown of a connection that is up leaves the end to who writes. *)
LEMMA ShutDownFin ==
    ASSUME NEW k \in Connection, k.state = "eConnected", FinRight(k)
    PROVE  FinRight(ShutdownInLoop([k EXCEPT !.state = "eDisconnecting"]))
BY DEF FinRight, ShutdownInLoop, ShutdownWrite, IsWriting, Connection

(* A step that sets one connection right leaves all of them right. *)
LEMMA OneRight ==
    ASSUME IInv, FinInv, NEW c \in Conns, NEW r, conn' = [conn EXCEPT ![c] = r], FinRight(r)
    PROVE  \A d \in Conns : FinRight(conn[d])'
<1> SUFFICES ASSUME NEW d \in Conns PROVE FinRight(conn'[d])
  BY DEF FinRight, IsWriting
<1>1. conn'[d] = IF d = c THEN r ELSE conn[d]
  BY DEF IInv, TypeOK
<1> QED
  BY <1>1 DEF FinInv

(* What is left of the batch is of the batch. *)
LEMMA NothingLatePopped ==
    ASSUME IInv, NothingLate, UNCHANGED pending, batch # <<>>, batch' = Tail(batch)
    PROVE  NothingLate'
<1>1. \A i \in DOMAIN batch' : i + 1 \in DOMAIN batch /\ batch'[i] = batch[i + 1]
  BY QueueTypes, HeadTailProperties, LenProperties
<1> QED
  BY <1>1 DEF NothingLate

(* The functor of ConnectDestroyed may wait. *)
LEMMA NothingLatePushed ==
    ASSUME IInv, NothingLate, NEW f \in Functors, f.op # "shutdown",
           pending' = Append(pending, f), UNCHANGED batch
    PROVE  NothingLate'
<1> DEFINE n == Len(pending)
<1>1. /\ n \in Nat
      /\ DOMAIN pending = 1..n
      /\ DOMAIN pending' = 1..n + 1
      /\ \A i \in 1..n : pending'[i] = pending[i]
      /\ pending'[n + 1] = f
  BY QueueTypes, AppendProperties, LenProperties
<1> HIDE DEF n
<1>2. \A i \in DOMAIN pending' : \/ i \in DOMAIN pending /\ pending'[i] = pending[i]
                                 \/ pending'[i] = f
  BY <1>1
<1> QED
  BY <1>2 DEF NothingLate

(* Without other threads nobody queues a shutdown, and none is run. *)
LEMMA NothingLateStays ==
    ASSUME Threads = {}, IInv, NothingLate, [Next]_vars
    PROVE  NothingLate' /\ ~RunShutdown /\ ~RunSend
<1>1. batch # <<>> => Head(batch).op # "shutdown" /\ Head(batch).op # "send"
  <2>1. batch # <<>> => Head(batch) = batch[1] /\ 1 \in DOMAIN batch
    BY QueueTypes, HeadTailProperties, LenProperties
  <2> QED
    BY <2>1 DEF NothingLate, IInv, QueueInv, Queueable
<1>2. ~RunShutdown /\ ~RunSend
  BY <1>1 DEF RunShutdown, RunSend, NextFunctor
<1>3. CASE Quiet
  <2>1. \/ UNCHANGED <<pending, batch>>
        \/ batch' = pending /\ pending' = <<>>
        \/ UNCHANGED pending /\ batch # <<>> /\ batch' = Tail(batch)
    BY <1>3 DEF Quiet, StartLoop, LeaveLoop, DestroyServer, StartOwner, Hold, Poll, EndEvent,
         BeginPendingFunctors, EndPendingFunctors, AcceptFails, UpReturns, MessageReturns,
         RunListen, NextFunctor, BeginEvent, Release, PeerConnects, PeerGivesUp, loopVars
  <2>2. UNCHANGED <<pending, batch>> => NothingLate'
    BY DEF NothingLate
  <2>3. batch' = pending /\ pending' = <<>> => NothingLate'
    BY DEF NothingLate
  <2> QED
    BY <1>2, <2>1, <2>2, <2>3, NothingLatePopped
<1>4. CASE Changing
  <2>1. CASE HandleHangup \/ ReadEnd
    <3> DEFINE f == [op |-> "destroy", conn |-> cur]
    <3>1. /\ UNCHANGED batch
          /\ (UNCHANGED pending) \/ pending' = Append(pending, f)
      BY <2>1 DEF HandleHangup, ReadEnd, HandleClose, QueueInLoop, Assert_, loopVars
    <3>2. cur \in Conns
      BY <2>1, CurrentEvent DEF HandleHangup, ReadEnd
    <3>3. f \in Functors /\ f.op # "shutdown"
      BY <3>2 DEF Functors
    <3> HIDE DEF f
    <3>4. UNCHANGED <<pending, batch>> => NothingLate'
      BY DEF NothingLate
    <3> QED
      BY <1>2, <3>1, <3>3, <3>4, NothingLatePushed
  <2>2. CASE ~(HandleHangup \/ ReadEnd)
    <3>1. /\ UNCHANGED pending
          /\ (UNCHANGED batch) \/ (batch # <<>> /\ batch' = Tail(batch))
      BY <1>2, <1>4, <2>2 DEF Changing, DownReturns, ReadMessage, ReadError, WriteEvent,
         RunDestroy, NextFunctor, AcceptConnection, ServerNewConnection, ShutDownOwner,
         PeerSends, PeerFinishes, PeerResets, PeerReads, Peer, Assert_, loopVars
    <3>2. UNCHANGED <<pending, batch>> => NothingLate'
      BY DEF NothingLate
    <3> QED
      BY <1>2, <3>1, <3>2, NothingLatePopped
  <2> QED
    BY <2>1, <2>2
<1>5. CASE Sending \/ UNCHANGED vars
  <2>1. UNCHANGED <<pending, batch>>
    BY <1>2, <1>5 DEF Sending, SendOwner, Assert_, vars, loopVars
  <2> QED
    BY <1>2, <2>1 DEF NothingLate
<1> QED
  BY <1>2, <1>3, <1>4, <1>5, KindsOfSteps

(* What each step makes of a connection is right. *)
LEMMA FinStays ==
    ASSUME Threads = {}, IInv, FinInv, [Next]_vars
    PROVE  \A d \in Conns : FinRight(conn[d])'
<1>0. ~RunShutdown /\ ~RunSend
  BY NothingLateStays DEF FinInv
<1>1. CASE UNCHANGED conn
  BY <1>1 DEF FinInv, FinRight, IsWriting
<1>2. ASSUME NEW c \in Conns, NEW r, Set(c, r), FinRight(r)
      PROVE  \A d \in Conns : FinRight(conn[d])'
  BY <1>2, OneRight DEF Set
<1>3. \A c \in Conns : conn[c] \in Connection /\ FinRight(conn[c])
  BY DEF IInv, TypeOK, FinInv
<1>4. ASSUME NEW c \in Conns, NEW p \in Peers, NEW u, NEW f, NEW h,
             conn' = [conn EXCEPT ![c] =
                        [conn[c] EXCEPT !.peer = p, !.unread = u, !.full = f, !.heard = h]]
      PROVE  \A d \in Conns : FinRight(conn[d])'
  <2>1. FinRight([conn[c] EXCEPT !.peer = p, !.unread = u, !.full = f, !.heard = h])
    BY <1>3 DEF Connection, FinRight, IsWriting
  <2> QED
    BY <1>2, <1>4, <2>1 DEF Set
<1>5. CASE DownReturns
  <2>1. CASE UNCHANGED conn
    BY <1>1, <2>1
  <2>2. CASE Set(cur, Removed(conn[cur]))
    <3>1. cur \in Conns
      BY <1>5 DEF DownReturns, IInv, Places
    <3>2. Removed(conn[cur]).poll = "removed"
      BY <1>3, <3>1 DEF Removed, Connection
    <3>3. FinRight(Removed(conn[cur]))
      BY <3>2 DEF FinRight
    <3> QED
      BY <1>2, <2>2, <3>1, <3>3
  <2> QED
    BY <1>5, <2>1, <2>2 DEF DownReturns, Assert_
<1>6. CASE HandleHangup \/ ReadEnd
  <2>1. CASE UNCHANGED conn
    BY <1>1, <2>1
  <2>2. CASE Set(cur, Closing(conn[cur]))
    <3>1. cur \in Conns /\ conn[cur].poll # "new"
      BY <1>6, CurrentEvent DEF HandleHangup, ReadEnd, Registered
    <3>2. Closing(conn[cur]).poll = "muted"
      BY <1>3, <3>1, AskedFacts DEF Closing
    <3>3. FinRight(Closing(conn[cur]))
      BY <3>2 DEF FinRight
    <3> QED
      BY <1>2, <2>2, <3>1, <3>3
  <2> QED
    BY <1>6, <2>1, <2>2 DEF HandleHangup, ReadEnd, HandleClose, Assert_
<1>7. CASE ReadMessage \/ ReadError
  <2>1. cur \in Conns
    BY <1>7, CurrentEvent DEF ReadMessage, ReadError
  <2>2. CASE ReadMessage
    <3> DEFINE r == [conn[cur] EXCEPT !.unread = FALSE, !.heard = "message"]
    <3>1. FinRight(r) /\ Set(cur, r)
      BY <1>3, <2>1, <2>2 DEF ReadMessage, Connection, FinRight, IsWriting
    <3> QED
      BY <1>2, <2>1, <3>1
  <2>3. CASE ReadError
    <3> DEFINE r == GetSocketError(conn[cur])
    <3>1. FinRight(r) /\ Set(cur, r)
      BY <1>3, <2>1, <2>3 DEF ReadError, GetSocketError, Connection, FinRight, IsWriting
    <3> QED
      BY <1>2, <2>1, <3>1
  <2> QED
    BY <1>7, <2>2, <2>3
<1>8. CASE WriteEvent
  <2>1. PICK r \in HandleWrite(conn[cur]) : Set(cur, r)
    BY <1>8 DEF WriteEvent
  <2>2. cur \in Conns /\ conn[cur].poll # "new"
    BY <1>8, CurrentEvent DEF WriteEvent, Registered
  <2>3. FinRight(r)
    BY <1>3, <2>2, HandleWriteFin
  <2> QED
    BY <1>2, <2>1, <2>2, <2>3
<1>9. CASE RunDestroy
  <2> DEFINE c == Head(batch).conn
  <2>1. CASE UNCHANGED conn
    BY <1>1, <2>1
  <2>2. CASE Set(c, Down(conn[c]))
    <3>1. c \in Conns
      BY <1>9, NextFunctorFacts DEF RunDestroy, NextFunctor
    <3>2. Down(conn[c]).state = "eDisconnected"
      BY <1>3, <3>1 DEF Down, Told, Asked, Connection
    <3> HIDE DEF c
    <3>3. FinRight(Down(conn[c]))
      BY <3>2 DEF FinRight
    <3> QED
      BY <1>2, <2>2, <3>1, <3>3
  <2> QED
    BY <1>9, <2>1, <2>2 DEF RunDestroy, Assert_
<1>10. ASSUME NEW c \in Conns, NEW fd \in Fds, AcceptConnection(c, fd)
       PROVE  \A d \in Conns : FinRight(conn[d])'
  <2>1. CASE UNCHANGED conn
    BY <1>1, <2>1
  <2>2. CASE Set(c, Established(NewConnection(fd)))
    <3>1. FinRight(Established(NewConnection(fd)))
      BY DEF Established, Told, Asked, NewConnection, IsConnected, FinRight
    <3> QED
      BY <1>2, <2>2, <3>1
  <2> QED
    BY <1>10, <2>1, <2>2 DEF AcceptConnection, ServerNewConnection, Assert_
<1>11. ASSUME NEW c \in Conns, ShutDownOwner(c)
       PROVE  \A d \in Conns : FinRight(conn[d])'
  <2> DEFINE k == [conn[c] EXCEPT !.state = "eDisconnecting"]
  <2>1. FinRight(ShutdownInLoop(k))
    BY <1>3, <1>11, ShutDownFin DEF ShutDownOwner
  <2> QED
    BY <1>2, <1>11, <2>1 DEF ShutDownOwner
<1>12. ASSUME NEW c \in Conns, PeerSends(c) \/ PeerFinishes(c) \/ PeerResets(c) \/ PeerReads(c)
       PROVE  \A d \in Conns : FinRight(conn[d])'
  <2> DEFINE k == conn[c]
  <2>1. PICK r \in {[k EXCEPT !.unread = TRUE], [k EXCEPT !.peer = "fin"],
                    [k EXCEPT !.peer = "reset"], [k EXCEPT !.full = FALSE]} : Set(c, r)
    BY <1>12 DEF PeerSends, PeerFinishes, PeerResets, PeerReads, Peer
  <2>2. r.poll = k.poll /\ r.state = k.state /\ r.shut = k.shut /\ r.events = k.events
    BY <1>3, <2>1 DEF Connection
  <2>3. FinRight(r)
    BY <1>3, <2>2 DEF FinRight, IsWriting
  <2> QED
    BY <1>2, <2>1, <2>3
<1>13. ASSUME NEW c \in Conns, SendOwner(c)
       PROVE  \A d \in Conns : FinRight(conn[d])'
  <2>1. CASE UNCHANGED conn
    BY <1>1, <2>1
  <2>2. CASE \E r \in SendInLoop(conn[c], Message(Owner)) : Set(c, r)
    <3>1. PICK r \in SendInLoop(conn[c], Message(Owner)) : Set(c, r)
      BY <2>2
    <3>2. Message(Owner) \in Messages
      BY <1>13, MaxSendsNat DEF IInv, TypeOK, SendOwner, Message, Messages
    <3>3. conn[c].state = "eConnected" /\ conn[c].poll # "new"
      BY <1>13 DEF SendOwner, IInv, Lifetime
    <3>4. r.state = "eConnected" /\ r.poll = conn[c].poll /\ r.shut = conn[c].shut
      BY <1>3, <3>1, <3>2, <3>3, SendFacts, SendKeepsShut
    <3>5. FinRight(r)
      BY <1>3, <3>3, <3>4 DEF FinRight
    <3> QED
      BY <1>2, <3>1, <3>5
  <2> QED
    BY <1>13, <2>1, <2>2 DEF SendOwner, Assert_
<1>14. CASE Quiet \/ UNCHANGED vars
  <2>1. UNCHANGED conn
    BY <1>14, QuietKeeps DEF vars
  <2> QED
    BY <1>1, <2>1
<1>15. CASE Changing \/ Sending
  BY <1>0, <1>5, <1>6, <1>7, <1>8, <1>9, <1>10, <1>11, <1>12, <1>13, <1>15 DEF Changing, Sending
<1> QED
  BY <1>14, <1>15, KindsOfSteps

(* Without other threads the end of the stream of a connection that is shutting
   down is on its way exactly when no output is being written
   (CTcpConnection.cpp:112-115, 236): whichever of ShutDown and the last
   __HandleWrite comes second sends it, and nobody sends it twice or too early. *)
THEOREM StreamsEndAfterOutput ==
    ASSUME Threads = {}
    PROVE  Spec => []FinAfterOutput
<1>1. Init => FinInv
  BY DEF Init, FinInv, NothingLate, FinRight, NoConnection, NewConnection
<1>2. IInv /\ FinInv /\ [Next]_vars => FinInv'
  BY NothingLateStays, FinStays DEF FinInv
<1>3. FinInv => FinAfterOutput
  BY DEF FinInv, FinRight, FinAfterOutput
<1> QED
  BY <1>1, <1>2, <1>3, Invariance, PTL DEF Spec
-----------------------------------------------------------------------------
(* Of a connection, nothing that the poller is told changes. *)
PollKept(k, r) == r.poll = k.poll /\ r.events = k.events /\ r.fd = k.fd

(* A registered connection has told the poller what it wants. *)
PollAsked(k, r) ==
    /\ k.poll \in {"polled", "muted"}
    /\ r.fd = k.fd
    /\ r.poll = IF r.events = {} THEN "muted" ELSE k.poll

(* A step that the poller takes part in, or knows nothing of. *)
PollerStep == [Poller!Next]_(Poller!vars)

(* The poller's view of the connections, one by one. *)
LEMMA ViewFacts ==
    /\ DOMAIN Descriptors = {d \in Conns : Registered(d)}
    /\ DOMAIN Wanted = Conns
    /\ DOMAIN Interest = Polled
    /\ \A d \in Conns : Wanted[d] = conn[d].events
    /\ \A d \in Conns : Registered(d) => Descriptors[d] = conn[d].fd
    /\ \A d \in Polled : Interest[d] = conn[d].events
BY DEF Descriptors, Wanted, Interest

(* The view after a step. *)
LEMMA NextViewFacts ==
    /\ Descriptors' = [d \in {e \in Conns : Registered(e)'} |-> conn'[d].fd]
    /\ Wanted' = [d \in Conns |-> conn'[d].events]
    /\ Interest' = [d \in Polled' |-> conn'[d].events]
    /\ EverPolled' = {d \in Conns : conn'[d].poll # "new"}
    /\ Polled' = {d \in Conns : conn'[d].poll = "polled"}
    /\ \A d \in Conns : Registered(d)' <=> conn'[d].poll \in {"polled", "muted"}
BY DEF Descriptors, Wanted, Interest, EverPolled, Polled, Registered

(* What the poller is not told leaves it as it is. *)
LEMMA PollerUntouched ==
    ASSUME \A d \in Conns : PollKept(conn[d], conn'[d]), DOMAIN active' = DOMAIN active
    PROVE  UNCHANGED Poller!vars
<1>1. /\ EverPolled' = EverPolled /\ Polled' = Polled
      /\ \A d \in Conns : Registered(d)' <=> Registered(d)
  BY NextViewFacts DEF PollKept, EverPolled, Polled, Registered
<1>2. Descriptors' = Descriptors
  BY <1>1, NextViewFacts DEF Descriptors, PollKept
<1>3. Wanted' = Wanted
  BY NextViewFacts DEF Wanted, PollKept
<1>4. Interest' = Interest
  BY <1>1, NextViewFacts DEF Interest, Polled, PollKept
<1> QED
  BY <1>1, <1>2, <1>3, <1>4 DEF Poller!vars

(* A connection that changes otherwise. *)
OneConn(c, r) ==
    /\ conn'[c] = r
    /\ \A d \in Conns \ {c} : conn'[d] = conn[d]
    /\ DOMAIN active' = DOMAIN active

(* UpdateChannel of a connection: the rest of what the poller has stays. *)
LEMMA ConnectionAsks ==
    ASSUME NEW c \in Conns, NEW r, OneConn(c, r),
           \/ conn[c].poll = "new" /\ r.poll = "polled"
           \/ PollAsked(conn[c], r)
    PROVE  Poller!Ask(c, r.events)
<1>1. EverPolled' = EverPolled \cup {c}
  BY NextViewFacts DEF OneConn, PollAsked, EverPolled
<1>2. Polled' = IF c \notin EverPolled THEN Polled \cup {c}
                ELSE IF r.events = {} THEN Polled \ {c} ELSE Polled
  BY NextViewFacts DEF OneConn, PollAsked, EverPolled, Polled
<1>3. Polled' = Poller!Watched(c, r.events)
  BY <1>2, ViewFacts DEF Poller!Watched
<1>4. Wanted' = [Wanted EXCEPT ![c] = r.events]
  <2>1. \A d \in Conns : conn'[d].events = IF d = c THEN r.events ELSE Wanted[d]
    BY ViewFacts DEF OneConn
  <2> QED
    BY <2>1, NextViewFacts, ViewFacts
<1>5. Interest' = [d \in Polled' |-> IF d = c THEN r.events ELSE Interest[d]]
  <2>1. \A d \in Polled' : conn'[d].events = IF d = c THEN r.events ELSE Interest[d]
    <3> SUFFICES ASSUME NEW d \in Polled'
                 PROVE  conn'[d].events = IF d = c THEN r.events ELSE Interest[d]
      OBVIOUS
    <3>1. d \in Conns /\ (d # c => d \in Polled)
      BY <1>2, NextViewFacts
    <3> QED
      BY <3>1, ViewFacts DEF OneConn
  <2> QED
    BY <2>1, NextViewFacts
<1> QED
  BY <1>1, <1>3, <1>4, <1>5 DEF Poller!Ask, OneConn

(* A registered connection may ask, or do something else. *)
LEMMA ConnectionUpdates ==
    ASSUME IInv, NEW c \in Conns, NEW r \in Connection, OneConn(c, r),
           PollKept(conn[c], r) \/ PollAsked(conn[c], r)
    PROVE  PollerStep
<1>1. CASE PollKept(conn[c], r)
  <2>1. \A d \in Conns : PollKept(conn[d], conn'[d])
    BY <1>1 DEF OneConn, PollKept
  <2> QED
    BY <2>1, PollerUntouched DEF OneConn, PollerStep
<1>2. CASE PollAsked(conn[c], r)
  <2>1. Poller!Ask(c, r.events)
    BY <1>2, ConnectionAsks
  <2>2. c \in DOMAIN Descriptors
    BY <1>2, ViewFacts DEF PollAsked, Registered
  <2>3. Descriptors' = Descriptors
    <3>1. \A d \in Conns : (Registered(d)' <=> Registered(d)) /\ conn'[d].fd = conn[d].fd
      BY <1>2, NextViewFacts DEF OneConn, PollAsked, Registered
    <3> QED
      BY <3>1, NextViewFacts DEF Descriptors
  <2>4. r.events \in SUBSET {"in", "out"}
    BY DEF Connection
  <2>5. Poller!Update(c, r.events)
    BY <2>1, <2>2, <2>3 DEF Poller!Update
  <2> QED
    BY <2>4, <2>5 DEF Poller!Next, PollerStep
<1> QED
  BY <1>1, <1>2

(* How the actions change one connection. *)
LEMMA SetOne ==
    ASSUME IInv, NEW c \in Conns, NEW r, Set(c, r), DOMAIN active' = DOMAIN active
    PROVE  OneConn(c, r)
BY DEF Set, OneConn, IInv, TypeOK

(* The steps that leave the connections alone: of these the poll reports, and
   the end of a channel's events takes it from the reported ones. *)
LEMMA QuietPolls ==
    ASSUME IInv, Quiet
    PROVE  PollerStep
<1>1. UNCHANGED conn
  BY QuietKeeps
<1>2. \A d \in Conns : PollKept(conn[d], conn'[d])
  BY <1>1 DEF PollKept
<1>3. CASE DOMAIN active' = DOMAIN active
  BY <1>2, <1>3, PollerUntouched DEF PollerStep
<1>4. /\ EverPolled' = EverPolled /\ Descriptors' = Descriptors
      /\ Wanted' = Wanted /\ Interest' = Interest
  BY <1>1 DEF EverPolled, Descriptors, Wanted, Interest, Registered, Polled
<1>5. CASE Poll
  <2>1. DOMAIN active = {}
    BY <1>5 DEF Poll, IInv, Places
  <2>2. DOMAIN active' \in SUBSET DOMAIN Interest
    <3>1. PICK r \in [Polled -> SUBSET {"in", "out", "hup"}] :
             active' = [c \in {d \in Polled : r[d] # {}} |-> r[c]]
      BY <1>5 DEF Poll
    <3> QED
      BY <3>1, ViewFacts
  <2>3. Poller!Report
    BY <1>4, <2>1, <2>2 DEF Poller!Report
  <2> QED
    BY <2>3 DEF Poller!Next, PollerStep
<1>6. CASE EndEvent
  <2>1. cur \in Conns /\ cur \in DOMAIN active
    BY <1>6, CurrentEvent DEF EndEvent
  <2>2. DOMAIN active' = DOMAIN active \ {cur}
    BY <1>6 DEF EndEvent
  <2>3. Poller!Handle(cur)
    BY <1>4, <2>1, <2>2 DEF Poller!Handle
  <2> QED
    BY <2>1, <2>3 DEF Poller!Next, PollerStep
<1>7. \/ DOMAIN active' = DOMAIN active \/ Poll \/ EndEvent
  BY DEF Quiet, StartLoop, LeaveLoop, DestroyServer, StartOwner, Hold,
         BeginPendingFunctors, EndPendingFunctors, AcceptFails, UpReturns, MessageReturns,
         RunListen, BeginEvent, Release, PeerConnects, PeerGivesUp, StartThread, CallQueues,
         SendChecks, ShutDownChecks, loopVars
<1> QED
  BY <1>3, <1>5, <1>6, <1>7

(* A new connection is registered, under a descriptor of its own. *)
LEMMA AcceptRegisters ==
    ASSUME IInv, NEW c \in Conns, NEW fd \in Fds, AcceptConnection(c, fd), Running'
    PROVE  PollerStep
<1> DEFINE r == Established(NewConnection(fd))
<1>1. /\ c \in backlog
      /\ \A d \in Conns : conn[d].poll \in {"polled", "muted"} => conn[d].fd # fd
      /\ ServerNewConnection(c, fd)
  BY DEF AcceptConnection, Assert_, Running
<1>2. r.poll = "polled" /\ r.fd = fd /\ r.events = {"in"}
  BY EstablishedFacts
<1>3. conn[c].poll = "new"
  BY <1>1 DEF IInv, Lifetime
<1>4. OneConn(c, r)
  BY <1>1, SetOne DEF ServerNewConnection
<1> HIDE DEF r
<1>5. Poller!Ask(c, r.events)
  BY <1>2, <1>3, <1>4, ConnectionAsks
<1>6. c \notin EverPolled /\ \A d \in DOMAIN Descriptors : Descriptors[d] # fd
  BY <1>1, <1>3, ViewFacts DEF EverPolled, Registered
<1>7. Descriptors' = [d \in DOMAIN Descriptors \cup {c} |-> IF d = c THEN fd ELSE Descriptors[d]]
  <2>1. {d \in Conns : Registered(d)'} = DOMAIN Descriptors \cup {c}
    BY <1>2, <1>4, NextViewFacts, ViewFacts DEF OneConn, Registered
  <2>2. \A d \in DOMAIN Descriptors \cup {c} : conn'[d].fd = IF d = c THEN fd ELSE Descriptors[d]
    BY <1>2, <1>4, ViewFacts DEF OneConn
  <2> QED
    BY <2>1, <2>2, NextViewFacts
<1>8. r.events # {} /\ r.events \in SUBSET {"in", "out"}
  BY <1>2
<1>9. Poller!Register(c, fd, r.events)
  BY <1>5, <1>6, <1>7, <1>8 DEF Poller!Register
<1> QED
  BY <1>8, <1>9 DEF Poller!Next, PollerStep

(* ConnectDestroyed removes its channel, which asks for nothing, and no event
   of the poll before it is still to be handled. *)
LEMMA DownRemoves ==
    ASSUME IInv, DownReturns, Running'
    PROVE  PollerStep
<1> DEFINE r == Removed(conn[cur])
<1>1. /\ cur \in Conns /\ DOMAIN active = {}
      /\ conn[cur].poll = "muted" /\ conn[cur].events = {}
      /\ Set(cur, r) /\ UNCHANGED active
  BY DEF DownReturns, Assert_, Running, IInv, Places
<1>2. r.poll = "removed" /\ r.events = {} /\ r.fd = conn[cur].fd
  BY <1>1 DEF Removed, IInv, TypeOK, Connection
<1>3. OneConn(cur, r)
  BY <1>1, SetOne
<1> HIDE DEF r
<1>4. /\ EverPolled' = EverPolled /\ Polled' = Polled
      /\ Wanted' = Wanted
  BY <1>1, <1>2, <1>3, NextViewFacts DEF OneConn, EverPolled, Polled, Wanted
<1>5. Interest' = Interest
  BY <1>1, <1>2, <1>3, <1>4, NextViewFacts DEF OneConn, Interest, Polled
<1>6. cur \in DOMAIN Descriptors /\ Wanted[cur] = {}
  BY <1>1, ViewFacts DEF Registered
<1>7. Descriptors' = [d \in DOMAIN Descriptors \ {cur} |-> Descriptors[d]]
  <2>1. {d \in Conns : Registered(d)'} = DOMAIN Descriptors \ {cur}
    BY <1>2, <1>3, NextViewFacts, ViewFacts DEF OneConn, Registered
  <2>2. \A d \in DOMAIN Descriptors \ {cur} : conn'[d].fd = Descriptors[d]
    BY <1>3, ViewFacts DEF OneConn
  <2> QED
    BY <2>1, <2>2, NextViewFacts
<1>8. Poller!Remove(cur)
  BY <1>1, <1>4, <1>5, <1>6, <1>7 DEF Poller!Remove
<1> QED
  BY <1>1, <1>8 DEF Poller!Next, PollerStep

(* What __SendInLoop tells the poller, unless it runs into the assert. *)
LEMMA SendAsks ==
    ASSUME IInv, NEW c \in Conns, NEW m \in Messages, conn[c].poll # "new",
           NEW r \in SendInLoop(conn[c], m), ~Unknown(conn[c], r),
           Set(c, r), UNCHANGED active
    PROVE  PollerStep
<1>1. conn[c] \in Connection
  BY DEF IInv, TypeOK
<1>2. /\ r \in Connection /\ r.fd = conn[c].fd /\ r.poll = conn[c].poll
      /\ r.events = conn[c].events \/ r.events # {}
  BY <1>1, SendFacts
<1>3. PollKept(conn[c], r) \/ PollAsked(conn[c], r)
  BY <1>1, <1>2 DEF PollKept, PollAsked, Unknown, Connection, Polling
<1> QED
  BY <1>2, <1>3, SetOne, ConnectionUpdates

(* Both who send use it so. *)
LEMMA SendingPolls ==
    ASSUME IInv, Sending, Running'
    PROVE  PollerStep
<1>1. CASE RunSend
  <2> DEFINE c == Head(batch).conn
             m == Head(batch).msg
  <2>1. batch # <<>> /\ Head(batch).op = "send"
    BY <1>1 DEF RunSend, NextFunctor
  <2>2. c \in Conns /\ m \in Messages /\ conn[c].poll # "new"
    BY <2>1, NextFunctorFacts
  <2>3. PICK r \in SendInLoop(conn[c], m) : ~Unknown(conn[c], r) /\ Set(c, r) /\ UNCHANGED active
    BY <1>1 DEF RunSend, Assert_, Running
  <2> HIDE DEF c, m
  <2> QED
    BY <2>2, <2>3, SendAsks
<1>2. ASSUME NEW c \in Conns, SendOwner(c)
      PROVE  PollerStep
  <2>1. conn[c].state = "eConnected" /\ sends < MaxSends
    BY <1>2 DEF SendOwner
  <2>2. Message(Owner) \in Messages /\ conn[c].poll # "new"
    BY <2>1, MaxSendsNat DEF IInv, TypeOK, Lifetime, Message, Messages
  <2>3. PICK r \in SendInLoop(conn[c], Message(Owner)) :
           ~Unknown(conn[c], r) /\ Set(c, r) /\ UNCHANGED active
    BY <1>2 DEF SendOwner, Assert_, Running, loopVars
  <2> QED
    BY <2>2, <2>3, SendAsks
<1> QED
  BY <1>1, <1>2 DEF Sending

(* The steps that change a connection and let the poller know, or not. *)
LEMMA ChangingPolls ==
    ASSUME IInv, Changing, Running'
    PROVE  PollerStep
<1>1. \A c \in Conns : conn[c] \in Connection
  BY DEF IInv, TypeOK
<1>2. ASSUME NEW c \in Conns, NEW r \in Connection, Set(c, r), DOMAIN active' = DOMAIN active,
             PollKept(conn[c], r) \/ PollAsked(conn[c], r)
      PROVE  PollerStep
  BY <1>2, SetOne, ConnectionUpdates
<1>3. \A ev \in {"in", "out", "hup"} : Handled(ev) => DOMAIN active' = DOMAIN active
  BY EventHandled
<1>4. CASE HandleHangup \/ ReadEnd
  <2> DEFINE r == Closing(conn[cur])
  <2>1. Set(cur, r) /\ DOMAIN active' = DOMAIN active
    BY <1>3, <1>4 DEF HandleHangup, ReadEnd, HandleClose, Assert_, Running
  <2>2. cur \in Conns /\ Registered(cur) /\ conn[cur].poll # "new"
    BY <1>4, CurrentEvent DEF HandleHangup, ReadEnd
  <2>3. r \in Connection /\ r.events = {} /\ r.fd = conn[cur].fd /\ r.poll = "muted"
    BY <1>1, <2>2, ClosingFacts
  <2> HIDE DEF r
  <2>4. PollAsked(conn[cur], r)
    BY <2>2, <2>3 DEF PollAsked, Registered
  <2> QED
    BY <1>2, <2>1, <2>2, <2>3, <2>4
<1>5. CASE ReadMessage \/ ReadError
  <2>1. cur \in Conns
    BY <1>5, CurrentEvent DEF ReadMessage, ReadError
  <2>2. CASE ReadMessage
    <3> DEFINE r == [conn[cur] EXCEPT !.unread = FALSE, !.heard = "message"]
    <3>1. r \in Connection /\ PollKept(conn[cur], r)
      BY <1>1, <2>1 DEF Connection, PollKept
    <3>2. Set(cur, r) /\ DOMAIN active' = DOMAIN active
      BY <1>3, <2>2 DEF ReadMessage
    <3> QED
      BY <1>2, <2>1, <3>1, <3>2
  <2>3. CASE ReadError
    <3> DEFINE r == GetSocketError(conn[cur])
    <3>1. r \in Connection /\ PollKept(conn[cur], r)
      BY <1>1, <2>1 DEF Connection, PollKept, GetSocketError, Peers
    <3>2. Set(cur, r) /\ DOMAIN active' = DOMAIN active
      BY <1>3, <2>3 DEF ReadError
    <3> QED
      BY <1>2, <2>1, <3>1, <3>2
  <2> QED
    BY <1>5, <2>2, <2>3
<1>6. CASE WriteEvent
  <2>1. PICK r \in HandleWrite(conn[cur]) : Set(cur, r)
    BY <1>6 DEF WriteEvent
  <2>2. cur \in Conns /\ Registered(cur) /\ conn[cur].poll # "new"
    BY <1>6, CurrentEvent DEF WriteEvent
  <2>3. DOMAIN active' = DOMAIN active
    BY <1>3, <1>6 DEF WriteEvent
  <2>4. /\ r \in Connection /\ r.fd = conn[cur].fd
        /\ \/ r.events = conn[cur].events /\ r.poll = conn[cur].poll
           \/ r.poll = IF r.events = {} THEN "muted" ELSE conn[cur].poll
    BY <1>1, <2>1, <2>2, HandleWriteFacts
  <2>5. PollKept(conn[cur], r) \/ PollAsked(conn[cur], r)
    BY <2>2, <2>4 DEF PollKept, PollAsked, Registered
  <2> QED
    BY <1>2, <2>1, <2>2, <2>3, <2>4, <2>5
<1>7. CASE RunDestroy
  <2>0. PICK c : c = Head(batch).conn
    OBVIOUS
  <2> DEFINE r == Down(conn[c])
  <2>1. c \in Conns /\ Registered(c) /\ conn[c].poll # "new"
    BY <1>7, <2>0, DestroyedIsRegistered DEF Registered
  <2>2. Set(c, r) /\ UNCHANGED active
    BY <1>7, <2>0 DEF RunDestroy, Assert_, Running
  <2>3. r \in Connection /\ r.events = {} /\ r.fd = conn[c].fd /\ r.poll = "muted"
    BY <1>1, <2>1, DownFacts
  <2> HIDE DEF r
  <2>4. PollAsked(conn[c], r)
    BY <2>1, <2>3 DEF PollAsked, Registered
  <2> QED
    BY <1>2, <2>1, <2>2, <2>3, <2>4
<1>8. CASE RunShutdown
  <2>0. PICK c : c = Head(batch).conn
    OBVIOUS
  <2> DEFINE r == ShutdownInLoop(conn[c])
  <2>1. c \in Conns
    BY <1>8, <2>0, NextFunctorFacts DEF RunShutdown, NextFunctor
  <2>2. Set(c, r) /\ UNCHANGED active
    BY <1>8, <2>0 DEF RunShutdown
  <2>3. r \in Connection /\ PollKept(conn[c], r)
    BY <1>1, <2>1, ShutdownFacts DEF PollKept
  <2> HIDE DEF r
  <2> QED
    BY <1>2, <2>1, <2>2, <2>3
<1>9. ASSUME NEW c \in Conns, ShutDownOwner(c)
      PROVE  PollerStep
  <2> DEFINE k == [conn[c] EXCEPT !.state = "eDisconnecting"]
             r == ShutdownInLoop(k)
  <2>1. Set(c, r) /\ UNCHANGED active
    BY <1>9 DEF ShutDownOwner, loopVars
  <2>2. k \in Connection /\ PollKept(conn[c], k)
    BY <1>1 DEF Connection, States, PollKept
  <2> HIDE DEF k
  <2>3. r \in Connection /\ PollKept(conn[c], r)
    BY <2>2, ShutdownFacts DEF PollKept
  <2> HIDE DEF r
  <2> QED
    BY <1>2, <2>1, <2>3
<1>10. ASSUME NEW c \in Conns, PeerSends(c) \/ PeerFinishes(c) \/ PeerResets(c) \/ PeerReads(c)
       PROVE  PollerStep
  <2> DEFINE k == conn[c]
  <2>1. PICK r \in {[k EXCEPT !.unread = TRUE], [k EXCEPT !.peer = "fin"],
                    [k EXCEPT !.peer = "reset"], [k EXCEPT !.full = FALSE]} :
           Set(c, r) /\ UNCHANGED active
    BY <1>10 DEF PeerSends, PeerFinishes, PeerResets, PeerReads, Peer, loopVars
  <2>2. r \in Connection /\ PollKept(conn[c], r)
    BY <1>1, <2>1 DEF Connection, Peers, PollKept
  <2> QED
    BY <1>2, <2>1, <2>2
<1>11. ASSUME NEW t \in Threads, ShutDownSetsState(t)
       PROVE  PollerStep
  <2>0. PICK c : c = call[t].conn
    OBVIOUS
  <2> DEFINE r == [conn[c] EXCEPT !.state = "eDisconnecting"]
  <2>1. c \in Conns /\ Set(c, r) /\ UNCHANGED active
    BY <1>11, <2>0, QueueTypes DEF ShutDownSetsState, loopVars, Calls, Functors, Idle
  <2>2. r \in Connection /\ PollKept(conn[c], r)
    BY <1>1, <2>1 DEF Connection, States, PollKept
  <2> HIDE DEF r
  <2> QED
    BY <1>2, <2>1, <2>2
<1> QED
  BY <1>4, <1>5, <1>6, <1>7, <1>8, <1>9, <1>10, <1>11, DownRemoves, AcceptRegisters DEF Changing

(* After an assert has failed nobody moves. *)
LEMMA NextNeedsRunning == Next => Running
BY DEF Next, LoopStep, OwnerStep, ThreadStep, PeerStep, NextFunctor, InUserCode, Peer,
       StartLoop, LeaveLoop, DestroyServer, StartOwner, Hold, Poll, EndEvent,
       BeginPendingFunctors, EndPendingFunctors, AcceptFails, UpReturns, MessageReturns,
       RunListen, BeginEvent, Release, PeerConnects, PeerGivesUp, StartThread, CallQueues,
       SendChecks, ShutDownChecks, DownReturns, HandleHangup, ReadMessage, ReadError, ReadEnd,
       WriteEvent, RunDestroy, RunShutdown, RunSend, AcceptConnection, SendOwner, ShutDownOwner,
       PeerSends, PeerFinishes, PeerResets, PeerReads, ShutDownSetsState

(* An assert that fails leaves the poller alone. *)
LEMMA FailurePolls ==
    ASSUME IInv, [Next]_vars, Running, ~Running'
    PROVE  PollerStep
<1>1. UNCHANGED <<conn, active>>
  BY OnlyLateSendsFail DEF Running, RunSend, Assert_, loopVars
<1>2. \A d \in Conns : PollKept(conn[d], conn'[d])
  BY <1>1 DEF PollKept
<1> QED
  BY <1>1, <1>2, PollerUntouched DEF PollerStep

(* The connections and the loop use the poller within what PollSet allows, for
   any number of connections, threads and messages: a channel is registered once,
   under a descriptor that no registered channel has (CPoller.cpp:50), asks while
   it is registered only, and is removed when it asks for nothing and the events
   of the poll are handled (CPoller.cpp:104-107).  With PollSetImplemented this
   joins the two halves: CPoller serves this program. *)
THEOREM PollerIsUsedRightly == Spec => UsesPollSet
<1>1. Init => Poller!Init
  <2> SUFFICES ASSUME Init PROVE Poller!Init
    OBVIOUS
  <2>1. \A c \in Conns : conn[c].poll = "new" /\ conn[c].events = {}
    BY DEF Init, NoConnection, NewConnection
  <2>2. EverPolled = {} /\ Polled = {} /\ {d \in Conns : Registered(d)} = {}
    BY <2>1 DEF EverPolled, Polled, Registered
  <2>3. /\ Descriptors = [c \in {} |-> 0] /\ Interest = [c \in {} |-> {}]
        /\ Wanted = [c \in Conns |-> {}]
    BY <2>1, <2>2 DEF Descriptors, Interest, Wanted
  <2> QED
    BY <2>2, <2>3 DEF Poller!Init, Init
<1>2. IInv /\ [Next]_vars => PollerStep
  <2> SUFFICES ASSUME IInv, [Next]_vars PROVE PollerStep
    OBVIOUS
  <2>1. CASE UNCHANGED vars
    <3>1. UNCHANGED <<conn, active>>
      BY <2>1 DEF vars, loopVars
    <3>2. \A d \in Conns : PollKept(conn[d], conn'[d])
      BY <3>1 DEF PollKept
    <3> QED
      BY <3>1, <3>2, PollerUntouched DEF PollerStep
  <2>2. CASE Next
    <3>1. Running
      BY <2>2, NextNeedsRunning
    <3> QED
      BY <2>2, <3>1, FailurePolls, KindsOfSteps, QuietPolls, ChangingPolls, SendingPolls
  <2> QED
    BY <2>1, <2>2
<1> QED
  BY <1>1, <1>2, Invariance, PTL DEF Spec, UsesPollSet, Poller!Spec, PollerStep
=============================================================================
