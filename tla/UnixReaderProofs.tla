---------------------------- MODULE UnixReaderProofs ----------------------------
(***************************************************************************)
(* Proofs about UnixReader, for any number of requests and pings and any   *)
(* size of a read: every descriptor has one owner, and no write_image gets *)
(* another one's image.                                                    *)
(***************************************************************************)
EXTENDS UnixReader, FiniteSetTheorems, SequenceTheorems, TLAPS

Units == [line : Nat, end : BOOLEAN, fd : BOOLEAN]
TypeOK ==
    /\ lines \in Seq({"write", "ping"}) /\ stream \in Seq(Units) /\ buf \in Seq(Units)
    /\ gone \in BOOLEAN /\ eof \in BOOLEAN /\ loop \in {"next", "handle", "ended"}
    /\ pending \in Seq(Nat) /\ msg \in [line : Nat, fds : Seq(Nat)]
    /\ open \subseteq Nat /\ used \in Seq(Seq(Nat)) /\ crowded \subseteq Nat

(* The lines that have left the buffer, and the units of all the others,   *)
(* in the buffer first, in the socket then.                                *)
Taken == IF loop = "handle" THEN Len(used) + 1 ELSE Len(used)
Ahead(k) == IF k <= Len(buf) THEN buf[k] ELSE stream[k - Len(buf)]

(* Lines are taken in order, and none is torn on its way.                  *)
Order ==
    /\ Taken <= Len(lines)
    /\ loop = "handle" => msg.line = Taken
    /\ Len(buf) + Len(stream) = 2 * (Len(lines) - Taken)
    /\ \A j \in 1 .. Len(lines) - Taken :
         /\ Ahead(2 * j - 1) = Unit(Taken + j, FALSE, lines[Taken + j] = "write")
         /\ Ahead(2 * j) = Unit(Taken + j, TRUE, FALSE)

(* Of the lines without an answer there is one of each kind at most, and   *)
(* the later one was sent while the other had none.                        *)
Unhandled == Len(used) + 1 .. Len(lines)
TwoSenders ==
    \A i, j \in Unhandled : /\ lines[i] = lines[j] => i = j
                            /\ i < j => j \in crowded

(* A line whose start the reader has.                                      *)
Begun(i) == i \in Taken + 1 .. Len(lines) /\ 2 * (i - Taken) - 1 <= Len(buf)

(* The reader has no descriptor but the one of the write_image whose start *)
(* it has, and lacks that one only if it went with the ping in front.      *)
Held ==
    loop # "ended" =>
        /\ pending # <<>> =>
             \E i \in Unhandled : Begun(i) /\ lines[i] = "write" /\ pending = <<i>>
        /\ \A i \in Unhandled :
             Begun(i) /\ lines[i] = "write" => pending = <<i>> \/ i \in crowded
        /\ loop = "handle" =>
             /\ pending = <<>>
             /\ lines[msg.line] = "write" =>
                  msg.fds = <<msg.line>> \/ (msg.line \in crowded /\ msg.fds = <<>>)

-----------------------------------------------------------------------------
(* A set of one or no element as a sequence.                               *)
LEMMA ListOf == SetToSeq({}) = <<>> /\ \A x : SetToSeq({x}) = <<x>>
<1>1. SetToSeq({}) = <<>>
  <2>1. Cardinality({}) = 0
      BY FS_EmptySet
  <2>2. <<>> \in [1 .. 0 -> {}] /\ IsInjective(<<>>)
      BY DEF IsInjective
  <2>3. \A f \in [1 .. 0 -> {}] : f = <<>>
      OBVIOUS
  <2> QED
      BY <2>1, <2>2, <2>3 DEF SetToSeq
<1>2. ASSUME NEW x PROVE SetToSeq({x}) = <<x>>
  <2>1. Cardinality({x}) = 1
      BY FS_Singleton
  <2>2. <<x>> \in [1 .. 1 -> {x}] /\ IsInjective(<<x>>)
      BY DEF IsInjective
  <2>3. \A f \in [1 .. 1 -> {x}] : f = <<x>>
      OBVIOUS
  <2> QED
      BY <2>1, <2>2, <2>3 DEF SetToSeq
<1> QED
    BY <1>1, <1>2

(* A place in the order of the units belongs to a line.                    *)
LEMMA Half == \A p \in Nat \ {0} : \E j \in Nat \ {0} : p = 2 * j - 1 \/ p = 2 * j
<1> SUFFICES ASSUME NEW p \in Nat \ {0}
             PROVE  \E j \in Nat \ {0} : p = 2 * j - 1 \/ p = 2 * j
    OBVIOUS
<1> DEFINE j == (p + 1) \div 2
<1>1. j \in Nat \ {0} /\ (p = 2 * j - 1 \/ p = 2 * j)
    OBVIOUS
<1> HIDE DEF j
<1> QED
    BY <1>1

(* The lengths are numbers.                                                *)
LEMMA Lengths ==
    TypeOK => /\ Len(lines) \in Nat /\ Len(buf) \in Nat /\ Len(stream) \in Nat
              /\ Len(used) \in Nat /\ Taken \in Nat /\ Taken >= Len(used)
              /\ DOMAIN lines = 1 .. Len(lines) /\ DOMAIN used = 1 .. Len(used)
              /\ DOMAIN buf = 1 .. Len(buf) /\ DOMAIN stream = 1 .. Len(stream)
BY LenProperties DEF TypeOK, Taken

(* A line that has not been taken has not been handled.                    *)
LEMMA Untaken ==
    TypeOK => \A i \in Taken + 1 .. Len(lines) : i \in Unhandled /\ i \in 1 .. Len(lines)
<1> SUFFICES ASSUME TypeOK, NEW i \in Taken + 1 .. Len(lines)
             PROVE  i \in Unhandled /\ i \in 1 .. Len(lines)
    OBVIOUS
<1> QED
    BY Lengths DEF Unhandled

(* Each unit is the start or the end of its line.                          *)
LEMMA UnitAt ==
    ASSUME TypeOK, Order, NEW p \in 1 .. Len(buf) + Len(stream)
    PROVE  \E i \in Taken + 1 .. Len(lines) :
             \/ p = 2 * (i - Taken) - 1 /\ Ahead(p) = Unit(i, FALSE, lines[i] = "write")
             \/ p = 2 * (i - Taken) /\ Ahead(p) = Unit(i, TRUE, FALSE)
<1>1. p \in Nat \ {0}
    BY Lengths
<1>2. PICK j \in Nat \ {0} : p = 2 * j - 1 \/ p = 2 * j
    BY <1>1, Half
<1>3. j \in 1 .. Len(lines) - Taken /\ Taken + j \in Taken + 1 .. Len(lines)
    BY <1>2, Lengths DEF Order
<1>4. (Taken + j) - Taken = j
    BY <1>3, Lengths
<1> QED
    BY <1>2, <1>3, <1>4 DEF Order

(* A descriptor in the socket is the one of a line whose start is there.   *)
LEMMA FdAt ==
    ASSUME TypeOK, Order, NEW m \in 1 .. Len(stream)
    PROVE  stream[m].fd => /\ stream[m].line \in Taken + 1 .. Len(lines)
                           /\ lines[stream[m].line] = "write"
                           /\ Len(buf) + m = 2 * (stream[m].line - Taken) - 1
<1>1. Len(buf) + m \in 1 .. Len(buf) + Len(stream) /\ Ahead(Len(buf) + m) = stream[m]
    BY Lengths DEF Ahead
<1>2. PICK i \in Taken + 1 .. Len(lines) :
        \/ /\ Len(buf) + m = 2 * (i - Taken) - 1
           /\ Ahead(Len(buf) + m) = Unit(i, FALSE, lines[i] = "write")
        \/ Len(buf) + m = 2 * (i - Taken) /\ Ahead(Len(buf) + m) = Unit(i, TRUE, FALSE)
    BY <1>1, UnitAt
<1>3. CASE Ahead(Len(buf) + m) = Unit(i, TRUE, FALSE)
    BY <1>1, <1>3 DEF Unit
<1>4. CASE /\ Len(buf) + m = 2 * (i - Taken) - 1
           /\ Ahead(Len(buf) + m) = Unit(i, FALSE, lines[i] = "write")
  <2>1. stream[m].line = i /\ stream[m].fd = (lines[i] = "write")
      BY <1>1, <1>4 DEF Unit
  <2> QED
      BY <1>4, <2>1
<1> QED
    BY <1>2, <1>3, <1>4

(* There is one at most, since there is one write_image at most.           *)
LEMMA OneFd ==
    ASSUME TypeOK, Order, TwoSenders,
           NEW m \in 1 .. Len(stream), stream[m].fd, NEW n \in 1 .. Len(stream), stream[n].fd
    PROVE  m = n
<1>1. /\ stream[m].line \in Taken + 1 .. Len(lines) /\ lines[stream[m].line] = "write"
      /\ Len(buf) + m = 2 * (stream[m].line - Taken) - 1
    BY FdAt
<1>2. /\ stream[n].line \in Taken + 1 .. Len(lines) /\ lines[stream[n].line] = "write"
      /\ Len(buf) + n = 2 * (stream[n].line - Taken) - 1
    BY FdAt
<1>3. stream[m].line = stream[n].line
  <2>1. stream[m].line \in Unhandled /\ stream[n].line \in Unhandled
      BY <1>1, <1>2, Untaken
  <2> QED
      BY <1>1, <1>2, <2>1 DEF TwoSenders
<1> QED
    BY <1>1, <1>2, <1>3, Lengths

(* A read gets no more than there is.                                      *)
LEMMA Reach ==
    ASSUME TypeOK, Order, TwoSenders, stream # <<>>, NEW n \in 1 .. Shorter(ChunkCap, Barrier)
    PROVE  n \in 1 .. Len(stream)
<1>1. FirstFd \in Nat
  <2> DEFINE First(f) == /\ f > 0 => stream[f].fd
                         /\ \A m \in DOMAIN stream : stream[m].fd => 0 < f /\ f <= m
  <2>1. \E f \in 0 .. Len(stream) : First(f)
    <3>1. CASE \E m \in 1 .. Len(stream) : stream[m].fd
      <4>1. PICK m \in 1 .. Len(stream) : stream[m].fd
          BY <3>1
      <4>2. First(m)
          BY <4>1, Lengths, OneFd
      <4> QED
          BY <4>2, Lengths
    <3>2. CASE \A m \in 1 .. Len(stream) : ~stream[m].fd
      <4>1. First(0)
          BY <3>2, Lengths
      <4> QED
          BY <4>1, Lengths
    <3> QED
        BY <3>1, <3>2
  <2>2. FirstFd \in 0 .. Len(stream)
      BY <2>1 DEF FirstFd
  <2> QED
      BY <2>2, Lengths
<1>2. Barrier \in Int /\ Barrier <= Len(stream)
    BY <1>1, Lengths DEF Barrier, Shorter
<1> QED
    BY <1>2, BoundsAssumption, Lengths DEF Shorter

-----------------------------------------------------------------------------
(* What a send does to the lines and the socket.                           *)
LEMMA Sends ==
    ASSUME TypeOK, NEW k \in {"write", "ping"}, NEW max, Send(k, max)
    PROVE  /\ lines' \in Seq({"write", "ping"}) /\ Len(lines') = Len(lines) + 1
           /\ \A i \in 1 .. Len(lines) : lines'[i] = lines[i]
           /\ lines'[Len(lines) + 1] = k
           /\ stream' \in Seq(Units) /\ Len(stream') = Len(stream) + 2
           /\ \A m \in 1 .. Len(stream) : stream'[m] = stream[m]
           /\ stream'[Len(stream) + 1] = Unit(Len(lines) + 1, FALSE, k = "write")
           /\ stream'[Len(stream) + 2] = Unit(Len(lines) + 1, TRUE, FALSE)
           /\ UNCHANGED <<gone, buf, pending, eof, loop, msg, open, used>>
<1> DEFINE u == Unit(Len(lines) + 1, FALSE, k = "write")
           v == Unit(Len(lines) + 1, TRUE, FALSE)
<1>1. u \in Units /\ v \in Units
    BY Lengths DEF Units, Unit
<1>2. /\ lines' = Append(lines, k) /\ stream' = stream \o <<u, v>>
      /\ UNCHANGED <<gone, buf, pending, eof, loop, msg, open, used>>
    BY DEF Send
<1> HIDE DEF u, v
<1>3. /\ <<u, v>> \in Seq(Units) /\ Len(<<u, v>>) = 2
      /\ <<u, v>>[1] = u /\ <<u, v>>[2] = v
    BY <1>1
<1>4. /\ stream' \in Seq(Units) /\ Len(stream') = Len(stream) + 2
      /\ \A m \in 1 .. Len(stream) + 2 :
           stream'[m] = IF m <= Len(stream) THEN stream[m] ELSE <<u, v>>[m - Len(stream)]
    BY <1>2, <1>3, ConcatProperties DEF TypeOK
<1>5. /\ \A m \in 1 .. Len(stream) : stream'[m] = stream[m]
      /\ stream'[Len(stream) + 1] = u /\ stream'[Len(stream) + 2] = v
    BY <1>3, <1>4, Lengths
<1>6. /\ lines' \in Seq({"write", "ping"}) /\ Len(lines') = Len(lines) + 1
      /\ \A i \in 1 .. Len(lines) : lines'[i] = lines[i]
      /\ lines'[Len(lines) + 1] = k
    BY <1>2, AppendProperties DEF TypeOK
<1> QED
    BY <1>2, <1>4, <1>5, <1>6 DEF u, v

(* next returns the first line ahead, the descriptors all go with it.      *)
LEMMA Takes ==
    ASSUME TypeOK, Order, NextLine
    PROVE  /\ loop = "next" /\ loop' = "handle"
           /\ Taken = Len(used) /\ Taken' = Taken + 1 /\ Taken < Len(lines)
           /\ msg' = [line |-> Taken + 1, fds |-> pending] /\ pending' = <<>>
           /\ buf' \in Seq(Units) /\ Len(buf) >= 2 /\ Len(buf') = Len(buf) - 2
           /\ \A k \in 1 .. Len(buf) - 2 : buf'[k] = buf[k + 2]
           /\ UNCHANGED <<lines, stream, gone, eof, open, used, crowded>>
<1>1. /\ loop = "next" /\ loop' = "handle" /\ pending' = <<>> /\ HasLine
      /\ UNCHANGED <<lines, stream, gone, eof, open, used, crowded>>
    BY DEF NextLine, TakeLine
<1>2. Taken = Len(used) /\ Taken' = Taken + 1
    BY <1>1 DEF Taken
<1>3. PICK p \in 1 .. Len(buf) : buf[p].end
    BY <1>1, Lengths DEF HasLine, Newlines
<1>4. Taken < Len(lines)
    BY <1>3, Lengths DEF Order
<1>5. /\ Ahead(1) = Unit(Taken + 1, FALSE, lines[Taken + 1] = "write")
      /\ Ahead(2) = Unit(Taken + 1, TRUE, FALSE)
  <2>1. 1 \in 1 .. Len(lines) - Taken
      BY <1>4, Lengths
  <2>2. /\ Ahead(2 * 1 - 1) = Unit(Taken + 1, FALSE, lines[Taken + 1] = "write")
        /\ Ahead(2 * 1) = Unit(Taken + 1, TRUE, FALSE)
      BY <2>1 DEF Order
  <2>3. 2 * 1 - 1 = 1 /\ 2 * 1 = 2
      OBVIOUS
  <2> QED
      BY <2>2, <2>3
<1>6. ~buf[1].end
    BY <1>3, <1>5, Lengths DEF Ahead, Unit
<1>7. Len(buf) >= 2 /\ buf[2].end /\ buf[2].line = Taken + 1
  <2>1. Len(buf) >= 2
      BY <1>3, <1>6, Lengths
  <2> QED
      BY <1>5, <2>1, Lengths DEF Ahead, Unit
<1> DEFINE c == CHOOSE n \in Newlines : \A m \in Newlines : n <= m
<1>8. c = 2
  <2>1. /\ 2 \in Newlines /\ 1 \notin Newlines /\ Newlines \subseteq 1 .. Len(buf)
      BY <1>6, <1>7, Lengths DEF Newlines
  <2>2. \A n \in Newlines : n >= 2
      BY <2>1, Lengths
  <2>3. \A n \in Newlines : (\A m \in Newlines : n <= m) => n = 2
      BY <2>1, <2>2, Lengths
  <2>4. \E n \in Newlines : \A m \in Newlines : n <= m
      BY <2>1, <2>2
  <2> QED
      BY <2>3, <2>4
<1>9. buf' = SubSeq(buf, 3, Len(buf)) /\ msg' = [line |-> Taken + 1, fds |-> pending]
  <2>1. buf' = SubSeq(buf, c + 1, Len(buf)) /\ msg' = [line |-> buf[c].line, fds |-> pending]
      BY DEF NextLine, TakeLine
  <2> HIDE DEF c
  <2> QED
      BY <1>7, <1>8, <2>1
<1>10. \A i \in 3 .. Len(buf) : buf[i] \in Units
    BY Lengths, ElementOfSeq DEF TypeOK
<1>11. /\ buf' \in Seq(Units) /\ Len(buf') = Len(buf) - 2
       /\ \A k \in 1 .. Len(buf) - 2 : buf'[k] = buf[k + 2]
  <2>1. /\ SubSeq(buf, 3, Len(buf)) \in Seq(Units)
        /\ Len(SubSeq(buf, 3, Len(buf))) = IF 3 <= Len(buf) THEN Len(buf) - 3 + 1 ELSE 0
        /\ \A k \in 1 .. Len(buf) - 3 + 1 : SubSeq(buf, 3, Len(buf))[k] = buf[3 + k - 1]
      BY <1>10, Lengths, SubSeqProperties
  <2>2. \A k \in 1 .. Len(buf) - 2 : k \in 1 .. Len(buf) - 3 + 1 /\ 3 + k - 1 = k + 2
      BY <1>7, Lengths
  <2> QED
      BY <1>7, <1>9, <2>1, <2>2, Lengths
<1> QED
    BY <1>1, <1>2, <1>4, <1>7, <1>9, <1>11

(* A read moves units from the socket to the buffer, with the descriptor   *)
(* among them, if there is one.                                            *)
LEMMA Receives ==
    ASSUME TypeOK, Order, TwoSenders, Recvmsg
    PROVE  \E n \in 1 .. Len(stream) :
             /\ buf' \in Seq(Units) /\ Len(buf') = Len(buf) + n
             /\ stream' \in Seq(Units) /\ Len(stream') = Len(stream) - n
             /\ \A k \in 1 .. Len(buf) + Len(stream) : Ahead(k)' = Ahead(k)
             /\ \/ /\ \A m \in 1 .. n : ~stream[m].fd
                   /\ UNCHANGED <<pending, open>>
                \/ \E m \in 1 .. n : /\ stream[m].fd
                                     /\ pending' = pending \o <<stream[m].line>>
                                     /\ open' = open \cup {stream[m].line}
<1>1. stream # <<>>
    BY DEF Recvmsg
<1> DEFINE Fds(n) == {stream[k].line : k \in {m \in 1 .. n : stream[m].fd}}
<1>2. PICK n \in 1 .. Shorter(ChunkCap, Barrier) :
        /\ buf' = buf \o SubSeq(stream, 1, n)
        /\ stream' = SubSeq(stream, n + 1, Len(stream))
        /\ pending' = pending \o SetToSeq(Fds(n))
        /\ open' = open \cup Fds(n)
    BY DEF Recvmsg
<1>3. n \in 1 .. Len(stream) /\ n \in Nat
    BY <1>1, <1>2, Reach, Lengths
<1>4. /\ SubSeq(stream, 1, n) \in Seq(Units) /\ Len(SubSeq(stream, 1, n)) = n
      /\ \A k \in 1 .. n : SubSeq(stream, 1, n)[k] = stream[k]
  <2>1. \A i \in 1 .. n : stream[i] \in Units
      BY <1>3, Lengths, ElementOfSeq DEF TypeOK
  <2>2. /\ SubSeq(stream, 1, n) \in Seq(Units)
        /\ Len(SubSeq(stream, 1, n)) = IF 1 <= n THEN n - 1 + 1 ELSE 0
        /\ \A k \in 1 .. n - 1 + 1 : SubSeq(stream, 1, n)[k] = stream[1 + k - 1]
      BY <1>3, <2>1, SubSeqProperties
  <2> QED
      BY <1>3, <2>2
<1>5. /\ stream' \in Seq(Units) /\ Len(stream') = Len(stream) - n
      /\ \A k \in 1 .. Len(stream) - n : stream'[k] = stream[n + k]
  <2>1. \A i \in n + 1 .. Len(stream) : stream[i] \in Units
      BY <1>3, Lengths, ElementOfSeq DEF TypeOK
  <2>2. /\ stream' \in Seq(Units)
        /\ Len(stream') = IF n + 1 <= Len(stream) THEN Len(stream) - (n + 1) + 1 ELSE 0
        /\ \A k \in 1 .. Len(stream) - (n + 1) + 1 : stream'[k] = stream[n + 1 + k - 1]
      BY <1>2, <1>3, <2>1, Lengths, SubSeqProperties
  <2>3. \A k \in 1 .. Len(stream) - n :
          k \in 1 .. Len(stream) - (n + 1) + 1 /\ n + 1 + k - 1 = n + k
      BY <1>3, Lengths
  <2>4. Len(stream') = Len(stream) - n
    <3>1. Len(stream') = IF n + 1 <= Len(stream) THEN Len(stream) - (n + 1) + 1 ELSE 0
        BY <2>2
    <3> DEFINE l == Len(stream)
    <3>2. l \in Nat /\ n \in 1 .. l /\ Len(stream') = IF n + 1 <= l THEN l - (n + 1) + 1 ELSE 0
        BY <1>3, <3>1, Lengths
    <3> HIDE DEF l
    <3>3. Len(stream') = l - n
        BY <3>2
    <3> QED
        BY <3>3 DEF l
  <2>5. ASSUME NEW k \in 1 .. Len(stream) - n PROVE stream'[k] = stream[n + k]
      BY <2>2, <2>3
  <2> QED
      BY <2>2, <2>4, <2>5
<1>6. /\ buf' \in Seq(Units) /\ Len(buf') = Len(buf) + n
      /\ \A k \in 1 .. Len(buf) + n :
           buf'[k] = IF k <= Len(buf) THEN buf[k] ELSE SubSeq(stream, 1, n)[k - Len(buf)]
  <2> DEFINE s == SubSeq(stream, 1, n)
  <2>1. s \in Seq(Units) /\ Len(s) = n /\ buf' = buf \o s
      BY <1>2, <1>4
  <2> HIDE DEF s
  <2>2. buf \in Seq(Units)
      BY DEF TypeOK
  <2>3. /\ buf \o s \in Seq(Units) /\ Len(buf \o s) = Len(buf) + Len(s)
        /\ \A k \in 1 .. Len(buf) + Len(s) :
             (buf \o s)[k] = IF k <= Len(buf) THEN buf[k] ELSE s[k - Len(buf)]
      BY <2>1, <2>2, ConcatProperties
  <2>4. /\ buf' \in Seq(Units) /\ Len(buf') = Len(buf) + n
        /\ \A k \in 1 .. Len(buf) + n :
             buf'[k] = IF k <= Len(buf) THEN buf[k] ELSE s[k - Len(buf)]
      BY <2>1, <2>3
  <2> QED
      BY <2>4 DEF s
<1>7. ASSUME NEW k \in 1 .. Len(buf) + Len(stream) PROVE Ahead(k)' = Ahead(k)
  <2>1. CASE k <= Len(buf)
      BY <1>3, <1>6, <2>1, Lengths DEF Ahead
  <2>2. CASE k \in Len(buf) + 1 .. Len(buf) + n
    <3>1. /\ k - Len(buf) \in 1 .. n /\ k \in 1 .. Len(buf) + n
          /\ ~(k <= Len(buf)) /\ k <= Len(buf')
        BY <1>3, <1>6, <2>2, Lengths
    <3> QED
        BY <1>4, <1>6, <3>1 DEF Ahead
  <2>3. CASE k \in Len(buf) + n + 1 .. Len(buf) + Len(stream)
    <3>1. /\ k - Len(buf') \in 1 .. Len(stream) - n /\ ~(k <= Len(buf)) /\ ~(k <= Len(buf'))
          /\ n + (k - Len(buf')) = k - Len(buf)
        BY <1>3, <1>6, <2>3, Lengths
    <3> QED
        BY <1>5, <3>1 DEF Ahead
  <2> QED
      BY <1>3, <2>1, <2>2, <2>3, Lengths
<1>8. CASE \A m \in 1 .. n : ~stream[m].fd
  <2>1. Fds(n) = {}
      BY <1>8
  <2>2. pending' = pending /\ open' = open
      BY <1>2, <2>1, ListOf, ConcatEmptySeq DEF TypeOK
  <2> QED
      BY <1>3, <1>5, <1>6, <1>7, <1>8, <2>2
<1>9. CASE \E m \in 1 .. n : stream[m].fd
  <2>1. PICK m \in 1 .. n : stream[m].fd
      BY <1>9
  <2>2. \A k \in 1 .. n : stream[k].fd => k = m
      BY <1>3, <2>1, OneFd, Lengths
  <2>3. Fds(n) = {stream[m].line}
      BY <2>1, <2>2
  <2>4. /\ pending' = pending \o <<stream[m].line>>
        /\ open' = open \cup {stream[m].line}
      BY <1>2, <2>3, ListOf
  <2> QED
      BY <1>3, <1>5, <1>6, <1>7, <2>1, <2>4
<1> QED
    BY <1>8, <1>9


-----------------------------------------------------------------------------
(* The invariant.                                                          *)
IInv == TypeOK /\ Order /\ TwoSenders /\ Held /\ NeverAnothersImage /\ DescriptorsAccounted

(* A sequence of descriptors stays one when another is appended.           *)
LEMMA OneMore ==
    ASSUME NEW s \in Seq(Nat), NEW x \in Nat
    PROVE  s \o <<x>> \in Seq(Nat) /\ ToSet(s \o <<x>>) = ToSet(s) \cup {x}
<1>1. /\ Len(s) \in Nat /\ <<x>> \in Seq(Nat) /\ Len(<<x>>) = 1 /\ <<x>>[1] = x
      /\ DOMAIN s = 1 .. Len(s)
    BY LenProperties
<1>2. /\ s \o <<x>> \in Seq(Nat) /\ Len(s \o <<x>>) = Len(s) + 1
      /\ \A i \in 1 .. Len(s) + 1 :
           (s \o <<x>>)[i] = IF i <= Len(s) THEN s[i] ELSE <<x>>[i - Len(s)]
    BY <1>1, ConcatProperties
<1> DEFINE t == s \o <<x>>
<1>3. t \in Seq(Nat) /\ DOMAIN t = 1 .. Len(s) + 1
    BY <1>2, LenProperties
<1>4. (\A i \in 1 .. Len(s) : t[i] = s[i]) /\ t[Len(s) + 1] = x
    BY <1>1, <1>2
<1> HIDE DEF t
<1>5. ToSet(t) = ToSet(s) \cup {x}
  <2>1. ASSUME NEW y \in ToSet(t) PROVE y \in ToSet(s) \cup {x}
    <3>1. PICK i \in 1 .. Len(s) + 1 : y = t[i]
        BY <1>3 DEF ToSet
    <3>2. i \in 1 .. Len(s) \/ i = Len(s) + 1
        BY <1>1
    <3> QED
        BY <1>1, <1>4, <3>1, <3>2 DEF ToSet
  <2>2. ASSUME NEW y \in ToSet(s) \cup {x} PROVE y \in ToSet(t)
    <3>1. CASE y = x
      <4>1. Len(s) + 1 \in DOMAIN t
          BY <1>1, <1>3
      <4> QED
          BY <1>4, <3>1, <4>1 DEF ToSet
    <3>2. CASE y \in ToSet(s)
      <4>1. PICK i \in 1 .. Len(s) : y = s[i]
          BY <1>1, <3>2 DEF ToSet
      <4>2. i \in DOMAIN t
          BY <1>1, <1>3
      <4> QED
          BY <1>4, <4>1, <4>2 DEF ToSet
    <3> QED
        BY <2>2, <3>1, <3>2
  <2> QED
      BY <2>1, <2>2
<1> QED
    BY <1>3, <1>5 DEF t

(* Nothing is in an empty list.                                            *)
LEMMA NoneIn == ToSet(<<>>) = {}
BY DEF ToSet

(* Every variable keeps its type.                                          *)
LEMMA StepType == ASSUME TypeOK, Order, TwoSenders, [Next]_vars PROVE TypeOK'
<1>1. ASSUME NEW k \in {"write", "ping"}, NEW max, Send(k, max) PROVE TypeOK'
  <2>1. /\ lines' \in Seq({"write", "ping"}) /\ stream' \in Seq(Units)
        /\ UNCHANGED <<gone, buf, pending, eof, loop, msg, open, used>>
      BY <1>1, Sends
  <2>2. crowded' \subseteq Nat
    <3>1. crowded' = crowded \/ crowded' = crowded \cup {Len(lines) + 1}
        BY <1>1 DEF Send
    <3>2. crowded \subseteq Nat /\ Len(lines) + 1 \in Nat
        BY Lengths DEF TypeOK
    <3> QED
        BY <3>1, <3>2
  <2> QED
      BY <2>1, <2>2 DEF TypeOK
<1>2. CASE SendWrite \/ SendPing
    BY <1>1, <1>2 DEF SendWrite, SendPing
<1>3. CASE NextLine
  <2>1. /\ loop' = "handle" /\ buf' \in Seq(Units) /\ pending' = <<>>
        /\ msg' = [line |-> Taken + 1, fds |-> pending]
        /\ UNCHANGED <<lines, stream, gone, eof, open, used, crowded>>
      BY <1>3, Takes
  <2>2. msg' \in [line : Nat, fds : Seq(Nat)] /\ pending' \in Seq(Nat)
      BY <2>1, Lengths DEF TypeOK
  <2> QED
      BY <2>1, <2>2 DEF TypeOK
<1>4. CASE Recvmsg
  <2>1. PICK n \in 1 .. Len(stream) :
          /\ buf' \in Seq(Units) /\ stream' \in Seq(Units)
          /\ \/ UNCHANGED <<pending, open>>
             \/ \E m \in 1 .. n : /\ stream[m].fd
                                  /\ pending' = pending \o <<stream[m].line>>
                                  /\ open' = open \cup {stream[m].line}
      BY <1>4, Receives
  <2>2. pending' \in Seq(Nat) /\ open' \subseteq Nat
    <3>1. CASE UNCHANGED <<pending, open>>
        BY <3>1 DEF TypeOK
    <3>2. ASSUME NEW m \in 1 .. n, stream[m].fd, pending' = pending \o <<stream[m].line>>,
                 open' = open \cup {stream[m].line}
          PROVE  pending' \in Seq(Nat) /\ open' \subseteq Nat
      <4>1. m \in 1 .. Len(stream)
          BY Lengths
      <4>2. stream[m].line \in Nat
          BY <3>2, <4>1, FdAt, Lengths
      <4> QED
          BY <3>2, <4>2, OneMore DEF TypeOK
    <3> QED
        BY <2>1, <3>1, <3>2
  <2>3. UNCHANGED <<lines, gone, eof, loop, msg, used, crowded>>
      BY <1>4 DEF Recvmsg
  <2> QED
      BY <2>1, <2>2, <2>3 DEF TypeOK
<1>5. CASE Handle
  <2>1. msg.fds \in Seq(Nat) /\ <<>> \in Seq(Nat)
      BY DEF TypeOK
  <2>2. used' \in Seq(Seq(Nat)) /\ open' \subseteq open /\ loop' = "next"
      BY <1>5, <2>1, AppendProperties DEF Handle, TypeOK
  <2>3. UNCHANGED <<lines, stream, gone, buf, pending, eof, msg, crowded>>
      BY <1>5 DEF Handle
  <2> QED
      BY <2>2, <2>3 DEF TypeOK
<1>6. CASE RecvFails
  <2>1. /\ open' \subseteq open /\ pending' = <<>> /\ loop' = "ended"
        /\ UNCHANGED <<lines, stream, gone, buf, eof, msg, used, crowded>>
      BY <1>6 DEF RecvFails, GiveUp
  <2> QED
      BY <2>1 DEF TypeOK
<1>7. CASE AppLeaves
  <2>1. gone' \in BOOLEAN
      BY <1>7 DEF AppLeaves
  <2> QED
      BY <1>7, <2>1 DEF AppLeaves, TypeOK
<1>8. CASE RecvEOF
  <2>1. eof' \in BOOLEAN
      BY <1>8 DEF RecvEOF
  <2> QED
      BY <1>8, <2>1 DEF RecvEOF, TypeOK
<1>9. CASE UNCHANGED vars
    BY <1>9 DEF vars, TypeOK
<1> QED
    BY <1>2, <1>3, <1>4, <1>5, <1>6, <1>7, <1>8, <1>9 DEF Next

(* What the other actions leave alone.                                     *)
LEMMA Calm ==
    ASSUME TypeOK, AppLeaves \/ RecvEOF \/ RecvFails \/ Handle \/ UNCHANGED vars
    PROVE  UNCHANGED <<lines, stream, buf, msg, crowded, Taken>>
<1>1. CASE Handle
  <2>1. UNCHANGED <<lines, stream, buf, msg, crowded>>
      BY <1>1 DEF Handle
  <2>2. loop = "handle" /\ loop' = "next" /\ Len(used') = Len(used) + 1
    <3> DEFINE s == IF lines[msg.line] = "write" THEN msg.fds ELSE <<>>
    <3>1. loop = "handle" /\ loop' = "next" /\ used' = Append(used, s)
        BY <1>1 DEF Handle
    <3>2. s \in Seq(Nat) /\ used \in Seq(Seq(Nat))
        BY DEF TypeOK
    <3> HIDE DEF s
    <3> QED
        BY <3>1, <3>2, AppendProperties
  <2> QED
      BY <2>1, <2>2 DEF Taken
<1>2. CASE RecvFails
    BY <1>2 DEF RecvFails, GiveUp, Taken
<1>3. CASE AppLeaves \/ RecvEOF \/ UNCHANGED vars
    BY <1>3 DEF AppLeaves, RecvEOF, vars, Taken
<1> QED
    BY <1>1, <1>2, <1>3

(* The lines stay in order.                                                *)
LEMMA StepOrder == ASSUME TypeOK, Order, TwoSenders, [Next]_vars PROVE Order'
<1>1. ASSUME NEW k \in {"write", "ping"}, NEW max, Send(k, max) PROVE Order'
  <2>1. /\ Len(lines') = Len(lines) + 1 /\ Len(stream') = Len(stream) + 2
        /\ \A i \in 1 .. Len(lines) : lines'[i] = lines[i]
        /\ lines'[Len(lines) + 1] = k
        /\ \A m \in 1 .. Len(stream) : stream'[m] = stream[m]
        /\ stream'[Len(stream) + 1] = Unit(Len(lines) + 1, FALSE, k = "write")
        /\ stream'[Len(stream) + 2] = Unit(Len(lines) + 1, TRUE, FALSE)
        /\ UNCHANGED <<buf, loop, msg, used>>
      BY <1>1, Sends
  <2>2. Taken' = Taken
      BY <2>1 DEF Taken
  <2>3. ASSUME NEW p \in 1 .. Len(buf) + Len(stream) PROVE Ahead(p)' = Ahead(p)
    <3>1. CASE p <= Len(buf)
        BY <2>1, <3>1 DEF Ahead
    <3>2. CASE ~(p <= Len(buf))
      <4>1. p - Len(buf) \in 1 .. Len(stream)
          BY <3>2, Lengths
      <4> QED
          BY <2>1, <3>2, <4>1 DEF Ahead
    <3> QED
        BY <3>1, <3>2
  <2>4. /\ Taken <= Len(lines) /\ (loop = "handle" => msg.line = Taken)
        /\ Len(buf) + Len(stream) = 2 * (Len(lines) - Taken)
      BY DEF Order
  <2>5. /\ Taken' <= Len(lines') /\ (loop' = "handle" => msg'.line = Taken')
        /\ Len(buf') + Len(stream') = 2 * (Len(lines') - Taken')
    <3>1. Taken' <= Len(lines')
        BY <2>1, <2>2, <2>4, Lengths
    <3>2. loop' = "handle" => msg'.line = Taken'
        BY <2>1, <2>2, <2>4
    <3>3. Len(buf') = Len(buf) /\ Len(stream') = Len(stream) + 2 /\ Len(lines') = Len(lines) + 1
        BY <2>1
    <3>4. Len(buf') + Len(stream') = 2 * (Len(lines') - Taken')
      <4>1. Len(buf) + Len(stream) = 2 * (Len(lines) - Taken)
          BY <2>4
      <4>2. \A a, b, c, t \in Nat : a + b = 2 * (c - t) => a + (b + 2) = 2 * (c + 1 - t)
          OBVIOUS
      <4>3. Len(buf) + (Len(stream) + 2) = 2 * (Len(lines) + 1 - Taken)
          BY <4>1, <4>2, Lengths
      <4> QED
          BY <2>2, <3>3, <4>3, Lengths
    <3> QED
        BY <3>1, <3>2, <3>4
  <2>6. ASSUME NEW j \in 1 .. Len(lines) + 1 - Taken
        PROVE  /\ Ahead(2 * j - 1)' = Unit(Taken + j, FALSE, lines'[Taken + j] = "write")
               /\ Ahead(2 * j)' = Unit(Taken + j, TRUE, FALSE)
    <3>1. CASE j \in 1 .. Len(lines) - Taken
      <4>1. /\ 2 * j - 1 \in 1 .. Len(buf) + Len(stream)
            /\ 2 * j \in 1 .. Len(buf) + Len(stream)
            /\ Taken + j \in 1 .. Len(lines)
          BY <2>4, <3>1, Lengths
      <4>2. /\ Ahead(2 * j - 1) = Unit(Taken + j, FALSE, lines[Taken + j] = "write")
            /\ Ahead(2 * j) = Unit(Taken + j, TRUE, FALSE)
          BY <3>1 DEF Order
      <4>3. lines'[Taken + j] = lines[Taken + j]
          BY <2>1, <4>1
      <4>4. Ahead(2 * j - 1)' = Ahead(2 * j - 1) /\ Ahead(2 * j)' = Ahead(2 * j)
          BY <2>3, <4>1
      <4> QED
          BY <4>2, <4>3, <4>4
    <3>2. CASE Taken + j = Len(lines) + 1
      <4>1. /\ 2 * j - 1 - Len(buf) = Len(stream) + 1 /\ 2 * j - Len(buf) = Len(stream) + 2
            /\ ~(2 * j - 1 <= Len(buf)) /\ ~(2 * j <= Len(buf))
          BY <2>4, <3>2, Lengths
      <4>2. /\ Ahead(2 * j - 1)' = stream'[Len(stream) + 1]
            /\ Ahead(2 * j)' = stream'[Len(stream) + 2]
          BY <2>1, <4>1 DEF Ahead
      <4> QED
          BY <2>1, <3>2, <4>2
    <3>3. j \in 1 .. Len(lines) - Taken \/ Taken + j = Len(lines) + 1
        BY <2>4, Lengths
    <3> QED
        BY <3>1, <3>2, <3>3
  <2>7. ASSUME NEW j \in 1 .. Len(lines') - Taken'
        PROVE  /\ Ahead(2 * j - 1)' = Unit(Taken' + j, FALSE, lines'[Taken' + j] = "write")
               /\ Ahead(2 * j)' = Unit(Taken' + j, TRUE, FALSE)
    <3>1. j \in 1 .. Len(lines) + 1 - Taken
      <4>1. Len(lines') = Len(lines) + 1
          BY <2>1
      <4> QED
          BY <2>2, <4>1, Lengths
    <3> QED
        BY <2>2, <2>6, <3>1
  <2> QED
      BY <2>5, <2>7 DEF Order
<1>2. CASE SendWrite \/ SendPing
    BY <1>1, <1>2 DEF SendWrite, SendPing
<1>3. CASE NextLine
  <2>1. /\ loop' = "handle" /\ Taken' = Taken + 1 /\ Taken < Len(lines)
        /\ msg' = [line |-> Taken + 1, fds |-> pending]
        /\ Len(buf) >= 2 /\ Len(buf') = Len(buf) - 2
        /\ \A k \in 1 .. Len(buf) - 2 : buf'[k] = buf[k + 2]
        /\ UNCHANGED <<lines, stream>>
      BY <1>3, Takes
  <2>2. ASSUME NEW p \in 1 .. Len(buf) + Len(stream) - 2 PROVE Ahead(p)' = Ahead(p + 2)
    <3>1. CASE p \in 1 .. Len(buf) - 2
      <4>1. p <= Len(buf') /\ p + 2 <= Len(buf)
          BY <2>1, <3>1, Lengths
      <4> QED
          BY <2>1, <3>1, <4>1 DEF Ahead
    <3>2. CASE p > Len(buf) - 2
      <4>1. /\ ~(p <= Len(buf')) /\ ~(p + 2 <= Len(buf))
            /\ p - Len(buf') = (p + 2) - Len(buf)
          BY <2>1, <3>2, Lengths
      <4> QED
          BY <2>1, <4>1 DEF Ahead
    <3> QED
        BY <2>1, <3>1, <3>2, Lengths
  <2>3. /\ Taken' <= Len(lines') /\ (loop' = "handle" => msg'.line = Taken')
        /\ Len(buf') + Len(stream') = 2 * (Len(lines') - Taken')
    <3>1. Taken' <= Len(lines') /\ msg'.line = Taken'
        BY <2>1, Lengths
    <3>2. Len(buf) + Len(stream) = 2 * (Len(lines) - Taken)
        BY DEF Order
    <3>3. lines' = lines /\ stream' = stream
        BY <2>1
    <3>4. Len(buf') + Len(stream') = 2 * (Len(lines') - Taken')
        BY <2>1, <3>2, <3>3, Lengths
    <3> QED
        BY <3>1, <3>4
  <2>4. ASSUME NEW j \in 1 .. Len(lines) - (Taken + 1)
        PROVE  /\ Ahead(2 * j - 1)' = Unit(Taken + 1 + j, FALSE, lines[Taken + 1 + j] = "write")
               /\ Ahead(2 * j)' = Unit(Taken + 1 + j, TRUE, FALSE)
    <3>1. /\ j + 1 \in 1 .. Len(lines) - Taken /\ Taken + (j + 1) = Taken + 1 + j
          /\ 2 * j - 1 + 2 = 2 * (j + 1) - 1 /\ 2 * j + 2 = 2 * (j + 1)
        BY Lengths
    <3>2. /\ Ahead(2 * (j + 1) - 1)
               = Unit(Taken + (j + 1), FALSE, lines[Taken + (j + 1)] = "write")
          /\ Ahead(2 * (j + 1)) = Unit(Taken + (j + 1), TRUE, FALSE)
        BY <3>1 DEF Order
    <3>3. /\ 2 * j - 1 \in 1 .. Len(buf) + Len(stream) - 2
          /\ 2 * j \in 1 .. Len(buf) + Len(stream) - 2
        BY <2>1, Lengths DEF Order
    <3>4. Ahead(2 * j - 1)' = Ahead(2 * j - 1 + 2) /\ Ahead(2 * j)' = Ahead(2 * j + 2)
        BY <2>2, <3>3
    <3> QED
        BY <3>1, <3>2, <3>4
  <2> QED
      BY <2>1, <2>3, <2>4 DEF Order
<1>4. CASE Recvmsg
  <2>1. PICK n \in 1 .. Len(stream) :
          /\ Len(buf') = Len(buf) + n /\ Len(stream') = Len(stream) - n
          /\ \A k \in 1 .. Len(buf) + Len(stream) : Ahead(k)' = Ahead(k)
      BY <1>4, Receives
  <2>2. UNCHANGED <<lines, loop, msg, used, Taken>>
      BY <1>4 DEF Recvmsg, Taken
  <2>3. /\ Taken' <= Len(lines') /\ (loop' = "handle" => msg'.line = Taken')
        /\ Len(buf') + Len(stream') = 2 * (Len(lines') - Taken')
      BY <2>1, <2>2, Lengths DEF Order
  <2>4. ASSUME NEW j \in 1 .. Len(lines) - Taken
        PROVE  /\ Ahead(2 * j - 1)' = Unit(Taken + j, FALSE, lines[Taken + j] = "write")
               /\ Ahead(2 * j)' = Unit(Taken + j, TRUE, FALSE)
    <3>1. 2 * j - 1 \in 1 .. Len(buf) + Len(stream) /\ 2 * j \in 1 .. Len(buf) + Len(stream)
        BY Lengths DEF Order
    <3> QED
        BY <2>1, <3>1 DEF Order
  <2> QED
      BY <2>2, <2>3, <2>4 DEF Order
<1>5. CASE AppLeaves \/ RecvEOF \/ RecvFails \/ Handle \/ UNCHANGED vars
  <2>1. UNCHANGED <<lines, stream, buf, msg, Taken>>
      BY <1>5, Calm
  <2>2. loop' = "handle" => loop = "handle"
      BY <1>5 DEF AppLeaves, RecvEOF, RecvFails, GiveUp, Handle, vars
  <2>3. \A k : Ahead(k)' = Ahead(k)
      BY <2>1 DEF Ahead
  <2> QED
      BY <2>1, <2>2, <2>3 DEF Order
<1> QED
    BY <1>2, <1>3, <1>4, <1>5 DEF Next

(* Each sender waits for its answer.                                       *)
LEMMA StepTwo == ASSUME TypeOK, Order, TwoSenders, [Next]_vars PROVE TwoSenders'
<1>1. ASSUME NEW k \in {"write", "ping"}, NEW max, Send(k, max) PROVE TwoSenders'
  <2>1. /\ Len(lines') = Len(lines) + 1 /\ lines'[Len(lines) + 1] = k
        /\ \A i \in 1 .. Len(lines) : lines'[i] = lines[i]
        /\ used' = used
      BY <1>1, Sends
  <2>2. /\ \A i \in Unhandled : lines[i] # k /\ lines'[i] = lines[i]
        /\ Unhandled' \subseteq Unhandled \cup {Len(lines) + 1}
        /\ \A i \in Unhandled : i < Len(lines) + 1 /\ i \in Nat
    <3>1. \A i \in Unhandled : i \in 1 .. Len(lines) /\ i \notin 1 .. Len(used)
        BY Lengths DEF Unhandled
    <3>2. \A i \in Unhandled : lines[i] # k
        BY <1>1, <3>1, Lengths DEF Send, Handled
    <3> QED
        BY <2>1, <3>1, <3>2, Lengths DEF Unhandled
  <2>3. /\ crowded \subseteq crowded'
        /\ Unhandled # {} => Len(lines) + 1 \in crowded'
    <3>1. ASSUME NEW i \in Unhandled PROVE i \in DOMAIN lines /\ ~Handled(i)
        BY Lengths DEF Unhandled, Handled
    <3> QED
        BY <1>1, <3>1 DEF Send
  <2>4. ASSUME NEW i \in Unhandled', NEW j \in Unhandled'
        PROVE  (lines'[i] = lines'[j] => i = j) /\ (i < j => j \in crowded')
    <3>1. CASE i \in Unhandled /\ j \in Unhandled
        BY <2>2, <2>3, <3>1 DEF TwoSenders
    <3>2. CASE i = Len(lines) + 1 /\ j \in Unhandled
        BY <2>1, <2>2, <3>2, Lengths
    <3>3. CASE i \in Unhandled /\ j = Len(lines) + 1
        BY <2>1, <2>2, <2>3, <3>3
    <3>4. CASE i = Len(lines) + 1 /\ j = Len(lines) + 1
        BY <3>4, Lengths
    <3> QED
        BY <2>2, <3>1, <3>2, <3>3, <3>4
  <2> QED
      BY <2>4 DEF TwoSenders
<1>2. CASE SendWrite \/ SendPing
    BY <1>1, <1>2 DEF SendWrite, SendPing
<1>3. ASSUME lines' = lines, crowded' = crowded, Len(used') \in Nat, Len(used') >= Len(used)
      PROVE  TwoSenders'
  <2>1. Unhandled' \subseteq Unhandled
      BY <1>3, Lengths DEF Unhandled
  <2> QED
      BY <1>3, <2>1 DEF TwoSenders
<1>4. CASE NextLine \/ Recvmsg \/ AppLeaves \/ RecvEOF \/ RecvFails \/ UNCHANGED vars
  <2>1. UNCHANGED <<lines, crowded, used>>
    <3>1. CASE NextLine
        BY <3>1 DEF NextLine, TakeLine
    <3>2. CASE Recvmsg
        BY <3>2 DEF Recvmsg
    <3>3. CASE AppLeaves \/ RecvEOF \/ RecvFails \/ UNCHANGED vars
        BY <3>3 DEF AppLeaves, RecvEOF, RecvFails, GiveUp, vars
    <3> QED
        BY <1>4, <3>1, <3>2, <3>3
  <2> QED
      BY <1>3, <2>1, Lengths
<1>5. CASE Handle
  <2>1. UNCHANGED <<lines, crowded>> /\ loop = "handle" /\ loop' = "next" /\ Taken' = Taken
      BY <1>5, Calm DEF Handle
  <2>2. Len(used') = Len(used) + 1
      BY <2>1, Lengths DEF Taken
  <2> QED
      BY <1>3, <2>1, <2>2, Lengths
<1> QED
    BY <1>2, <1>4, <1>5 DEF Next

(* What the reader holds is the image of the write_image it is receiving.  *)
LEMMA StepHeld ==
    ASSUME TypeOK, Order, TwoSenders, Held, Order', TypeOK', [Next]_vars PROVE Held'
<1> DEFINE Write(i) == i \in Unhandled /\ Begun(i) /\ lines[i] = "write"
<1>1. ASSUME NEW k \in {"write", "ping"}, NEW max, Send(k, max) PROVE Held'
  <2>1. /\ Len(lines') = Len(lines) + 1
        /\ \A i \in 1 .. Len(lines) : lines'[i] = lines[i]
        /\ UNCHANGED <<buf, pending, loop, msg, used>>
      BY <1>1, Sends
  <2>2. Taken' = Taken /\ crowded \subseteq crowded'
      BY <1>1, <2>1 DEF Taken, Send
  <2>3. /\ Len(buf) <= 2 * (Len(lines) - Taken) /\ Taken <= Len(lines)
        /\ (loop = "handle" => msg.line \in 1 .. Len(lines))
    <3>1. Taken <= Len(lines) /\ Len(buf) + Len(stream) = 2 * (Len(lines) - Taken)
        BY DEF Order
    <3>2. loop = "handle" => msg.line = Len(used) + 1 /\ Taken = Len(used) + 1
        BY DEF Order, Taken
    <3> QED
        BY <3>1, <3>2, Lengths
  <2>4. \A i : Write(i)' <=> Write(i)
    <3>1. \A i \in Unhandled' : Begun(i)' => i \in 1 .. Len(lines)
        BY <2>1, <2>2, <2>3, Lengths DEF Begun
    <3>2. \A i \in 1 .. Len(lines) : (i \in Unhandled' <=> i \in Unhandled)
                                     /\ (Begun(i)' <=> Begun(i))
        BY <2>1, <2>2, Lengths DEF Begun, Unhandled
    <3>3. \A i \in Unhandled : i \in 1 .. Len(lines)
        BY Lengths DEF Unhandled
    <3> QED
        BY <2>1, <3>1, <3>2, <3>3
  <2>5. /\ loop # "ended" =>
             /\ pending = <<>> \/ \E i : Write(i) /\ pending = <<i>>
             /\ \A i : Write(i) => pending = <<i>> \/ i \in crowded
        /\ loop = "handle" =>
             /\ pending = <<>>
             /\ lines[msg.line] = "write" =>
                  msg.fds = <<msg.line>> \/ (msg.line \in crowded /\ msg.fds = <<>>)
      BY DEF Held
  <2>6. loop = "handle" => lines'[msg.line] = lines[msg.line]
      BY <2>1, <2>3
  <2> HIDE DEF Write
  <2>7. /\ loop' # "ended" =>
             /\ pending' = <<>> \/ \E i : Write(i)' /\ pending' = <<i>>
             /\ \A i : Write(i)' => pending' = <<i>> \/ i \in crowded'
        /\ loop' = "handle" =>
             /\ pending' = <<>>
             /\ lines'[msg'.line] = "write" =>
                  msg'.fds = <<msg'.line>> \/ (msg'.line \in crowded' /\ msg'.fds = <<>>)
      BY <2>1, <2>2, <2>4, <2>5, <2>6
  <2> USE DEF Write
  <2> QED
      BY <2>7 DEF Held
<1>2. CASE SendWrite \/ SendPing
    BY <1>1, <1>2 DEF SendWrite, SendPing
<1>3. CASE NextLine
  <2>1. /\ loop = "next" /\ loop' = "handle" /\ Taken = Len(used) /\ Taken' = Taken + 1
        /\ Taken < Len(lines) /\ msg' = [line |-> Taken + 1, fds |-> pending]
        /\ pending' = <<>> /\ Len(buf) >= 2 /\ Len(buf') = Len(buf) - 2
        /\ UNCHANGED <<lines, used, crowded>>
      BY <1>3, Takes
  <2>2. Taken + 1 \in Unhandled /\ Begun(Taken + 1)
      BY <2>1, Lengths DEF Unhandled, Begun
  <2>3. ASSUME NEW i, Write(i)' PROVE i \in crowded'
    <3>1. i \in Unhandled /\ Taken + 1 \in Unhandled /\ Taken + 1 < i
        BY <2>1, <2>2, <2>3, Lengths DEF Begun, Unhandled
    <3> QED
        BY <2>1, <3>1 DEF TwoSenders
  <2>4. lines[Taken + 1] = "write" =>
          pending = <<Taken + 1>> \/ (Taken + 1 \in crowded /\ pending = <<>>)
    <3>1. SUFFICES ASSUME lines[Taken + 1] = "write", pending # <<Taken + 1>>
                   PROVE  Taken + 1 \in crowded /\ pending = <<>>
        OBVIOUS
    <3>2. Taken + 1 \in crowded
        BY <2>1, <2>2, <3>1 DEF Held
    <3>3. ASSUME NEW i \in Unhandled, lines[i] = "write", pending = <<i>> PROVE FALSE
      <4>1. i = Taken + 1
          BY <2>2, <3>1, <3>3 DEF TwoSenders
      <4> QED
          BY <3>1, <3>3, <4>1
    <3>4. pending = <<>>
        BY <2>1, <3>3 DEF Held
    <3> QED
        BY <3>2, <3>4
  <2>5. msg'.line = Taken + 1 /\ msg'.fds = pending
      BY <2>1
  <2> QED
      BY <2>1, <2>3, <2>4, <2>5 DEF Held
<1>4. CASE Recvmsg
  <2>1. PICK n \in 1 .. Len(stream) :
          /\ Len(buf') = Len(buf) + n
          /\ \/ /\ \A m \in 1 .. n : ~stream[m].fd
                /\ UNCHANGED <<pending, open>>
             \/ \E m \in 1 .. n : stream[m].fd /\ pending' = pending \o <<stream[m].line>>
      BY <1>4, Receives
  <2>2. loop = "next" /\ UNCHANGED <<lines, loop, msg, used, crowded, Taken>>
      BY <1>4 DEF Recvmsg, Taken
  <2>3. \A i : /\ Write(i) => Write(i)'
               /\ Write(i)' <=> /\ i \in Taken + 1 .. Len(lines) /\ lines[i] = "write"
                                /\ 2 * (i - Taken) - 1 <= Len(buf) + n
      BY <2>1, <2>2, Lengths DEF Begun, Unhandled
  <2>4. /\ pending = <<>> \/ \E i : Write(i) /\ pending = <<i>>
        /\ \A i : Write(i) => pending = <<i>> \/ i \in crowded
      BY <2>2 DEF Held
  (* A write_image whose start comes with this read.                       *)
  <2>5. ASSUME NEW i, Write(i)', ~Write(i)
        PROVE  \E m \in 1 .. n : stream[m].fd /\ stream[m].line = i
    <3>1. /\ i \in Taken + 1 .. Len(lines) /\ lines[i] = "write"
          /\ 2 * (i - Taken) - 1 <= Len(buf) + n
        BY <2>3, <2>5
    <3>2. ~(2 * (i - Taken) - 1 <= Len(buf))
        BY <2>5, <3>1, Untaken DEF Begun
    <3> DEFINE j == i - Taken
               m == 2 * j - 1 - Len(buf)
    <3>3. /\ j \in 1 .. Len(lines) - Taken /\ Taken + j = i /\ m \in 1 .. n
          /\ Len(buf) + m = 2 * j - 1 /\ ~(2 * j - 1 <= Len(buf))
      <4>1. /\ j \in 1 .. Len(lines) - Taken /\ Taken + j = i
            /\ 2 * j - 1 <= Len(buf) + n /\ ~(2 * j - 1 <= Len(buf))
          BY <3>1, <3>2, Lengths
      <4> HIDE DEF j
      <4>2. m \in 1 .. n /\ Len(buf) + m = 2 * j - 1
          BY <4>1, Lengths
      <4> QED
          BY <4>1, <4>2
    <3>4. Ahead(2 * j - 1) = Unit(i, FALSE, TRUE)
      <4>1. Ahead(2 * j - 1) = Unit(Taken + j, FALSE, lines[Taken + j] = "write")
          BY <3>3 DEF Order
      <4> HIDE DEF j
      <4> QED
          BY <3>1, <3>3, <4>1
    <3>5. Ahead(2 * j - 1) = stream[m]
        BY <3>3 DEF Ahead
    <3> HIDE DEF j, m
    <3>6. stream[m].fd /\ stream[m].line = i
        BY <3>4, <3>5 DEF Unit
    <3> QED
        BY <3>3, <3>6
  <2>6. \A i, j : Write(i)' /\ Write(j)' => i = j
    <3>1. \A i : Write(i)' => i \in Unhandled
        BY <2>3, Untaken
    <3> QED
        BY <2>3, <3>1 DEF TwoSenders
  <2>7. CASE \A m \in 1 .. n : ~stream[m].fd
    <3>1. pending' = pending /\ crowded' = crowded
        BY <2>1, <2>2, <2>7
    <3>2. \A i : Write(i)' <=> Write(i)
        BY <2>3, <2>5, <2>7
    <3> HIDE DEF Write
    <3>3. /\ pending' = <<>> \/ \E i : Write(i)' /\ pending' = <<i>>
          /\ \A i : Write(i)' => pending' = <<i>> \/ i \in crowded'
        BY <2>4, <3>1, <3>2
    <3> USE DEF Write
    <3> QED
        BY <2>2, <3>3 DEF Held
  <2>8. ASSUME NEW m \in 1 .. n, stream[m].fd, pending' = pending \o <<stream[m].line>>
        PROVE  Held'
    <3>0. PICK w : w = stream[m].line
        OBVIOUS
    <3>1. /\ w \in Taken + 1 .. Len(lines) /\ lines[w] = "write"
          /\ Len(buf) + m = 2 * (w - Taken) - 1
      <4>1. m \in 1 .. Len(stream)
          BY Lengths
      <4> QED
          BY <2>8, <3>0, <4>1, FdAt
    <3>2. Write(w)' /\ ~Write(w)
      <4>1. 2 * (w - Taken) - 1 <= Len(buf) + n /\ ~(2 * (w - Taken) - 1 <= Len(buf))
          BY <3>1, Lengths
      <4>2. ~Write(w)
          BY <4>1 DEF Begun
      <4>3. Write(w)'
          BY <2>3, <3>1, <4>1
      <4> QED
          BY <4>2, <4>3
    <3> HIDE DEF Write
    <3>3. \A i : ~Write(i)
        BY <2>3, <2>6, <3>2
    <3>4. pending' = <<w>>
      <4>1. pending = <<>> /\ pending' = pending \o <<w>>
          BY <2>4, <2>8, <3>0, <3>3
      <4> QED
          BY <4>1
    <3>5. \A i : Write(i)' => i = w
        BY <2>6, <3>2
    <3>6. /\ \E i : Write(i)' /\ pending' = <<i>>
          /\ \A i : Write(i)' => pending' = <<i>>
        BY <3>2, <3>4, <3>5
    <3> USE DEF Write
    <3> QED
        BY <2>2, <3>6 DEF Held
  <2> QED
      BY <2>1, <2>7, <2>8
<1>5. CASE Handle
  <2>1. /\ loop = "handle" /\ loop' = "next"
        /\ UNCHANGED <<pending, lines, crowded, buf, Taken>>
      BY <1>5, Calm DEF Handle
  <2>2. pending = <<>> /\ \A i : Write(i) => i \in crowded
      BY <2>1 DEF Held
  <2>3. Len(used') \in Nat /\ Len(used') >= Len(used)
      BY <2>1, Lengths DEF Taken
  <2>4. \A i : Write(i)' => Write(i)
      BY <2>1, <2>3, Lengths DEF Begun, Unhandled
  <2> QED
      BY <2>1, <2>2, <2>4 DEF Held
<1>6. CASE RecvFails
    BY <1>6 DEF RecvFails, GiveUp, Held
<1>7. CASE AppLeaves \/ RecvEOF \/ UNCHANGED vars
  <2>1. UNCHANGED <<pending, lines, crowded, buf, msg, loop, used>>
      BY <1>7 DEF AppLeaves, RecvEOF, vars
  <2> QED
      BY <2>1 DEF Held, Unhandled, Begun, Taken
<1> QED
    BY <1>2, <1>3, <1>4, <1>5, <1>6, <1>7 DEF Next

(* Nothing but Handle gives descriptors to a line.                         *)
LEMMA StepImage ==
    ASSUME TypeOK, Order, Held, NeverAnothersImage, [Next]_vars PROVE NeverAnothersImage'
<1>1. Taken <= Len(lines)
    BY DEF Order
<1>2. \A i \in DOMAIN used : i \in 1 .. Len(lines)
    BY <1>1, Lengths
<1>3. ASSUME used' = used, crowded \subseteq crowded',
             \A i \in 1 .. Len(lines) : lines'[i] = lines[i]
      PROVE  NeverAnothersImage'
    BY <1>2, <1>3 DEF NeverAnothersImage
<1>4. ASSUME NEW k \in {"write", "ping"}, NEW max, Send(k, max) PROVE NeverAnothersImage'
  <2>1. used' = used /\ \A i \in 1 .. Len(lines) : lines'[i] = lines[i]
      BY <1>4, Sends
  <2>2. crowded \subseteq crowded'
      BY <1>4 DEF Send
  <2> QED
      BY <1>3, <2>1, <2>2
<1>5. CASE SendWrite \/ SendPing
    BY <1>4, <1>5 DEF SendWrite, SendPing
<1>6. CASE NextLine \/ Recvmsg \/ AppLeaves \/ RecvEOF \/ RecvFails \/ UNCHANGED vars
  <2>1. UNCHANGED <<lines, crowded, used>>
    <3>1. CASE NextLine
        BY <3>1 DEF NextLine, TakeLine
    <3>2. CASE Recvmsg
        BY <3>2 DEF Recvmsg
    <3>3. CASE AppLeaves \/ RecvEOF \/ RecvFails \/ UNCHANGED vars
        BY <3>3 DEF AppLeaves, RecvEOF, RecvFails, GiveUp, vars
    <3> QED
        BY <1>6, <3>1, <3>2, <3>3
  <2> QED
      BY <1>3, <2>1
<1>7. CASE Handle
  <2> DEFINE s == IF lines[msg.line] = "write" THEN msg.fds ELSE <<>>
             l == Len(used) + 1
  <2>1. loop = "handle" /\ used' = Append(used, s) /\ UNCHANGED <<lines, crowded>>
      BY <1>7 DEF Handle
  <2>2. msg.line = l
      BY <2>1 DEF Order, Taken
  <2>3. lines[l] = "write" => s = <<l>> \/ (l \in crowded /\ s = <<>>)
      BY <2>1, <2>2 DEF Held
  <2>4. s \in Seq(Nat) /\ used \in Seq(Seq(Nat))
      BY DEF TypeOK
  <2> HIDE DEF s
  <2>5. /\ used' \in Seq(Seq(Nat)) /\ Len(used') = l
        /\ \A i \in 1 .. Len(used) : used'[i] = used[i]
        /\ used'[l] = s
      BY <2>1, <2>4, AppendProperties
  <2>6. ASSUME NEW i \in DOMAIN used', lines'[i] = "write"
        PROVE  used'[i] = <<i>> \/ (i \in crowded' /\ used'[i] = <<>>)
    <3>1. i \in 1 .. l
        BY <2>5, LenProperties
    <3>2. CASE i = l
        BY <2>1, <2>3, <2>5, <2>6, <3>2
    <3>3. CASE i \in 1 .. Len(used)
      <4>1. i \in DOMAIN used
          BY <3>3, Lengths
      <4> HIDE DEF l
      <4> QED
          BY <2>1, <2>5, <2>6, <3>3, <4>1 DEF NeverAnothersImage
    <3> QED
        BY <3>1, <3>2, <3>3, Lengths
  <2> QED
      BY <2>6 DEF NeverAnothersImage
<1> QED
    BY <1>5, <1>6, <1>7 DEF Next

(* No descriptor is lost between the reader, the handler and close.        *)
LEMMA StepOwners ==
    ASSUME TypeOK, Order, TwoSenders, DescriptorsAccounted, [Next]_vars
    PROVE  DescriptorsAccounted'
<1>1. CASE NextLine
  <2>1. /\ loop = "next" /\ loop' = "handle" /\ pending' = <<>> /\ open' = open
        /\ msg'.fds = pending
      BY <1>1, Takes
  <2> QED
      BY <2>1, NoneIn DEF DescriptorsAccounted
<1>2. CASE Recvmsg
  <2>1. PICK n \in 1 .. Len(stream) :
          \/ UNCHANGED <<pending, open>>
          \/ \E m \in 1 .. n : /\ stream[m].fd
                               /\ pending' = pending \o <<stream[m].line>>
                               /\ open' = open \cup {stream[m].line}
      BY <1>2, Receives
  <2>2. loop = "next" /\ loop' = "next"
      BY <1>2 DEF Recvmsg
  <2>3. CASE UNCHANGED <<pending, open>>
      BY <2>2, <2>3 DEF DescriptorsAccounted
  <2>4. ASSUME NEW m \in 1 .. n, stream[m].fd, pending' = pending \o <<stream[m].line>>,
               open' = open \cup {stream[m].line}
        PROVE  DescriptorsAccounted'
    <3>1. m \in 1 .. Len(stream)
        BY Lengths
    <3>2. stream[m].line \in Nat /\ pending \in Seq(Nat)
      <4>1. stream[m].line \in Taken + 1 .. Len(lines)
          BY <2>4, <3>1, FdAt
      <4> QED
          BY <4>1, Lengths DEF TypeOK
    <3>3. ToSet(pending') = ToSet(pending) \cup {stream[m].line}
        BY <2>4, <3>2, OneMore
    <3> QED
        BY <2>2, <2>4, <3>3 DEF DescriptorsAccounted
  <2> QED
      BY <2>1, <2>3, <2>4
<1>3. CASE Handle
  <2>1. /\ loop = "handle" /\ loop' = "next" /\ pending' = pending
        /\ open' = open \ ToSet(msg.fds)
      BY <1>3 DEF Handle
  <2> QED
      BY <2>1 DEF DescriptorsAccounted
<1>4. CASE RecvFails
  <2>1. /\ loop = "next" /\ loop' = "ended" /\ pending' = <<>>
        /\ open' = open \ ToSet(pending)
      BY <1>4 DEF RecvFails, GiveUp
  <2> QED
      BY <2>1, NoneIn DEF DescriptorsAccounted
<1>5. CASE SendWrite \/ SendPing \/ AppLeaves \/ RecvEOF \/ UNCHANGED vars
  <2>1. UNCHANGED <<pending, open, loop, msg>>
      BY <1>5 DEF SendWrite, SendPing, Send, AppLeaves, RecvEOF, vars
  <2> QED
      BY <2>1 DEF DescriptorsAccounted
<1> QED
    BY <1>1, <1>2, <1>3, <1>4, <1>5 DEF Next

-----------------------------------------------------------------------------
(* Nothing has been sent and nothing is held.                              *)
LEMMA Start == Init => IInv
<1> SUFFICES ASSUME Init PROVE IInv
    OBVIOUS
<1> USE DEF Init
<1>1. TypeOK
  <2>1. /\ lines \in Seq({"write", "ping"}) /\ stream \in Seq(Units) /\ buf \in Seq(Units)
        /\ pending \in Seq(Nat) /\ open \subseteq Nat /\ used \in Seq(Seq(Nat))
        /\ crowded \subseteq Nat /\ loop \in {"next", "handle", "ended"}
      OBVIOUS
  <2>2. msg \in [line : Nat, fds : Seq(Nat)]
      BY DEF NoMsg, None
  <2>3. gone \in BOOLEAN /\ eof \in BOOLEAN
      OBVIOUS
  <2> QED
      BY <2>1, <2>2, <2>3 DEF TypeOK
<1>2. Len(lines) = 0 /\ Len(used) = 0 /\ Len(buf) = 0 /\ Len(stream) = 0 /\ Taken = 0
    BY DEF Taken
<1>3. Order
    BY <1>2 DEF Order
<1>4. TwoSenders
    BY <1>2 DEF TwoSenders, Unhandled
<1>5. Held
    BY <1>2 DEF Held, Unhandled
<1>6. NeverAnothersImage
    BY DEF NeverAnothersImage
<1>7. DescriptorsAccounted
    BY NoneIn DEF DescriptorsAccounted
<1> QED
    BY <1>1, <1>3, <1>4, <1>5, <1>6, <1>7 DEF IInv

(* The invariant holds of every state of every behaviour.                  *)
LEMMA Invariance == Spec => []IInv
<1>1. IInv /\ [Next]_vars => IInv'
  <2> SUFFICES ASSUME IInv, [Next]_vars PROVE IInv'
      OBVIOUS
  <2>1. TypeOK /\ Order /\ TwoSenders /\ Held /\ NeverAnothersImage /\ DescriptorsAccounted
      BY DEF IInv
  <2>2. TypeOK' /\ Order'
      BY <2>1, StepType, StepOrder
  <2>3. TwoSenders' /\ NeverAnothersImage' /\ DescriptorsAccounted'
      BY <2>1, StepTwo, StepImage, StepOwners
  <2>4. Held'
      BY <2>1, <2>2, StepHeld
  <2> QED
      BY <2>2, <2>3, <2>4 DEF IInv
<1> QED
    BY Start, <1>1, PTL DEF Spec

(* Every variable of the reader keeps its type: requests and pings, units  *)
(* of lines, descriptors named by the line that sent them.                 *)
THEOREM TypeCorrect == Spec => []TypeOK
BY Invariance, PTL DEF IInv

(* NeverAnothersImage (reader_unix.go): whatever the order of requests and *)
(* pings and wherever a read cuts them, no write_image is handled with     *)
(* another one's descriptor, and it goes without its own only if a ping    *)
(* was unanswered when it was sent.                                        *)
THEOREM OwnImageOnly == Spec => []NeverAnothersImage
BY Invariance, PTL DEF IInv

(* DescriptorsAccounted (reader_unix.go): each open descriptor belongs to  *)
(* the reader or to the message being handled, and none is leaked.         *)
THEOREM EveryDescriptorHasAnOwner == Spec => []DescriptorsAccounted
BY Invariance, PTL DEF IInv
=============================================================================
