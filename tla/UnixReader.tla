------------------------------ MODULE UnixReader ------------------------------
(***************************************************************************)
(* How a request and the image descriptor sent with it come out of the     *)
(* helper's Unix socket: internal/helper/reader_unix.go, fed by the app's  *)
(* two senders (a job's write_image requests, each carrying a descriptor,  *)
(* and the keepalive's pings), each of which waits for its answer before   *)
(* it sends again.                                                         *)
(*                                                                         *)
(* A line is two units, its start and its end (the newline).  The socket   *)
(* is external and does what unix(7) says of SCM_RIGHTS on a stream: a     *)
(* read returns the bytes that are there, up to the buffer it was given,   *)
(* but nothing behind the message whose descriptors it returns.  Bytes in  *)
(* FRONT of that message, of lines sent without descriptors, do come with  *)
(* it in the same read.                                                    *)
(***************************************************************************)
EXTENDS Naturals, Sequences, FiniteSets, SequencesExt

CONSTANTS
    MaxWrites, \* write_image requests (bound)
    MaxPings,  \* pings (bound)
    ChunkCap   \* units one read takes at most: 4096 bytes in the code

ASSUME BoundsAssumption == MaxWrites \in Nat /\ MaxPings \in Nat /\ ChunkCap \in Nat \ {0}

VARIABLES
    lines,   \* lines sent so far: "write" or "ping"; a line's number is its ID
    stream,  \* units in the socket
    gone,    \* the app has closed its end
    buf,     \* unixReader.buf
    pending, \* unixReader.pending: descriptors, named by the line that sent them
    eof,     \* unixReader.eof
    loop,    \* "next" in the reader, "handle" with a message, "ended"
    msg,     \* the message next returned: the line and the descriptors
    open,    \* descriptors open in the helper
    used,    \* for each handled line, the descriptors it was given
    crowded  \* history: lines sent while the other sender's was unanswered

vars == <<lines, stream, gone, buf, pending, eof, loop, msg, open, used, crowded>>

None == 0
Unit(i, end, fd) == [line |-> i, end |-> end, fd |-> fd]
Count(k) == Cardinality({i \in DOMAIN lines : lines[i] = k})
Handled(i) == i \in DOMAIN used
NoMsg == [line |-> None, fds |-> <<>>]

Init ==
    /\ lines = <<>> /\ stream = <<>> /\ gone = FALSE
    /\ buf = <<>> /\ pending = <<>> /\ eof = FALSE
    /\ loop = "next" /\ msg = NoMsg /\ open = {} /\ used = <<>>
    /\ crowded = {}

-----------------------------------------------------------------------------
(* The app: one sendmsg per line, under the client's write lock.           *)
Send(k, max) ==
    /\ ~gone /\ Count(k) < max
    /\ \A i \in DOMAIN lines : lines[i] = k => Handled(i)
    /\ lines' = Append(lines, k)
    /\ LET i == Len(lines) + 1 IN
       /\ stream' = stream \o <<Unit(i, FALSE, k = "write"), Unit(i, TRUE, FALSE)>>
       /\ crowded' = IF \A j \in DOMAIN lines : Handled(j) THEN crowded ELSE crowded \cup {i}
    /\ UNCHANGED <<gone, buf, pending, eof, loop, msg, open, used>>
SendWrite == Send("write", MaxWrites)
SendPing == Send("ping", MaxPings)

AppLeaves ==
    /\ ~gone /\ gone' = TRUE
    /\ UNCHANGED <<lines, stream, buf, pending, eof, loop, msg, open, used, crowded>>

-----------------------------------------------------------------------------
(* unixReader.next.                                                        *)

Newlines == {k \in DOMAIN buf : buf[k].end}
HasLine == Newlines # {}

(* A whole line is there: it leaves with every descriptor received so far. *)
TakeLine(rest) ==
    /\ loop = "next" /\ HasLine
    /\ LET k == CHOOSE n \in Newlines : \A m \in Newlines : n <= m IN
       /\ msg' = [line |-> buf[k].line, fds |-> pending]
       /\ buf' = SubSeq(buf, k + 1, Len(buf))
    /\ pending' = rest
    /\ loop' = "handle"
    /\ UNCHANGED <<lines, stream, gone, eof, open, used, crowded>>
NextLineKeepsPending == TakeLine(pending)
NextLine == TakeLine(<<>>)

(* What one recvmsg may return: nothing behind the line whose descriptor   *)
(* it returns.  Lines have any length, so the buffer's end may cut any of  *)
(* them, and the read returns any number of units up to its capacity.      *)
Shorter(a, b) == IF a < b THEN a ELSE b
FirstFd == CHOOSE n \in 0 .. Len(stream) :
               /\ n > 0 => stream[n].fd
               /\ \A m \in DOMAIN stream : stream[m].fd => 0 < n /\ n <= m
Barrier == IF FirstFd = 0 THEN Len(stream) ELSE Shorter(FirstFd + 1, Len(stream))
Recvmsg ==
    /\ loop = "next" /\ ~HasLine /\ ~eof /\ stream # <<>>
    /\ \E n \in 1 .. Shorter(ChunkCap, Barrier) :
       LET fds == {stream[k].line : k \in {m \in 1 .. n : stream[m].fd}}
       IN  /\ buf' = buf \o SubSeq(stream, 1, n)
           /\ stream' = SubSeq(stream, n + 1, Len(stream))
           /\ pending' = pending \o SetToSeq(fds)
           /\ open' = open \cup fds
    /\ UNCHANGED <<lines, gone, eof, loop, msg, used, crowded>>

RecvEOF ==
    /\ loop = "next" /\ ~HasLine /\ ~eof /\ stream = <<>> /\ gone
    /\ eof' = TRUE
    /\ UNCHANGED <<lines, stream, gone, buf, pending, loop, msg, open, used, crowded>>

(* The end of the input, or an error of the read: what is pending is       *)
(* closed.  (Lines are sent whole, so no half line is left at the end.)    *)
GiveUp(closed) ==
    /\ loop = "next" /\ ~HasLine
    /\ open' = open \ closed
    /\ pending' = <<>>
    /\ loop' = "ended"
    /\ UNCHANGED <<lines, stream, gone, buf, eof, msg, used, crowded>>
RecvFailsLeaking == GiveUp({})
RecvFails == GiveUp(ToSet(pending))

(* takeFile keeps the first descriptor; handle closes it when the request  *)
(* is no write_image, and write_image's op closes it when done.            *)
Handle ==
    /\ loop = "handle"
    /\ used' = Append(used, IF lines[msg.line] = "write" THEN msg.fds ELSE <<>>)
    /\ open' = open \ ToSet(msg.fds)
    /\ loop' = "next"
    /\ UNCHANGED <<lines, stream, gone, buf, pending, eof, msg, crowded>>

Next == SendWrite \/ SendPing \/ AppLeaves \/ NextLine \/ Recvmsg \/ RecvEOF
        \/ RecvFails \/ Handle

Spec == Init /\ [][Next]_vars

-----------------------------------------------------------------------------
(* Properties.                                                             *)

(* The claim of reader_unix.go:32-35 and ops.go:233-234: a write_image     *)
(* request is handled with exactly the descriptor that was sent with it.   *)
ImageReachesItsRequest ==
    \A i \in DOMAIN used : used[i] = IF lines[i] = "write" THEN <<i>> ELSE <<>>

(* As much of it as the code keeps: no write_image ever gets another one's *)
(* image, and it loses its own only if a ping was unanswered when it was   *)
(* sent.                                                                   *)
NeverAnothersImage ==
    \A i \in DOMAIN used :
        lines[i] = "write" => used[i] = <<i>> \/ (i \in crowded /\ used[i] = <<>>)

(* No descriptor is leaked or handed out twice: each one open belongs to   *)
(* the reader or to the message being handled, not to both.                *)
DescriptorsAccounted ==
    /\ open = ToSet(pending) \cup (IF loop = "handle" THEN ToSet(msg.fds) ELSE {})
    /\ loop = "handle" => ToSet(pending) \cap ToSet(msg.fds) = {}
=============================================================================
