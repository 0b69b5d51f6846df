--------------------------- MODULE PrivClientProofs ---------------------------
(***************************************************************************)
(* Proofs about PrivClient, for any number of operations, pings and        *)
(* progress messages and any size of the channels: a cancel aborts no      *)
(* other call, an op's turn is over when do returns, no answer is lost.    *)
(***************************************************************************)
EXTENDS PrivClient, FiniteSetTheorems, SequenceTheorems, TLAPS

Responses == [id : Ids, type : {"result", "error", "busy", "cancelled", "progress"}]
Requests == [id : Ids, kind : {"op", "ping", "cancel"}]
InDo == {"send", "sendFailed", "select", "graceWait"}
Msgs(s) == {s[k] : k \in 1 .. Len(s)}
IsFinal(m) == m.type # "progress"

CallTypes ==
    /\ nextID \in Nat /\ kind \in [Ids -> {"none", "op", "ping", "cancel"}]
    /\ pc \in [Callers -> InDo \cup {"idle", "stopped"}]
    /\ cur \in [Callers -> Ids \cup {None}]
    /\ ended \subseteq Ids /\ asked \subseteq Ids
    /\ outcome \in [Ids -> {"none", "ok", "error", "ctxErr", "connLost", "grace"}]
    /\ pending \subseteq Ids /\ chan \in [Ids -> Seq(Responses)] /\ chClosed \subseteq Ids
    /\ readErr \in BOOLEAN
WireTypes ==
    /\ conn \in BOOLEAN /\ hup \in BOOLEAN
    /\ loop \in {Reading, Done} \/ (loop = Deliver(loop.msg) /\ loop.msg \in Responses)
    /\ toHelper \in Seq(Requests) /\ toClient \in Seq(Responses)
    /\ inflight \in Ids \cup {None} /\ cleared \in Ids \cup {None}
    /\ owed \in Responses \cup {NoResp}
    /\ hcancelled \subseteq Ids /\ answered \subseteq Ids /\ emitted \in [Ids -> Nat]
TypeOK == CallTypes /\ WireTypes

(* An ID for every call and its cancel: they are counted.                  *)
Counted ==
    /\ \A i \in Ids : kind[i] = "none" <=> i > nextID
    /\ \A i \in asked : kind[i] = "op"
    /\ nextID = Used("op") + Used("ping") + Cardinality(asked)
    /\ Used("op") <= MaxOps /\ Used("ping") <= MaxPings

(* Each caller has one call at a time, and it is the one without outcome.  *)
OneCall ==
    /\ \A w \in Callers :
         /\ cur[w] # None => kind[cur[w]] = KindOf(w)
         /\ pc[w] \in InDo => cur[w] # None /\ outcome[cur[w]] = "none"
         /\ \A i \in Ids : kind[i] = KindOf(w) /\ outcome[i] = "none"
                               => pc[w] \in InDo /\ i = cur[w]
    /\ \A i \in Ids : kind[i] \in {"none", "cancel"} => outcome[i] = "none"

(* What is known once the connection is lost.                              *)
Broken ==
    /\ readErr <=> loop = Done
    /\ readErr => ~conn \/ (~hup /\ toClient = <<>>)
    /\ chClosed # {} => readErr
    /\ ~hup => toHelper = <<>>
    /\ conn /\ hup =>
         /\ \A i \in Ids : outcome[i] \notin {"connLost", "grace"}
         /\ \A w \in Callers : pc[w] # "sendFailed"
    /\ conn => /\ \A w \in Callers : pc[w] # "graceWait"
               /\ \A i \in Ids : outcome[i] # "grace"
    /\ ~readErr => \A i \in Ids : kind[i] \in {"op", "ping"} /\ outcome[i] = "none"
                                    => i \in pending

(* What is on the wire to the helper and in its hands: one op at most.     *)
Wire ==
    /\ \A k \in 1 .. Len(toHelper) : toHelper[k].kind = kind[toHelper[k].id]
    /\ inflight # None => kind[inflight] = "op"
    /\ cleared # None => kind[cleared] = "op"
    /\ owed # NoResp => owed.type = "result" /\ kind[owed.id] \in {"ping", "cancel"}
    /\ \A k, l \in 1 .. Len(toHelper) :
         toHelper[k].kind = "op" /\ toHelper[l].kind = "op" => k = l
    /\ inflight = None \/ cleared = None
    /\ inflight # None \/ cleared # None =>
         \A k \in 1 .. Len(toHelper) : toHelper[k].kind # "op"
    /\ \A i \in answered : kind[i] # "none"

Works(i) == inflight = i \/ cleared = i \/ Queued(i)
Turn ==
    /\ \A i \in Ids : kind[i] = "op" /\ outcome[i] \notin {"none", "connLost", "grace"}
                         => ~Works(i)
    /\ \A i \in answered : kind[i] = "op" => ~Works(i)
    /\ \A w \in Callers : pc[w] \in {"send", "sendFailed"} =>
         ~Works(cur[w]) /\ owed.id # cur[w] /\ cur[w] \notin answered

(* A final response on its way to a caller was given by the helper.        *)
Genuine(m) == m.type # "busy" /\ (IsFinal(m) => m.id \in answered)
Told ==
    /\ \A m \in Msgs(toClient) : Genuine(m)
    /\ loop.at = "deliver" => Genuine(loop.msg)
    /\ \A i \in Ids : \A m \in Msgs(chan[i]) : m.id = i /\ Genuine(m)

(* No op overtakes a cancel it is not meant for.                           *)
Aimed ==
    \A k \in 1 .. Len(toHelper) : toHelper[k].kind = "cancel" =>
        /\ inflight # None => inflight \in ended
        /\ \A l \in 1 .. k : toHelper[l].kind = "op" => toHelper[l].id \in ended

(* While this end is open no answer gets lost on its way.                  *)
OnItsWay(i) ==
    \/ \E m \in Msgs(toClient) : m.id = i /\ IsFinal(m)
    \/ loop.at = "deliver" /\ loop.msg.id = i /\ IsFinal(loop.msg)
    \/ \E m \in Msgs(chan[i]) : IsFinal(m)
Arrives ==
    conn => \A i \in answered :
        /\ kind[i] \in {"op", "ping"} /\ outcome[i] = "none" => OnItsWay(i)
        /\ outcome[i] # "connLost"

-----------------------------------------------------------------------------
(* The messages of a line that has grown, or lost its first.               *)
LEMMA MsgsAppend ==
    ASSUME NEW S, NEW s \in Seq(S), NEW e \in S
    PROVE  /\ Append(s, e) \in Seq(S) /\ Len(Append(s, e)) = Len(s) + 1 /\ Len(s) \in Nat
           /\ \A k \in 1 .. Len(s) : Append(s, e)[k] = s[k]
           /\ Append(s, e)[Len(s) + 1] = e
           /\ Msgs(Append(s, e)) = Msgs(s) \cup {e}
<1>1. /\ Append(s, e) \in Seq(S) /\ Len(Append(s, e)) = Len(s) + 1 /\ Len(s) \in Nat
      /\ \A k \in 1 .. Len(s) : Append(s, e)[k] = s[k]
      /\ Append(s, e)[Len(s) + 1] = e
    BY AppendProperties, LenProperties
<1> QED
    BY <1>1 DEF Msgs

(* A message more.                                                         *)
LEMMA MsgsGrow ==
    \A S : \A s \in Seq(S) : \A e \in S : Msgs(Append(s, e)) = Msgs(s) \cup {e}
BY MsgsAppend

(* The messages of a line that has lost its first.                         *)
LEMMA MsgsTail ==
    ASSUME NEW S, NEW s \in Seq(S), s # <<>>
    PROVE  /\ Head(s) \in S /\ Head(s) = s[1] /\ Tail(s) \in Seq(S)
           /\ Len(s) \in Nat \ {0} /\ Len(Tail(s)) = Len(s) - 1
           /\ \A k \in 1 .. Len(Tail(s)) : Tail(s)[k] = s[k + 1] /\ k + 1 \in 1 .. Len(s)
           /\ Msgs(s) = {Head(s)} \cup Msgs(Tail(s))
<1>1. /\ Head(s) \in S /\ Tail(s) \in Seq(S) /\ Len(s) \in Nat \ {0}
      /\ Len(Tail(s)) = Len(s) - 1
      /\ \A k \in 1 .. Len(Tail(s)) : Tail(s)[k] = s[k + 1]
    BY HeadTailProperties, EmptySeq
<1>2. Head(s) = s[1]
    BY <1>1
<1>3. ASSUME NEW k \in 2 .. Len(s) PROVE s[k] = Tail(s)[k - 1] /\ k - 1 \in 1 .. Len(Tail(s))
    BY <1>1
<1>4. Head(s) \in Msgs(s) /\ Msgs(Tail(s)) \subseteq Msgs(s)
  <2>1. \A k \in 1 .. Len(Tail(s)) : k + 1 \in 1 .. Len(s)
      BY <1>1
  <2> QED
      BY <1>1, <1>2, <2>1 DEF Msgs
<1>5. ASSUME NEW m \in Msgs(s) PROVE m = Head(s) \/ m \in Msgs(Tail(s))
  <2>1. PICK k \in 1 .. Len(s) : m = s[k]
      BY DEF Msgs
  <2>2. CASE k = 1
      BY <1>2, <2>1, <2>2
  <2>3. CASE k \in 2 .. Len(s)
      BY <1>3, <2>1, <2>3 DEF Msgs
  <2> QED
      BY <1>1, <2>2, <2>3
<1>6. \A k \in 1 .. Len(Tail(s)) : k + 1 \in 1 .. Len(s)
    BY <1>1
<1> QED
    BY <1>1, <1>2, <1>4, <1>5, <1>6

(* What a line holds.                                                      *)
LEMMA MsgsOf ==
    /\ Msgs(<<>>) = {}
    /\ \A S : \A s \in Seq(S) : Msgs(s) \subseteq S /\ Len(s) \in Nat
<1>1. Msgs(<<>>) = {}
    BY DEF Msgs
<1>2. ASSUME NEW S, NEW s \in Seq(S) PROVE Msgs(s) \subseteq S /\ Len(s) \in Nat
    BY ElementOfSeq, LenProperties DEF Msgs
<1> QED
    BY <1>1, <1>2

(* There are finitely many IDs, so they can be counted.                    *)
LEMMA IdSets == \A T : T \subseteq Ids => IsFiniteSet(T) /\ Cardinality(T) \in Nat
<1>1. 1 \in Int /\ 2 * (MaxOps + MaxPings) \in Int
    BY BoundsAssumption
<1>2. IsFiniteSet(Ids)
    BY <1>1, FS_Interval DEF Ids
<1> QED
    BY <1>2, FS_Subset, FS_CardinalityType

(* Taking an ID adds one to its kind and nothing to the others.            *)
LEMMA UsedMore ==
    ASSUME TypeOK, NEW n \in Ids, kind[n] = "none", NEW k \in {"op", "ping", "cancel"},
           kind' = [kind EXCEPT ![n] = k]
    PROVE  /\ Used(k)' = Used(k) + 1
           /\ \A j \in {"op", "ping"} \ {k} : Used(j)' = Used(j)
<1> DEFINE T(j) == {i \in Ids : kind[i] = j}
           U(j) == {i \in Ids : kind'[i] = j}
<1>1. U(k) = T(k) \cup {n} /\ n \notin T(k) /\ T(k) \subseteq Ids
    BY DEF TypeOK, CallTypes
<1>2. \A j \in {"op", "ping"} \ {k} : U(j) = T(j)
    BY DEF TypeOK, CallTypes
<1>3. Cardinality(U(k)) = Cardinality(T(k)) + 1
  <2> HIDE DEF T, U
  <2> QED
      BY <1>1, IdSets, FS_AddElement
<1> QED
    BY <1>2, <1>3 DEF Used

(* The IDs suffice: one is left for whoever may call, and one for the      *)
(* cancel of each op that has not been cancelled.                          *)
LEMMA Room ==
    TypeOK /\ Counted =>
        /\ \A w \in Callers : CanCall(w) => nextID + 1 \in Ids
        /\ \A i \in Ids \ asked : kind[i] = "op" => nextID + 1 \in Ids
<1> SUFFICES ASSUME TypeOK, Counted
             PROVE  /\ \A w \in Callers : CanCall(w) => nextID + 1 \in Ids
                    /\ \A i \in Ids \ asked : kind[i] = "op" => nextID + 1 \in Ids
    OBVIOUS
<1> DEFINE Ops == {i \in Ids : kind[i] = "op"}
<1>1. asked \subseteq Ops /\ Ops \subseteq Ids /\ Used("op") = Cardinality(Ops)
    BY DEF TypeOK, CallTypes, Counted, Used
<1>2. /\ Used("op") \in Nat /\ Used("ping") \in Nat /\ Cardinality(asked) \in Nat
      /\ nextID = Used("op") + Used("ping") + Cardinality(asked)
      /\ Used("op") <= MaxOps /\ Used("ping") <= MaxPings
    BY IdSets DEF TypeOK, CallTypes, Used, Counted
<1> HIDE DEF Ops
<1>3. Cardinality(asked) <= Cardinality(Ops)
    BY <1>1, IdSets, FS_Subset
<1>4. ASSUME NEW w \in Callers, CanCall(w) PROVE nextID + 1 \in Ids
  <2>1. Used("op") < MaxOps \/ Used("ping") < MaxPings
      BY <1>4 DEF CanCall
  <2> QED
      BY <1>1, <1>2, <1>3, <2>1, BoundsAssumption DEF Ids
<1>5. ASSUME NEW i \in Ids \ asked, kind[i] = "op" PROVE nextID + 1 \in Ids
  <2>1. i \in Ops
      BY <1>5 DEF Ops
  <2>2. Cardinality(asked \cup {i}) = Cardinality(asked) + 1
      BY <1>1, <1>5, IdSets, FS_AddElement
  <2>3. Cardinality(asked \cup {i}) <= Cardinality(Ops)
      BY <1>1, <2>1, IdSets, FS_Subset
  <2> QED
      BY <1>1, <1>2, <2>2, <2>3, BoundsAssumption DEF Ids
<1> QED
    BY <1>4, <1>5

(* A step keeps the types: there is always an ID left to take.             *)
LEMMA StepType ==
    TypeOK /\ Counted /\ OneCall /\ [Next]_vars => TypeOK'
<1> SUFFICES ASSUME TypeOK, Counted, OneCall, [Next]_vars PROVE TypeOK'
    OBVIOUS
<1> USE DEF TypeOK, CallTypes, WireTypes, Callers, InDo, Responses, None, NoResp, Resp,
        callVars, sharedVars, helperVars
<1>1. ASSUME NEW w \in Callers, Call(w) \/ Do(w) \/ GraceBranch(w) \/ ContextEnds(w)
      PROVE  TypeOK'
  <2>1. CASE Call(w)
    <3>1. nextID + 1 \in Ids /\ KindOf(w) \in {"op", "ping"}
        BY <1>1, <2>1, Room DEF Call, KindOf
    <3>2. /\ nextID' \in Nat /\ kind' \in [Ids -> {"none", "op", "ping", "cancel"}]
          /\ cur' \in [Callers -> Ids \cup {None}]
      <4>1. /\ nextID' = nextID + 1 /\ kind' = [kind EXCEPT ![nextID + 1] = KindOf(w)]
            /\ cur' = [cur EXCEPT ![w] = nextID + 1]
          BY <2>1 DEF Call
      <4>2. nextID' \in Nat
          BY <4>1
      <4>3. kind' \in [Ids -> {"none", "op", "ping", "cancel"}]
          BY <3>1, <4>1
      <4>4. cur' \in [Callers -> Ids \cup {None}]
          BY <1>1, <3>1, <4>1
      <4> QED
          BY <4>2, <4>3, <4>4
    <3>3. pc' \in [Callers -> InDo \cup {"idle", "stopped"}]
      <4>1. \E at \in {"idle", "stopped", "send"} : pc' = [pc EXCEPT ![w] = at]
          BY <2>1 DEF Call
      <4> QED
          BY <1>1, <4>1
    <3>4. /\ outcome' \in [Ids -> {"none", "ok", "error", "ctxErr", "connLost", "grace"}]
          /\ pending' \subseteq Ids
      <4>1. /\ outcome' \in {outcome, [outcome EXCEPT ![nextID + 1] = "connLost"]}
            /\ pending' \in {pending, pending \cup {nextID + 1}}
          BY <2>1 DEF Call
      <4> QED
          BY <3>1, <4>1
    <3> QED
        BY <2>1, <3>2, <3>3, <3>4 DEF Call
  <2>2. CASE Send(w)
    <3>1. cur[w] \in Ids /\ kind[cur[w]] \in {"op", "ping"}
        BY <1>1, <2>2 DEF Send, OneCall, KindOf
    <3>2. [id |-> cur[w], kind |-> kind[cur[w]]] \in Requests
        BY <3>1 DEF Requests
    <3>3. toHelper' \in Seq(Requests)
      <4>1. Append(toHelper, [id |-> cur[w], kind |-> kind[cur[w]]]) \in Seq(Requests)
          BY <3>2, MsgsAppend
      <4> QED
          BY <2>2, <4>1 DEF Send
    <3>4. pc' \in [Callers -> InDo \cup {"idle", "stopped"}]
        BY <1>1, <2>2 DEF Send
    <3>5. CallTypes'
        BY <2>2, <3>4 DEF Send
    <3> QED
        BY <2>2, <3>3, <3>5 DEF Send
  <2>3. CASE SendFailed(w)
      BY <1>1, <2>3 DEF SendFailed, ReturnFrom
  <2>4. CASE Receive(w)
    <3>1. cur[w] \in Ids
        BY <1>1, <2>4 DEF Receive, OneCall
    <3>2. Tail(chan[cur[w]]) \in Seq(Responses)
        BY <1>1, <2>4, <3>1, MsgsTail DEF Receive
    <3>3. pc' \in [Callers -> InDo \cup {"idle", "stopped"}]
        BY <1>1, <2>4 DEF Receive, ReturnFrom
    <3>4. chan' \in [Ids -> Seq(Responses)]
        BY <2>4, <3>1, <3>2 DEF Receive
    <3>5. /\ outcome' \in [Ids -> {"none", "ok", "error", "ctxErr", "connLost", "grace"}]
          /\ pending' \subseteq Ids
        BY <2>4, <3>1 DEF Receive, ReturnFrom
    <3> QED
        BY <2>4, <3>3, <3>4, <3>5 DEF Receive
  <2>5. CASE ConnLost(w)
      BY <1>1, <2>5 DEF ConnLost, NoticeLoss, ReturnFrom
  <2>6. CASE w = "job" /\ SendCancelFor(w)
    <3>1. cur[w] \in Ids \ asked /\ kind[cur[w]] = "op"
        BY <1>1, <2>6 DEF SendCancelFor, OneCall, KindOf
    <3>2. nextID + 1 \in Ids
        BY <3>1, Room
    <3>3. [id |-> nextID + 1, kind |-> "cancel"] \in Requests
        BY <3>2 DEF Requests
    <3>4. toHelper' \in Seq(Requests)
        BY <1>1, <2>6, <3>3, MsgsAppend DEF SendCancelFor
    <3>5. /\ nextID' \in Nat /\ kind' \in [Ids -> {"none", "op", "ping", "cancel"}]
          /\ asked' \subseteq Ids
      <4>1. /\ nextID' = nextID + 1 /\ kind' = [kind EXCEPT ![nextID + 1] = "cancel"]
            /\ asked' = asked \cup {cur[w]}
          BY <2>6 DEF SendCancelFor
      <4>2. nextID' \in Nat
          BY <4>1
      <4>3. kind' \in [Ids -> {"none", "op", "ping", "cancel"}]
          BY <3>2, <4>1
      <4>4. asked' \subseteq Ids
          BY <3>1, <4>1
      <4> QED
          BY <4>2, <4>3, <4>4
    <3> QED
        BY <2>6, <3>4, <3>5 DEF SendCancelFor
  <2>7. CASE LeavePing(w)
      BY <1>1, <2>7 DEF LeavePing, ReturnFrom
  <2>8. CASE GraceReturn(w)
      BY <1>1, <2>8 DEF GraceReturn, ReturnFrom
  <2>9. CASE GraceBranch(w)
      BY <1>1, <2>9 DEF GraceBranch
  <2>10. CASE ContextEnds(w)
    <3>1. cur[w] \in Ids
        BY <1>1, <2>10 DEF ContextEnds, OneCall
    <3> QED
        BY <2>10, <3>1 DEF ContextEnds
  <2> QED
      BY <1>1, <2>1, <2>2, <2>3, <2>4, <2>5, <2>6, <2>7, <2>8, <2>9, <2>10 DEF Do,
        ContextBranch
<1>2. CASE Close \/ ReadLoop \/ Helper
  <2>1. CASE Close
      BY <2>1 DEF Close
  <2>2. CASE ReadLine
    <3>1. Head(toClient) \in Responses /\ Tail(toClient) \in Seq(Responses)
        BY <2>2, MsgsTail DEF ReadLine
    <3> QED
        BY <2>2, <3>1 DEF ReadLine, Deliver
  <2>3. CASE PutInChannel
    <3>1. loop.msg \in Responses
        BY <2>3 DEF PutInChannel, Deliver, Reading, Done
    <3>2. loop.msg.id \in Ids /\ Append(chan[loop.msg.id], loop.msg) \in Seq(Responses)
        BY <3>1, MsgsAppend
    <3> QED
        BY <2>3, <3>2 DEF PutInChannel
  <2>4. CASE Fail
      BY <2>4 DEF Fail, FailWaking
  <2>5. CASE HelperTake
    <3>1. Head(toHelper) \in Requests /\ Tail(toHelper) \in Seq(Requests)
        BY <2>5, MsgsTail DEF HelperTake
    <3>2. Head(toHelper).id \in Ids
        BY <3>1 DEF Requests
    <3>3. owed' \in Responses \cup {NoResp} /\ hcancelled' \subseteq Ids
        BY <2>5, <3>2 DEF HelperTake
    <3>4. toHelper' \in Seq(Requests) /\ inflight' \in Ids \cup {None}
        BY <2>5, <3>1, <3>2 DEF HelperTake
    <3> QED
        BY <2>5, <3>3, <3>4 DEF HelperTake
  <2>6. CASE HelperAnswer
    <3>1. owed \in Responses /\ owed.id \in Ids
        BY <2>6 DEF HelperAnswer
    <3>2. toClient' \in Seq(Responses)
        BY <2>6, <3>1, MsgsAppend DEF HelperAnswer, Answer, Write
    <3> QED
        BY <2>6, <3>1, <3>2 DEF HelperAnswer, Answer
  <2>7. CASE HelperProgress
    <3>1. Resp(inflight, "progress") \in Responses /\ inflight \in Ids
        BY <2>7 DEF HelperProgress
    <3>2. toClient' \in Seq(Responses)
        BY <2>7, <3>1, MsgsAppend DEF HelperProgress, Write
    <3>3. emitted' \in [Ids -> Nat]
      <4>1. emitted[inflight] + 1 \in Nat
          BY <3>1
      <4> QED
          BY <2>7, <4>1 DEF HelperProgress
    <3> QED
        BY <2>7, <3>2, <3>3 DEF HelperProgress
  <2>8. CASE HelperClear
      BY <2>8 DEF HelperClear
  <2>9. CASE HelperRespond
    <3>1. PICK t \in Final(cleared) : Answer(cleared, Resp(cleared, t))
        BY <2>9 DEF HelperRespond
    <3>2. cleared \in Ids /\ Resp(cleared, t) \in Responses
        BY <2>9, <3>1 DEF HelperRespond, Final
    <3>3. toClient' \in Seq(Responses)
        BY <3>1, <3>2, MsgsAppend DEF Answer, Write
    <3> QED
        BY <2>9, <3>1, <3>2, <3>3 DEF HelperRespond, Answer
  <2>10. CASE HelperHangsUp
    <3>1. <<>> \in Seq(Requests)
        BY EmptySeq
    <3> QED
        BY <2>10, <3>1 DEF HelperHangsUp
  <2> QED
      BY <1>2, <2>1, <2>2, <2>3, <2>4, <2>5, <2>6, <2>7, <2>8, <2>9, <2>10 DEF ReadLoop,
        Helper, HelperFinish
<1>3. CASE UNCHANGED vars
    BY <1>3 DEF vars
<1> QED
    BY <1>1, <1>2, <1>3 DEF Next

(* Each call and each cancel takes one ID.                                 *)
LEMMA StepCounted ==
    TypeOK /\ Counted /\ OneCall /\ [Next]_vars => Counted'
<1> SUFFICES ASSUME TypeOK, Counted, OneCall, [Next]_vars PROVE Counted'
    OBVIOUS
<1> USE DEF Counted, Used, callVars, sharedVars, helperVars
<1>1. ASSUME NEW w \in Callers, Call(w) \/ Do(w) \/ GraceBranch(w) \/ ContextEnds(w)
      PROVE  Counted'
  <2>1. CASE Call(w)
    <3> DEFINE n == nextID + 1
    <3>1. n \in Ids /\ KindOf(w) \in {"op", "ping"} /\ kind[n] = "none"
        BY <1>1, <2>1, Room DEF Call, KindOf, Counted, Ids
    <3>2. kind' = [kind EXCEPT ![n] = KindOf(w)] /\ nextID' = n /\ UNCHANGED asked
        BY <1>1, <2>1 DEF Call
    <3>3. /\ Used(KindOf(w))' = Used(KindOf(w)) + 1
          /\ \A j \in {"op", "ping"} \ {KindOf(w)} : Used(j)' = Used(j)
        BY <3>1, <3>2, UsedMore
    <3>4. \A i \in Ids : kind'[i] = "none" <=> i > n
        BY <3>1, <3>2 DEF TypeOK, CallTypes, Counted, Ids
    <3>5. \A i \in asked : kind'[i] = "op"
        BY <3>1, <3>2 DEF TypeOK, CallTypes, Counted
    <3>6. Used("op") \in Nat /\ Used("ping") \in Nat /\ Cardinality(asked) \in Nat
        BY IdSets DEF Used, TypeOK, CallTypes
    <3>7. /\ n = Used("op")' + Used("ping")' + Cardinality(asked)
          /\ Used("op")' <= MaxOps /\ Used("ping")' <= MaxPings
      <4>1. /\ nextID = Used("op") + Used("ping") + Cardinality(asked)
            /\ Used("op") <= MaxOps /\ Used("ping") <= MaxPings
          BY DEF Counted
      <4>2. CASE w = "job"
        <5>1. Used("op") < MaxOps
            BY <2>1, <4>2 DEF Call, CanCall
        <5>2. Used("op")' = Used("op") + 1 /\ Used("ping")' = Used("ping")
            BY <3>3, <4>2 DEF KindOf
        <5> QED
            BY <3>6, <4>1, <5>1, <5>2, BoundsAssumption
      <4>3. CASE w = "keepalive"
        <5>1. Used("ping") < MaxPings
            BY <2>1, <4>3 DEF Call, CanCall
        <5>2. Used("ping")' = Used("ping") + 1 /\ Used("op")' = Used("op")
            BY <3>3, <4>3 DEF KindOf
        <5> QED
            BY <3>6, <4>1, <5>1, <5>2, BoundsAssumption
      <4> QED
          BY <1>1, <4>2, <4>3 DEF Callers
    <3> QED
        BY <3>2, <3>4, <3>5, <3>7 DEF Counted
  <2>2. CASE w = "job" /\ SendCancelFor(w)
    <3> DEFINE n == nextID + 1
               i == cur[w]
    <3>1. i \in Ids \ asked /\ kind[i] = "op"
        BY <1>1, <2>2 DEF SendCancelFor, OneCall, KindOf, TypeOK, CallTypes, InDo, Callers
    <3>2. n \in Ids /\ kind[n] = "none"
        BY <3>1, Room DEF Counted, Ids, TypeOK, CallTypes
    <3>3. kind' = [kind EXCEPT ![n] = "cancel"] /\ nextID' = n /\ asked' = asked \cup {i}
        BY <1>1, <2>2 DEF SendCancelFor
    <3>4. Used("op")' = Used("op") /\ Used("ping")' = Used("ping")
        BY <3>2, <3>3, UsedMore
    <3>5. \A j \in Ids : kind'[j] = "none" <=> j > n
        BY <3>2, <3>3 DEF TypeOK, CallTypes, Counted, Ids
    <3>6. \A j \in asked' : kind'[j] = "op"
        BY <3>1, <3>2, <3>3 DEF TypeOK, CallTypes, Counted
    <3>7. Cardinality(asked \cup {i}) = Cardinality(asked) + 1
      <4> HIDE DEF i
      <4> QED
          BY <3>1, IdSets, FS_AddElement DEF TypeOK, CallTypes
    <3>8. Used("op") \in Nat /\ Used("ping") \in Nat /\ Cardinality(asked) \in Nat
        BY IdSets DEF Used, TypeOK, CallTypes
    <3> QED
        BY <3>3, <3>4, <3>5, <3>6, <3>7, <3>8 DEF Counted
  <2>3. CASE Send(w) \/ SendFailed(w) \/ Receive(w) \/ ConnLost(w) \/ LeavePing(w)
             \/ GraceReturn(w) \/ GraceBranch(w) \/ ContextEnds(w)
      BY <1>1, <2>3 DEF Send, CanSend, SendFailed, ReturnFrom, Receive, ConnLost,
        NoticeLoss, LeavePing, GraceReturn, GraceBranch, ContextEnds
  <2> QED
      BY <1>1, <2>1, <2>2, <2>3 DEF Do, ContextBranch
<1>2. CASE Close \/ ReadLoop \/ Helper
  <2>1. CASE Close \/ ReadLine \/ PutInChannel \/ Fail \/ HelperTake \/ HelperAnswer
             \/ HelperProgress \/ HelperClear \/ HelperRespond \/ HelperHangsUp
      BY <2>1 DEF Close, ReadLine, PutInChannel, Fail, FailWaking, HelperTake,
        HelperAnswer, Answer, Write, HelperProgress, HelperClear, HelperRespond, Final,
        HelperHangsUp
  <2> QED
      BY <1>2, <2>1 DEF ReadLoop, Helper, HelperFinish
<1>3. CASE UNCHANGED vars
    BY <1>3 DEF vars
<1> QED
    BY <1>1, <1>2, <1>3 DEF Next

(* A caller takes a new call when its last one has returned.               *)
LEMMA StepOneCall ==
    TypeOK /\ Counted /\ OneCall /\ [Next]_vars => OneCall'
<1> SUFFICES ASSUME TypeOK, Counted, OneCall, [Next]_vars PROVE OneCall'
    OBVIOUS
<1> USE DEF TypeOK, CallTypes, OneCall, Callers, KindOf, InDo, None, callVars, sharedVars,
        helperVars
<1>1. ASSUME NEW w \in Callers, Call(w) \/ Do(w) \/ GraceBranch(w) \/ ContextEnds(w)
      PROVE  OneCall'
  <2>1. CASE Call(w)
    <3> DEFINE n == nextID + 1
    <3>1. n \in Ids /\ kind[n] = "none" /\ outcome[n] = "none" /\ n # None
        BY <1>1, <2>1, Room DEF Call, Counted, Ids
    <3> HIDE DEF n
    <3>2. /\ kind' = [kind EXCEPT ![n] = KindOf(w)] /\ cur' = [cur EXCEPT ![w] = n]
          /\ pc[w] = "idle"
          /\ \/ /\ outcome' = [outcome EXCEPT ![n] = "connLost"]
                /\ pc' = [pc EXCEPT ![w] = IF w = "keepalive" THEN "stopped" ELSE "idle"]
             \/ outcome' = outcome /\ pc' = [pc EXCEPT ![w] = "send"]
        BY <2>1 DEF Call, n
    <3>3. ASSUME NEW v \in Callers PROVE (cur[v] # None => kind[cur[v]] = KindOf(v))'
        BY <1>1, <3>1, <3>2
    <3>4. ASSUME NEW v \in Callers
          PROVE  (pc[v] \in InDo => cur[v] # None /\ outcome[cur[v]] = "none")'
      <4>1. CASE v = w
          BY <1>1, <3>1, <3>2, <4>1
      <4>2. CASE v # w
        <5>1. pc'[v] = pc[v] /\ cur'[v] = cur[v] /\ (cur[v] # None => cur[v] # n)
            BY <1>1, <3>1, <3>2, <4>2
        <5> QED
            BY <3>1, <3>2, <5>1
      <4> QED
          BY <4>1, <4>2
    <3>5. ASSUME NEW v \in Callers, NEW i \in Ids, (kind[i] = KindOf(v) /\
               outcome[i] = "none")'
          PROVE  (pc[v] \in InDo /\ i = cur[v])'
      <4>1. CASE i = n
          BY <1>1, <3>1, <3>2, <3>5, <4>1
      <4>2. CASE i # n
          BY <1>1, <3>1, <3>2, <3>5, <4>2
      <4> QED
          BY <4>1, <4>2
    <3>6. ASSUME NEW i \in Ids, (kind[i] \in {"none", "cancel"})'
          PROVE  (outcome[i] = "none")'
        BY <1>1, <3>1, <3>2, <3>6
    <3> QED
        BY <3>3, <3>4, <3>5, <3>6
  <2>2. CASE Send(w)
      BY <1>1, <2>2 DEF Send, CanSend
  <2>3. CASE SendFailed(w)
      BY <1>1, <2>3 DEF SendFailed, ReturnFrom
  <2>4. CASE Receive(w)
      BY <1>1, <2>4 DEF Receive, ReturnFrom
  <2>5. CASE ConnLost(w)
      BY <1>1, <2>5 DEF ConnLost, NoticeLoss, ReturnFrom
  <2>6. CASE w = "job" /\ SendCancelFor(w)
    <3> DEFINE n == nextID + 1
    <3>1. cur[w] \in Ids \ asked /\ kind[cur[w]] = "op"
        BY <1>1, <2>6 DEF SendCancelFor
    <3>2. n \in Ids /\ kind[n] = "none" /\ outcome[n] = "none"
        BY <3>1, Room DEF Counted, Ids
    <3> HIDE DEF n
    <3>3. kind' = [kind EXCEPT ![n] = "cancel"] /\ UNCHANGED <<cur, pc, outcome>>
        BY <2>6 DEF SendCancelFor, n
    <3> QED
        BY <3>2, <3>3
  <2>7. CASE LeavePing(w)
      BY <1>1, <2>7 DEF LeavePing, ReturnFrom
  <2>8. CASE GraceReturn(w)
      BY <1>1, <2>8 DEF GraceReturn, ReturnFrom
  <2>9. CASE GraceBranch(w)
      BY <1>1, <2>9 DEF GraceBranch
  <2>10. CASE ContextEnds(w)
      BY <1>1, <2>10 DEF ContextEnds
  <2> QED
      BY <1>1, <2>1, <2>2, <2>3, <2>4, <2>5, <2>6, <2>7, <2>8, <2>9, <2>10 DEF Do,
        ContextBranch
<1>2. CASE Close \/ ReadLoop \/ Helper
  <2>1. CASE Close \/ ReadLine \/ PutInChannel \/ Fail \/ HelperTake \/ HelperAnswer
             \/ HelperProgress \/ HelperClear \/ HelperRespond \/ HelperHangsUp
      BY <2>1 DEF Close, ReadLine, PutInChannel, Fail, FailWaking, HelperTake,
        HelperAnswer, Answer, Write, HelperProgress, HelperClear, HelperRespond, Final,
        HelperHangsUp
  <2> QED
      BY <1>2, <2>1 DEF ReadLoop, Helper, HelperFinish
<1>3. CASE UNCHANGED vars
    BY <1>3 DEF vars
<1> QED
    BY <1>1, <1>2, <1>3 DEF Next

(* The connection is lost for good, and what was sent by then is known.    *)
LEMMA StepBroken ==
    TypeOK /\ Counted /\ OneCall /\ Broken /\ [Next]_vars => Broken'
<1> SUFFICES ASSUME TypeOK, Counted, OneCall, Broken, [Next]_vars PROVE Broken'
    OBVIOUS
<1> USE DEF TypeOK, CallTypes, WireTypes, OneCall, Broken, Callers, KindOf, InDo, Reading,
        Done, Deliver, callVars, sharedVars, helperVars
<1>1. ASSUME NEW w \in Callers, Call(w) \/ Do(w) \/ GraceBranch(w) \/ ContextEnds(w)
      PROVE  Broken'
  <2>1. CASE Call(w)
      BY <1>1, <2>1 DEF Call
  <2>2. CASE Send(w)
      BY <1>1, <2>2 DEF Send, CanSend
  <2>3. CASE SendFailed(w)
      BY <1>1, <2>3 DEF SendFailed, ReturnFrom
  <2>4. CASE Receive(w)
    <3>1. outcome' = outcome \/ \E r \in {"ok", "ctxErr", "error"} :
               outcome' = [outcome EXCEPT ![cur[w]] = r]
        BY <2>4 DEF Receive, ReturnFrom
    <3>2. pc' = pc \/ \E l \in {"idle", "stopped"} : pc' = [pc EXCEPT ![w] = l]
        BY <2>4 DEF Receive, ReturnFrom
    <3>3. pending' = pending \/ (outcome'[cur[w]] # "none" /\ pending' = pending \ {cur[w]})
        BY <1>1, <2>4 DEF Receive, ReturnFrom
    <3>4. UNCHANGED <<kind, chClosed, readErr, conn, loop, toHelper, toClient, hup>>
        BY <2>4 DEF Receive
    <3>5. (conn /\ hup =>
             /\ \A i \in Ids : outcome[i] \notin {"connLost", "grace"}
             /\ \A v \in Callers : pc[v] # "sendFailed")'
        BY <3>1, <3>2, <3>4
    <3>6. (conn => (\A v \in Callers : pc[v] # "graceWait") /\ (\A i \in Ids :
               outcome[i] # "grace"))'
        BY <3>1, <3>2, <3>4
    <3>7. (~readErr => \A i \in Ids : kind[i] \in {"op", "ping"} /\ outcome[i] = "none"
                                      => i \in pending)'
        BY <1>1, <3>1, <3>3, <3>4
    <3> QED
        BY <3>4, <3>5, <3>6, <3>7
  <2>5. CASE ConnLost(w)
      BY <1>1, <2>5 DEF ConnLost, NoticeLoss, ReturnFrom
  <2>6. CASE w = "job" /\ SendCancelFor(w)
      BY <1>1, <2>6 DEF SendCancelFor, CanSend
  <2>7. CASE LeavePing(w)
      BY <1>1, <2>7 DEF LeavePing, ReturnFrom
  <2>8. CASE GraceReturn(w)
      BY <1>1, <2>8 DEF GraceReturn, ReturnFrom
  <2>9. CASE GraceBranch(w)
      BY <1>1, <2>9 DEF GraceBranch
  <2>10. CASE ContextEnds(w)
      BY <1>1, <2>10 DEF ContextEnds
  <2> QED
      BY <1>1, <2>1, <2>2, <2>3, <2>4, <2>5, <2>6, <2>7, <2>8, <2>9, <2>10 DEF Do,
        ContextBranch
<1>2. CASE Close \/ ReadLoop \/ Helper
  <2>1. CASE Close
      BY <2>1 DEF Close
  <2>2. CASE ReadLine
      BY <2>2 DEF ReadLine
  <2>3. CASE PutInChannel
      BY <2>3 DEF PutInChannel
  <2>4. CASE Fail
      BY <2>4 DEF Fail, FailWaking
  <2>5. CASE HelperTake
      BY <2>5 DEF HelperTake
  <2>6. CASE HelperAnswer
      BY <2>6 DEF HelperAnswer, Answer, Write
  <2>7. CASE HelperProgress
      BY <2>7 DEF HelperProgress, Write
  <2>8. CASE HelperClear
      BY <2>8 DEF HelperClear
  <2>9. CASE HelperRespond
      BY <2>9 DEF HelperRespond, Answer, Write, Final
  <2>10. CASE HelperHangsUp
      BY <2>10 DEF HelperHangsUp
  <2> QED
      BY <1>2, <2>1, <2>2, <2>3, <2>4, <2>5, <2>6, <2>7, <2>8, <2>9, <2>10 DEF ReadLoop,
        Helper, HelperFinish
<1>3. CASE UNCHANGED vars
    BY <1>3 DEF vars
<1> QED
    BY <1>1, <1>2, <1>3 DEF Next

(* An ID is not the lack of one.                                           *)
LEMMA NoneIsNoId == None \notin Ids
BY BoundsAssumption DEF None, Ids

(* The next ID has no kind yet.                                            *)
LEMMA NextFree ==
    TypeOK /\ Counted /\ OneCall /\ nextID + 1 \in Ids =>
        /\ kind[nextID + 1] = "none" /\ outcome[nextID + 1] = "none"
        /\ \A i \in Ids : kind[i] # "none" => i # nextID + 1
BY DEF TypeOK, CallTypes, Counted, OneCall, Ids

(* The requests on the wire, the next one, and the wire with one more.     *)
LEMMA OnWire ==
    TypeOK => /\ Len(toHelper) \in Nat
              /\ \A k \in 1 .. Len(toHelper) : toHelper[k] \in Requests
                                              /\ toHelper[k].id \in Ids
<1> SUFFICES ASSUME TypeOK
             PROVE  /\ Len(toHelper) \in Nat
                    /\ \A k \in 1 .. Len(toHelper) : toHelper[k] \in Requests
    BY DEF Requests
<1>1. toHelper \in Seq(Requests)
    BY DEF TypeOK, WireTypes
<1> QED
    BY <1>1, ElementOfSeq, LenProperties

(* Taking the first request leaves the others, each one place ahead.       *)
LEMMA FirstOff ==
    ASSUME TypeOK, toHelper # <<>>
    PROVE  /\ Head(toHelper) = toHelper[1] /\ 1 \in 1 .. Len(toHelper)
           /\ Head(toHelper) \in Requests /\ Head(toHelper).id \in Ids
           /\ Len(Tail(toHelper)) \in Nat
           /\ \A k \in 1 .. Len(Tail(toHelper)) :
                k + 1 \in 2 .. Len(toHelper) /\ Tail(toHelper)[k] = toHelper[k + 1]
<1>1. toHelper \in Seq(Requests)
    BY DEF TypeOK, WireTypes
<1>2. /\ Head(toHelper) \in Requests /\ Head(toHelper) = toHelper[1]
      /\ Len(toHelper) \in Nat \ {0} /\ Len(Tail(toHelper)) = Len(toHelper) - 1
      /\ \A k \in 1 .. Len(Tail(toHelper)) : Tail(toHelper)[k] = toHelper[k + 1]
    BY <1>1, MsgsTail
<1> QED
    BY <1>2 DEF Requests

(* Sending one more leaves the others where they are.                      *)
LEMMA LastOn ==
    ASSUME TypeOK, NEW r \in Requests, toHelper' = Append(toHelper, r)
    PROVE  /\ Len(toHelper) \in Nat /\ Len(toHelper') = Len(toHelper) + 1
           /\ \A k \in 1 .. Len(toHelper') :
                \/ k \in 1 .. Len(toHelper) /\ toHelper'[k] = toHelper[k]
                \/ k = Len(toHelper) + 1 /\ toHelper'[k] = r
           /\ \A k \in 1 .. Len(toHelper) :
                k \in 1 .. Len(toHelper') /\ toHelper'[k] = toHelper[k]
<1>1. toHelper \in Seq(Requests)
    BY DEF TypeOK, WireTypes
<1>2. /\ Len(toHelper') = Len(toHelper) + 1 /\ Len(toHelper) \in Nat
      /\ \A k \in 1 .. Len(toHelper) : toHelper'[k] = toHelper[k]
      /\ toHelper'[Len(toHelper) + 1] = r
    BY <1>1, MsgsAppend
<1> QED
    BY <1>2

(* The job sends an op when its last one is out of the helper's hands, so  *)
(* an op reaches an idle helper.                                           *)
LEMMA StepWire ==
    TypeOK /\ Counted /\ OneCall /\ Broken /\ Wire /\ Turn /\ [Next]_vars => Wire'
<1> SUFFICES ASSUME TypeOK, Counted, OneCall, Broken, Wire, Turn, [Next]_vars PROVE Wire'
    OBVIOUS
<1> USE NoneIsNoId DEF TypeOK, CallTypes, WireTypes, OneCall, Broken, Wire, Callers,
        KindOf, InDo, Requests, callVars, sharedVars, helperVars
<1>1. ASSUME NEW w \in Callers, Call(w) \/ Do(w) \/ GraceBranch(w) \/ ContextEnds(w)
      PROVE  Wire'
  <2>1. CASE Call(w)
    <3> DEFINE n == nextID + 1
    <3>1. n \in Ids /\ kind[n] = "none"
      <4>1. CanCall(w)
          BY <2>1 DEF Call
      <4> QED
          BY <1>1, <4>1, Room, NextFree
    <3> HIDE DEF n
    <3>2. kind' = [kind EXCEPT ![n] = KindOf(w)]
        BY <2>1 DEF Call, n
    <3>3. UNCHANGED <<toHelper, inflight, cleared, owed, answered>>
        BY <2>1 DEF Call
    <3>4. \A k \in 1 .. Len(toHelper) : toHelper[k].id \in Ids /\ toHelper[k].id # n
        BY <3>1, OnWire
    <3> QED
        BY <3>1, <3>2, <3>3, <3>4
  <2>2. CASE Send(w)
    <3> DEFINE r == [id |-> cur[w], kind |-> kind[cur[w]]]
    <3>1. CASE CanSend
      <4>1. cur[w] \in Ids /\ kind[cur[w]] = KindOf(w) /\ r \in Requests
          BY <1>1, <2>2 DEF Send
      <4>2. /\ toHelper' = Append(toHelper, r)
            /\ UNCHANGED <<kind, inflight, cleared, owed, answered>>
          BY <2>2, <3>1 DEF Send
      <4> HIDE DEF r
      <4>3. \A k \in 1 .. Len(toHelper') :
              \/ k \in 1 .. Len(toHelper) /\ toHelper'[k] = toHelper[k]
              \/ k = Len(toHelper) + 1 /\ toHelper'[k] = r
          BY <4>1, <4>2, LastOn
      <4>4. r.kind = kind[r.id]
          BY DEF r
      <4>5. r.kind = "op" => /\ inflight = None /\ cleared = None
                             /\ \A k \in 1 .. Len(toHelper) : toHelper[k].kind # "op"
        <5> SUFFICES ASSUME r.kind = "op"
                     PROVE  \A i \in Ids : kind[i] = "op" => ~Works(i)
            BY OnWire DEF Works, Queued
        <5>1. w = "job" /\ ~Works(cur[w])
            BY <1>1, <2>2, <4>1 DEF r, Send, Turn
        <5>2. ASSUME NEW i \in Ids, kind[i] = "op", outcome[i] = "none" PROVE i = cur[w]
            BY <5>1, <5>2
        <5>3. \A i \in Ids : outcome[i] \notin {"connLost", "grace"}
            BY <3>1 DEF CanSend
        <5> QED
            BY <5>1, <5>2, <5>3 DEF Turn
      <4>7. \A k, l \in 1 .. Len(toHelper') :
               toHelper'[k].kind = "op" /\ toHelper'[l].kind = "op" => k = l
        <5> SUFFICES ASSUME NEW k \in 1 .. Len(toHelper'), NEW l \in 1 .. Len(toHelper'),
                            toHelper'[k].kind = "op", toHelper'[l].kind = "op"
                     PROVE  k = l
            OBVIOUS
        <5>1. CASE k \in 1 .. Len(toHelper) /\ toHelper'[k] = toHelper[k]
            BY <4>3, <4>5, <5>1
        <5>2. CASE k = Len(toHelper) + 1 /\ toHelper'[k] = r
            BY <4>3, <4>5, <5>2
        <5> QED
            BY <4>3, <5>1, <5>2
      <4>8. \A k \in 1 .. Len(toHelper') : toHelper'[k].kind = kind[toHelper'[k].id]
          BY <4>3, <4>4
      <4>9. inflight # None \/ cleared # None =>
              \A k \in 1 .. Len(toHelper') : toHelper'[k].kind # "op"
          BY <4>3, <4>5
      <4> QED
          BY <4>2, <4>5, <4>7, <4>8, <4>9
    <3>2. CASE ~CanSend
      <4>1. UNCHANGED <<kind, toHelper, inflight, cleared, owed, answered>>
          BY <2>2, <3>2 DEF Send
      <4> QED
          BY <4>1
    <3> QED
        BY <3>1, <3>2
  <2>3. CASE w = "job" /\ SendCancelFor(w)
    <3> DEFINE n == nextID + 1
               r == [id |-> n, kind |-> "cancel"]
    <3>1. cur[w] \in Ids \ asked /\ kind[cur[w]] = "op"
        BY <1>1, <2>3 DEF SendCancelFor
    <3>2. n \in Ids /\ kind[n] = "none"
      <4> DEFINE i == cur[w]
      <4>1. i \in Ids \ asked /\ kind[i] = "op"
          BY <3>1
      <4> HIDE DEF i
      <4> QED
          BY <4>1, Room, NextFree
    <3>3. /\ kind' = [kind EXCEPT ![n] = "cancel"]
          /\ UNCHANGED <<inflight, cleared, owed, answered>>
          /\ toHelper' = toHelper \/ toHelper' = Append(toHelper, r)
        BY <2>3 DEF SendCancelFor
    <3>4. r \in Requests /\ r.kind = "cancel" /\ r.id = n
        BY <3>2
    <3> HIDE DEF n, r
    <3>5. \A k \in 1 .. Len(toHelper) : toHelper[k].id \in Ids /\ toHelper[k].id # n
        BY <3>2, OnWire
    <3>6. CASE toHelper' = toHelper
        BY <3>2, <3>3, <3>5, <3>6
    <3>7. CASE toHelper' = Append(toHelper, r)
      <4>1. \A k \in 1 .. Len(toHelper') :
              \/ k \in 1 .. Len(toHelper) /\ toHelper'[k] = toHelper[k]
              \/ k = Len(toHelper) + 1 /\ toHelper'[k] = r
          BY <3>4, <3>7, LastOn
      <4>2. /\ \A k \in 1 .. Len(toHelper) : toHelper[k].kind = kind'[toHelper[k].id]
            /\ r.kind = kind'[r.id]
          BY <3>2, <3>3, <3>4, <3>5
      <4>3. \A k \in 1 .. Len(toHelper') : toHelper'[k].kind = kind'[toHelper'[k].id]
          BY <4>1, <4>2
      <4>4. \A k, l \in 1 .. Len(toHelper') :
               toHelper'[k].kind = "op" /\ toHelper'[l].kind = "op" => k = l
        <5> SUFFICES ASSUME NEW k \in 1 .. Len(toHelper'), NEW l \in 1 .. Len(toHelper'),
                            toHelper'[k].kind = "op", toHelper'[l].kind = "op"
                     PROVE  k = l
            OBVIOUS
        <5>1. /\ k \in 1 .. Len(toHelper) /\ toHelper'[k] = toHelper[k]
              /\ l \in 1 .. Len(toHelper) /\ toHelper'[l] = toHelper[l]
            BY <3>4, <4>1
        <5> QED
            BY <5>1
      <4>5. inflight # None \/ cleared # None =>
              \A k \in 1 .. Len(toHelper') : toHelper'[k].kind # "op"
          BY <3>4, <4>1
      <4>6. UNCHANGED <<inflight, cleared, owed, answered>> /\
                 kind' = [kind EXCEPT ![n] = "cancel"]
          BY <3>3
      <4> QED
          BY <3>2, <4>3, <4>4, <4>5, <4>6
    <3> QED
        BY <3>3, <3>6, <3>7
  <2>4. CASE SendFailed(w) \/ Receive(w) \/ ConnLost(w) \/ LeavePing(w)
             \/ GraceReturn(w) \/ GraceBranch(w) \/ ContextEnds(w)
    <3>1. UNCHANGED <<kind, toHelper, inflight, cleared, owed, answered>>
        BY <1>1, <2>4 DEF SendFailed, ReturnFrom, Receive, ConnLost, NoticeLoss, LeavePing,
        GraceReturn, GraceBranch, ContextEnds
    <3> QED
        BY <3>1
  <2> QED
      BY <1>1, <2>1, <2>2, <2>3, <2>4 DEF Do, ContextBranch
<1>2. CASE Close \/ ReadLoop \/ Helper
  <2>1. CASE HelperTake
    <3>1. /\ toHelper # <<>> /\ toHelper' = Tail(toHelper)
          /\ UNCHANGED <<kind, cleared, answered>>
        BY <2>1 DEF HelperTake
    <3> DEFINE r == Head(toHelper)
    <3>2. /\ r = toHelper[1] /\ 1 \in 1 .. Len(toHelper) /\ r \in Requests /\ r.id \in Ids
          /\ \A k \in 1 .. Len(toHelper') : /\ k + 1 \in 2 .. Len(toHelper) /\ k \in Nat
                                           /\ toHelper'[k] = toHelper[k + 1]
      <4>1. /\ r = toHelper[1] /\ 1 \in 1 .. Len(toHelper) /\ r \in Requests /\ r.id \in Ids
            /\ Len(toHelper') \in Nat
            /\ \A k \in 1 .. Len(toHelper') :
                 k + 1 \in 2 .. Len(toHelper) /\ toHelper'[k] = toHelper[k + 1]
          BY <3>1, FirstOff
      <4> QED
          BY <4>1
    <3>3. r.kind = kind[r.id]
        BY <3>2
    <3>4. \/ r.kind \in {"ping", "cancel"} /\ owed' = Resp(r.id, "result") /\
               inflight' = inflight
          \/ r.kind = "op" /\ inflight = None /\ inflight' = r.id /\ owed' = owed
        BY <3>2, <3>3, <2>1 DEF HelperTake
    <3> HIDE DEF r
    <3>5. (owed # NoResp => owed.type = "result" /\ kind[owed.id] \in {"ping", "cancel"})'
        BY <3>1, <3>3, <3>4 DEF Resp
    <3>6. /\ (\A k \in 1 .. Len(toHelper) : toHelper[k].kind = kind[toHelper[k].id])'
          /\ (\A k, l \in 1 .. Len(toHelper) :
                toHelper[k].kind = "op" /\ toHelper[l].kind = "op" => k = l)'
      <4>1. \A k \in 2 .. Len(toHelper) : k \in 1 .. Len(toHelper)
          BY OnWire
      <4>2. (\A k \in 1 .. Len(toHelper) : toHelper[k].kind = kind[toHelper[k].id])'
          BY <3>1, <3>2, <4>1
      <4>3. ASSUME NEW k \in 1 .. Len(toHelper'), NEW l \in 1 .. Len(toHelper'),
                   toHelper'[k].kind = "op", toHelper'[l].kind = "op"
            PROVE  k = l
        <5>1. /\ k + 1 \in 1 .. Len(toHelper) /\ toHelper[k + 1].kind = "op"
              /\ l + 1 \in 1 .. Len(toHelper) /\ toHelper[l + 1].kind = "op"
            BY <3>2, <4>1, <4>3
        <5>2. k + 1 = l + 1
            BY <5>1
        <5> QED
            BY <3>2, <5>2
      <4> QED
          BY <4>2, <4>3
    <3>7. r.kind = "op" => cleared = None
                           /\ \A k \in 1 .. Len(toHelper') : toHelper'[k].kind # "op"
      <4>1. \A k \in 2 .. Len(toHelper) : k \in 1 .. Len(toHelper) /\ k # 1
          BY OnWire
      <4>2. ASSUME r.kind = "op", NEW k \in 1 .. Len(toHelper'), toHelper'[k].kind = "op"
            PROVE  FALSE
        <5>1. k + 1 \in 1 .. Len(toHelper) /\ toHelper[k + 1].kind = "op" /\ k + 1 # 1
            BY <3>2, <4>1, <4>2
        <5>2. 1 \in 1 .. Len(toHelper) /\ toHelper[1].kind = "op"
            BY <3>2, <4>2
        <5> QED
            BY <5>1, <5>2
      <4>3. r.kind = "op" => cleared = None
          BY <3>2
      <4> QED
          BY <4>2, <4>3
    <3>8. (/\ inflight # None => kind[inflight] = "op"
           /\ inflight = None \/ cleared = None
           /\ inflight # None \/ cleared # None =>
                \A k \in 1 .. Len(toHelper) : toHelper[k].kind # "op")'
        BY <3>1, <3>2, <3>3, <3>4, <3>7
    <3> QED
        BY <3>1, <3>5, <3>6, <3>8
  <2>2. CASE HelperAnswer
    <3>1. \A i \in answered' : i \in answered \/ i = owed.id
        BY <2>2 DEF HelperAnswer, Answer
    <3>2. UNCHANGED <<kind, toHelper, inflight, cleared>> /\ owed' = NoResp /\ owed # NoResp
        BY <2>2 DEF HelperAnswer
    <3> QED
        BY <3>1, <3>2
  <2>3. CASE HelperProgress
      BY <2>3 DEF HelperProgress, Write
  <2>4. CASE HelperClear
      BY <2>4 DEF HelperClear
  <2>5. CASE HelperRespond
    <3>1. \A i \in answered' : i \in answered \/ i = cleared
        BY <2>5 DEF HelperRespond, Answer
    <3> QED
        BY <2>5, <3>1 DEF HelperRespond
  <2>6. CASE HelperHangsUp
      BY <2>6 DEF HelperHangsUp
  <2>7. CASE Close \/ ReadLine \/ PutInChannel \/ Fail
    <3>1. UNCHANGED <<kind, toHelper, inflight, cleared, owed, answered>>
        BY <2>7 DEF Close, ReadLine, PutInChannel, Fail, FailWaking
    <3> QED
        BY <3>1
  <2> QED
      BY <1>2, <2>1, <2>2, <2>3, <2>4, <2>5, <2>6, <2>7 DEF ReadLoop, Helper, HelperFinish
<1>3. CASE UNCHANGED vars
    BY <1>3 DEF vars
<1> QED
    BY <1>1, <1>2, <1>3 DEF Next

(* The helper works on nothing that was not called.                        *)
LEMMA WorksKnown ==
    TypeOK /\ Wire => \A i \in Ids : Works(i) => kind[i] # "none"
<1> SUFFICES ASSUME TypeOK, Wire, NEW i \in Ids, Works(i), kind[i] = "none" PROVE FALSE
    OBVIOUS
<1>1. CASE inflight = i \/ cleared = i
    BY <1>1, NoneIsNoId DEF Wire
<1>2. CASE Queued(i)
  <2>1. PICK k \in 1 .. Len(toHelper) : toHelper[k].id = i
      BY <1>2 DEF Queued
  <2>2. toHelper[k] \in Requests /\ toHelper[k].kind = kind[i]
      BY <2>1, OnWire DEF Wire
  <2> QED
      BY <2>2 DEF Requests
<1> QED
    BY <1>1, <1>2 DEF Works

(* do returns without a loss only with the helper's answer, and an answer  *)
(* is given when the helper is through with the op.                        *)
LEMMA StepTurn ==
    TypeOK /\ Counted /\ OneCall /\ Wire /\ Turn /\ Told /\ [Next]_vars => Turn'
<1> SUFFICES ASSUME TypeOK, Counted, OneCall, Wire, Turn, Told, [Next]_vars PROVE Turn'
    OBVIOUS
<1> USE DEF TypeOK, CallTypes, WireTypes, Turn, callVars, sharedVars, helperVars
<1>1. ASSUME NEW w \in Callers, Call(w) \/ Do(w) \/ GraceBranch(w) \/ ContextEnds(w)
      PROVE  Turn'
  <2>1. CASE Call(w)
    <3> DEFINE n == nextID + 1
    <3>1. n \in Ids /\ kind[n] = "none" /\ \A i \in Ids : kind[i] # "none" => i # n
      <4>1. CanCall(w)
          BY <2>1 DEF Call
      <4> QED
          BY <1>1, <4>1, Room, NextFree
    <3>2. ~Works(n) /\ n \notin answered /\ owed.id # n
      <4>1. owed # NoResp => owed.id \in Ids /\ kind[owed.id] # "none"
          BY DEF Responses, Wire
      <4>2. owed = NoResp => owed.id = None
          BY DEF NoResp, Resp
      <4> QED
          BY <3>1, <4>1, <4>2, WorksKnown, NoneIsNoId DEF Wire
    <3> HIDE DEF n
    <3>3. /\ kind' = [kind EXCEPT ![n] = KindOf(w)] /\ cur' = [cur EXCEPT ![w] = n]
          /\ UNCHANGED <<toHelper, inflight, cleared, owed, answered>>
          /\ \/ outcome' = [outcome EXCEPT ![n] = "connLost"]
                /\ \E l \in {"idle", "stopped"} : pc' = [pc EXCEPT ![w] = l]
             \/ outcome' = outcome /\ pc' = [pc EXCEPT ![w] = "send"]
        BY <2>1 DEF Call, n
    <3>4. \A i \in Ids : Works(i)' <=> Works(i)
        BY <3>3 DEF Works, Queued
    <3>5. ASSUME NEW i \in Ids,
                 (kind[i] = "op" /\ outcome[i] \notin {"none", "connLost", "grace"})'
          PROVE  ~Works(i)'
        BY <3>2, <3>3, <3>4, <3>5
    <3>6. ASSUME NEW i \in answered, kind'[i] = "op" PROVE ~Works(i)'
        BY <3>2, <3>3, <3>4, <3>6
    <3>7. ASSUME NEW v \in Callers, pc'[v] \in {"send", "sendFailed"}
          PROVE  (~Works(cur[v]) /\ owed.id # cur[v] /\ cur[v] \notin answered)'
      <4>1. CASE v = w
        <5>1. cur'[v] = n
            BY <3>3, <4>1
        <5> QED
            BY <3>1, <3>2, <3>3, <3>4, <5>1
      <4>2. CASE v # w
        <5>1. cur'[v] = cur[v] /\ pc'[v] = pc[v]
            BY <3>3, <4>2
        <5>2. cur[v] \in Ids
            BY <3>7, <5>1 DEF OneCall, InDo
        <5> QED
            BY <3>3, <3>4, <3>7, <5>1, <5>2
      <4> QED
          BY <4>1, <4>2
    <3> QED
        BY <3>3, <3>5, <3>6, <3>7
  <2>2. CASE Send(w)
    <3> DEFINE i0 == cur[w]
               r == [id |-> cur[w], kind |-> kind[cur[w]]]
    <3>1. i0 \in Ids /\ outcome[i0] = "none" /\ kind[i0] = KindOf(w) /\ pc[w] = "send"
        BY <1>1, <2>2 DEF Send, OneCall, InDo
    <3>2. r \in Requests /\ r.id = i0
        BY <3>1 DEF Requests, KindOf
    <3> HIDE DEF r
    <3>3. /\ UNCHANGED <<kind, cur, outcome, inflight, cleared, owed, answered>>
          /\ \/ toHelper' = Append(toHelper, r) /\ pc' = [pc EXCEPT ![w] = "select"]
             \/ toHelper' = toHelper /\ pc' = [pc EXCEPT ![w] = "sendFailed"]
        BY <2>2 DEF Send, r
    <3>4. CASE toHelper' = Append(toHelper, r) /\ pc' = [pc EXCEPT ![w] = "select"]
      <4>1. \A i \in Ids : i # i0 /\ Works(i)' => Works(i)
        <5>1. \A k \in 1 .. Len(toHelper') :
                \/ k \in 1 .. Len(toHelper) /\ toHelper'[k] = toHelper[k]
                \/ k = Len(toHelper) + 1 /\ toHelper'[k] = r
            BY <3>2, <3>4, LastOn
        <5> QED
            BY <3>2, <3>3, <5>1 DEF Works, Queued
      <4>2. i0 \notin answered
          BY <1>1, <3>1
      <4>3. \A v \in Callers : pc'[v] \in {"send", "sendFailed"} =>
                v # w /\ pc[v] = pc'[v] /\ cur[v] \in Ids /\ cur[v] # i0
          BY <1>1, <3>1, <3>4 DEF OneCall, InDo, KindOf, Callers
      <4> HIDE DEF i0
      <4>4. ASSUME NEW i \in Ids,
                   kind[i] = "op" /\ outcome[i] \notin {"none", "connLost", "grace"}
            PROVE  ~Works(i)'
          BY <3>1, <4>1, <4>4
      <4>5. ASSUME NEW i \in answered, kind[i] = "op" PROVE ~Works(i)'
          BY <4>1, <4>2, <4>5
      <4>6. ASSUME NEW v \in Callers, pc'[v] \in {"send", "sendFailed"}
            PROVE  (~Works(cur[v]) /\ owed.id # cur[v] /\ cur[v] \notin answered)'
          BY <3>3, <4>1, <4>3, <4>6
      <4> QED
          BY <3>3, <4>4, <4>5, <4>6
    <3>5. CASE toHelper' = toHelper /\ pc' = [pc EXCEPT ![w] = "sendFailed"]
      <4>1. \A i : Works(i)' <=> Works(i)
          BY <3>3, <3>5 DEF Works, Queued
      <4>2. \A v \in Callers : pc'[v] \in {"send", "sendFailed"} =>
                 pc[v] \in {"send", "sendFailed"}
          BY <3>1, <3>5
      <4> QED
          BY <3>3, <4>1, <4>2
    <3> QED
        BY <3>3, <3>4, <3>5
  <2>3. CASE SendFailed(w)
    <3>1. /\ UNCHANGED <<kind, cur, toHelper, inflight, cleared, owed, answered>>
          /\ \E l \in {"idle", "stopped"} : pc' = [pc EXCEPT ![w] = l]
          /\ outcome' = [outcome EXCEPT ![cur[w]] = "connLost"]
        BY <2>3 DEF SendFailed, ReturnFrom
    <3>2. \A i : Works(i)' <=> Works(i)
        BY <3>1 DEF Works, Queued
    <3>3. \A i \in Ids : outcome'[i] \notin {"none", "connLost", "grace"} =>
               outcome'[i] = outcome[i]
        BY <3>1
    <3>4. \A v \in Callers : pc'[v] \in {"send", "sendFailed"} =>
               pc[v] \in {"send", "sendFailed"}
        BY <3>1
    <3> QED
        BY <3>1, <3>2, <3>3, <3>4
  <2>4. CASE Receive(w)
    <3> DEFINE i0 == cur[w]
    <3>1. i0 \in Ids /\ outcome[i0] = "none"
        BY <1>1, <2>4 DEF Receive, OneCall, InDo
    <3>2. /\ UNCHANGED <<kind, cur, toHelper, inflight, cleared, owed, answered>>
          /\ pc' = pc \/ \E l \in {"idle", "stopped"} : pc' = [pc EXCEPT ![w] = l]
          /\ chan[i0] # <<>>
          /\ \/ outcome' = outcome
             \/ Head(chan[i0]).type # "progress" /\ \E s :
                  outcome' = [outcome EXCEPT ![i0] = s]
        BY <2>4 DEF Receive, ReturnFrom
    <3>3. \A i : Works(i)' <=> Works(i)
        BY <3>2 DEF Works, Queued
    <3>4. Head(chan[i0]).type # "progress" => i0 \in answered
      <4>1. Head(chan[i0]) \in Msgs(chan[i0])
          BY <3>1, <3>2, MsgsTail
      <4> QED
          BY <3>1, <4>1 DEF Told, Genuine, IsFinal
    <3>5. \A v \in Callers : pc'[v] \in {"send", "sendFailed"} =>
               pc[v] \in {"send", "sendFailed"}
        BY <3>2
    <3> HIDE DEF i0
    <3>6. \A i \in Ids : outcome'[i] # outcome[i] => i \in answered
        BY <3>1, <3>2, <3>4
    <3> QED
        BY <3>2, <3>3, <3>5, <3>6
  <2>5. CASE ConnLost(w)
    <3>1. /\ UNCHANGED <<kind, cur, toHelper, inflight, cleared, owed, answered>>
          /\ \E l \in {"idle", "stopped"} : pc' = [pc EXCEPT ![w] = l]
          /\ outcome' = [outcome EXCEPT ![cur[w]] = "connLost"]
        BY <2>5 DEF ConnLost, NoticeLoss, ReturnFrom
    <3>2. \A i : Works(i)' <=> Works(i)
        BY <3>1 DEF Works, Queued
    <3>3. \A i \in Ids : outcome'[i] \notin {"none", "connLost", "grace"} =>
               outcome'[i] = outcome[i]
        BY <3>1
    <3>4. \A v \in Callers : pc'[v] \in {"send", "sendFailed"} =>
               pc[v] \in {"send", "sendFailed"}
        BY <3>1
    <3> QED
        BY <3>1, <3>2, <3>3, <3>4
  <2>6. CASE w = "job" /\ SendCancelFor(w)
    <3> DEFINE n == nextID + 1
               r == [id |-> n, kind |-> "cancel"]
    <3>1. cur[w] \in Ids \ asked /\ kind[cur[w]] = "op"
        BY <1>1, <2>6 DEF SendCancelFor, OneCall, KindOf, InDo
    <3>2. n \in Ids /\ kind[n] = "none" /\ \A i \in Ids : kind[i] # "none" => i # n
      <4> DEFINE i0 == cur[w]
      <4>1. i0 \in Ids \ asked /\ kind[i0] = "op"
          BY <3>1
      <4> HIDE DEF i0
      <4> QED
          BY <4>1, Room, NextFree
    <3>3. r \in Requests /\ r.id = n
        BY <3>2 DEF Requests
    <3>4. n \notin answered /\ \A v \in Callers : pc[v] \in InDo => cur[v] \in Ids /\
               cur[v] # n
      <4>1. n \notin answered
          BY <3>2 DEF Wire
      <4>2. \A v \in Callers : KindOf(v) # "none"
          BY DEF KindOf
      <4>3. ASSUME NEW v \in Callers, pc[v] \in InDo
            PROVE  cur[v] \in Ids /\ kind[cur[v]] # "none"
          BY <4>2, <4>3 DEF OneCall
      <4> HIDE DEF n
      <4> QED
          BY <3>2, <4>1, <4>3
    <3> HIDE DEF n, r
    <3>5. /\ kind' = [kind EXCEPT ![n] = "cancel"]
          /\ UNCHANGED <<cur, pc, outcome, inflight, cleared, owed, answered>>
          /\ toHelper' = toHelper \/ toHelper' = Append(toHelper, r)
        BY <2>6 DEF SendCancelFor, n, r
    <3>6. \A i \in Ids : i # n /\ Works(i)' => Works(i)
      <4>1. CASE toHelper' = toHelper
          BY <3>5, <4>1 DEF Works, Queued
      <4>2. CASE toHelper' = Append(toHelper, r)
        <5>1. \A k \in 1 .. Len(toHelper') :
                \/ k \in 1 .. Len(toHelper) /\ toHelper'[k] = toHelper[k]
                \/ k = Len(toHelper) + 1 /\ toHelper'[k] = r
            BY <3>3, <4>2, LastOn
        <5> QED
            BY <3>3, <3>5, <5>1 DEF Works, Queued
      <4> QED
          BY <3>5, <4>1, <4>2
    <3>7. \A i \in Ids : kind'[i] = "op" => i # n /\ kind[i] = "op"
        BY <3>2, <3>5
    <3>8. \A v \in Callers : pc[v] \in {"send", "sendFailed"} => cur[v] \in Ids /\ cur[v] # n
        BY <3>4 DEF InDo
    <3>9. answered \subseteq Ids
        OBVIOUS
    <3>10. \A i \in Ids : kind'[i] = "op" /\ outcome[i] \notin {"none", "connLost", "grace"}
                             => ~Works(i)'
        BY <3>6, <3>7
    <3>11. \A i \in answered : kind'[i] = "op" => ~Works(i)'
        BY <3>6, <3>7, <3>9
    <3>12. \A v \in Callers : pc[v] \in {"send", "sendFailed"} =>
               (~Works(cur[v]) /\ owed.id # cur[v] /\ cur[v] \notin answered)'
        BY <3>5, <3>6, <3>8
    <3> QED
        BY <3>5, <3>10, <3>11, <3>12
  <2>7. CASE LeavePing(w)
    <3>1. /\ UNCHANGED <<kind, cur, toHelper, inflight, cleared, owed, answered>>
          /\ \E l \in {"idle", "stopped"} : pc' = [pc EXCEPT ![w] = l]
          /\ kind[cur[w]] = "ping" /\ outcome' = [outcome EXCEPT ![cur[w]] = "ctxErr"]
        BY <2>7 DEF LeavePing, ReturnFrom
    <3>2. \A i : Works(i)' <=> Works(i)
        BY <3>1 DEF Works, Queued
    <3>3. \A i \in Ids : kind[i] = "op" => outcome'[i] = outcome[i]
        BY <3>1
    <3>4. \A v \in Callers : pc'[v] \in {"send", "sendFailed"} =>
               pc[v] \in {"send", "sendFailed"}
        BY <3>1
    <3> QED
        BY <3>1, <3>2, <3>3, <3>4
  <2>8. CASE GraceReturn(w)
    <3>1. /\ UNCHANGED <<kind, cur, toHelper, inflight, cleared, owed, answered>>
          /\ \E l \in {"idle", "stopped"} : pc' = [pc EXCEPT ![w] = l]
          /\ outcome' = [outcome EXCEPT ![cur[w]] = "grace"]
        BY <2>8 DEF GraceReturn, ReturnFrom
    <3>2. \A i : Works(i)' <=> Works(i)
        BY <3>1 DEF Works, Queued
    <3>3. \A i \in Ids : outcome'[i] \notin {"none", "connLost", "grace"} =>
               outcome'[i] = outcome[i]
        BY <3>1
    <3>4. \A v \in Callers : pc'[v] \in {"send", "sendFailed"} =>
               pc[v] \in {"send", "sendFailed"}
        BY <3>1
    <3> QED
        BY <3>1, <3>2, <3>3, <3>4
  <2>9. CASE GraceBranch(w) \/ ContextEnds(w)
      BY <1>1, <2>9 DEF GraceBranch, ContextEnds, Works, Queued
  <2> QED
      BY <1>1, <2>1, <2>2, <2>3, <2>4, <2>5, <2>6, <2>7, <2>8, <2>9 DEF Do, ContextBranch
<1>2. CASE Close \/ ReadLoop \/ Helper
  <2>1. CASE HelperTake
    <3> DEFINE r == Head(toHelper)
    <3>1. /\ toHelper # <<>> /\ toHelper' = Tail(toHelper)
          /\ UNCHANGED <<kind, pc, cur, outcome, cleared, answered>>
          /\ \/ owed' = Resp(r.id, "result") /\ inflight' = inflight
             \/ owed' = Resp(r.id, "busy") /\ inflight' = inflight
             \/ inflight' = r.id /\ owed' = owed
        BY <2>1 DEF HelperTake
    <3>2. r.id \in Ids /\ Queued(r.id) /\ \A i : Queued(i)' => Queued(i)
      <4>1. /\ r = toHelper[1] /\ 1 \in 1 .. Len(toHelper) /\ r.id \in Ids
            /\ \A k \in 1 .. Len(toHelper') :
                 k + 1 \in 2 .. Len(toHelper) /\ toHelper'[k] = toHelper[k + 1]
          BY <3>1, FirstOff
      <4>2. \A k \in 2 .. Len(toHelper) : k \in 1 .. Len(toHelper)
          BY OnWire
      <4> QED
          BY <4>1, <4>2 DEF Queued
    <3>3. \A i : Works(i)' => Works(i)
        BY <3>1, <3>2 DEF Works
    <3>4. \A v \in Callers : pc[v] \in {"send", "sendFailed"} => owed'.id # cur[v]
      <4>1. \A v \in Callers : pc[v] \in {"send", "sendFailed"} => r.id # cur[v]
          BY <3>2 DEF Works
      <4> QED
          BY <3>1, <4>1 DEF Resp
    <3> QED
        BY <3>1, <3>3, <3>4
  <2>2. CASE HelperAnswer
    <3>1. /\ \A i \in answered' : i \in answered \/ i = owed.id
          /\ UNCHANGED <<kind, pc, cur, outcome, toHelper, inflight, cleared>>
          /\ owed # NoResp /\ owed' = NoResp
        BY <2>2 DEF HelperAnswer, Answer
    <3>2. \A i : Works(i)' <=> Works(i)
        BY <3>1 DEF Works, Queued
    <3>3. kind[owed.id] # "op"
        BY <3>1 DEF Wire
    <3>4. \A v \in Callers : pc[v] \in {"send", "sendFailed"} => owed'.id # cur[v]
        BY <3>1 DEF NoResp, Resp, OneCall, InDo
    <3> QED
        BY <3>1, <3>2, <3>3, <3>4
  <2>3. CASE HelperClear
    <3>1. /\ UNCHANGED <<kind, pc, cur, outcome, toHelper, answered, owed>>
          /\ cleared' = inflight /\ inflight' = None /\ inflight # None
        BY <2>3 DEF HelperClear
    <3>2. \A i \in Ids : Works(i)' => Works(i)
        BY <3>1, NoneIsNoId DEF Works, Queued
    <3>3. \A v \in Callers : pc[v] \in {"send", "sendFailed"} => cur[v] \in Ids
        BY DEF OneCall, InDo
    <3> QED
        BY <3>1, <3>2, <3>3
  <2>4. CASE HelperRespond
    <3>1. /\ \A i \in answered' : i \in answered \/ i = cleared
          /\ UNCHANGED <<kind, pc, cur, outcome, toHelper, inflight, owed>>
          /\ cleared # None /\ cleared' = None /\ cleared \in Ids
        BY <2>4 DEF HelperRespond, Answer
    <3>2. \A i \in Ids : Works(i)' => Works(i) /\ (kind[i] = "op" => i # cleared)
      <4>1. ASSUME NEW i \in Ids, Works(i)' PROVE Works(i)
          BY <3>1, <4>1, NoneIsNoId DEF Works, Queued
      <4>2. ASSUME NEW i \in Ids, i = cleared, kind[i] = "op", Works(i)' PROVE FALSE
        <5>1. CASE inflight = i
            BY <3>1, <4>2, <5>1 DEF Wire
        <5>2. CASE Queued(i)
          <6>1. PICK k \in 1 .. Len(toHelper) : toHelper[k].id = i
              BY <5>2 DEF Queued
          <6>2. toHelper[k].kind = "op"
              BY <4>2, <6>1 DEF Wire
          <6> QED
              BY <3>1, <6>1, <6>2 DEF Wire
        <5> QED
            BY <3>1, <4>2, <5>1, <5>2, NoneIsNoId DEF Works, Queued
      <4> QED
          BY <4>1, <4>2
    <3>3. \A v \in Callers : pc[v] \in {"send", "sendFailed"} => cur[v] \in Ids /\
               cur[v] # cleared
        BY <3>1 DEF OneCall, InDo, Works
    <3> QED
        BY <3>1, <3>2, <3>3
  <2>5. CASE HelperHangsUp
    <3>1. UNCHANGED <<kind, pc, cur, outcome, inflight, cleared, owed, answered>> /\
               toHelper' = <<>>
        BY <2>5 DEF HelperHangsUp
    <3>2. \A i : Works(i)' => Works(i)
        BY <3>1, EmptySeq DEF Works, Queued
    <3> QED
        BY <3>1, <3>2
  <2>6. CASE Close \/ ReadLine \/ PutInChannel \/ Fail \/ HelperProgress
      BY <2>6 DEF Close, ReadLine, PutInChannel, Fail, FailWaking, HelperProgress, Write,
        Works, Queued
  <2> QED
      BY <1>2, <2>1, <2>2, <2>3, <2>4, <2>5, <2>6 DEF ReadLoop, Helper, HelperFinish
<1>3. CASE UNCHANGED vars
    BY <1>3 DEF vars, Works, Queued
<1> QED
    BY <1>1, <1>2, <1>3 DEF Next

(* What reaches a caller is what the helper sent it.                       *)
LEMMA StepTold ==
    TypeOK /\ OneCall /\ Wire /\ Told /\ [Next]_vars => Told'
<1> SUFFICES ASSUME TypeOK, OneCall, Wire, Told, [Next]_vars PROVE Told'
    OBVIOUS
<1>0. toClient \in Seq(Responses) /\ \A i \in Ids : chan[i] \in Seq(Responses)
    BY DEF TypeOK, CallTypes, WireTypes
<1> USE <1>0 DEF Told, Genuine, IsFinal, Done, callVars, sharedVars, helperVars
<1>1. ASSUME NEW w \in Callers, Call(w) \/ Do(w) \/ GraceBranch(w) \/ ContextEnds(w)
      PROVE  Told'
  <2>1. CASE Receive(w)
    <3> DEFINE i0 == cur[w]
    <3>1. i0 \in Ids
        BY <1>1, <2>1 DEF Receive, OneCall, InDo, TypeOK, CallTypes
    <3>2. /\ chan[i0] # <<>> /\ chan' = [chan EXCEPT ![i0] = Tail(chan[i0])]
          /\ UNCHANGED <<toClient, loop, answered>>
        BY <2>1 DEF Receive
    <3>3. Msgs(Tail(chan[i0])) \subseteq Msgs(chan[i0])
        BY <3>1, <3>2, MsgsTail
    <3> HIDE DEF i0
    <3>4. ASSUME NEW i \in Ids
          PROVE  chan'[i] = chan[i] \/ (i = i0 /\ chan'[i] = Tail(chan[i0]))
        BY <3>1, <3>2 DEF TypeOK, CallTypes
    <3>5. ASSUME NEW i \in Ids PROVE Msgs(chan'[i]) \subseteq Msgs(chan[i])
        BY <3>3, <3>4
    <3> QED
        BY <3>2, <3>5
  <2>2. CASE Call(w) \/ Send(w) \/ SendFailed(w) \/ ConnLost(w)
             \/ (w = "job" /\ SendCancelFor(w)) \/ LeavePing(w) \/ GraceReturn(w)
             \/ GraceBranch(w) \/ ContextEnds(w)
      BY <1>1, <2>2 DEF Call, Send, CanSend, SendFailed, ReturnFrom, ConnLost, NoticeLoss,
        SendCancelFor, LeavePing, GraceReturn, GraceBranch, ContextEnds
  <2> QED
      BY <1>1, <2>1, <2>2 DEF Do, ContextBranch
<1>2. CASE Close \/ ReadLoop \/ Helper
  <2>1. CASE ReadLine
    <3>1. /\ toClient # <<>> /\ toClient' = Tail(toClient) /\ UNCHANGED <<chan, answered>>
          /\ loop' = loop \/ loop' = Deliver(Head(toClient))
        BY <2>1 DEF ReadLine
    <3>2. Msgs(toClient') \subseteq Msgs(toClient) /\ Head(toClient) \in Msgs(toClient)
        BY <3>1, MsgsTail
    <3> QED
        BY <3>1, <3>2 DEF Deliver
  <2>2. CASE PutInChannel
    <3> DEFINE m == loop.msg
               i0 == loop.msg.id
    <3>1. loop.at = "deliver" /\ m \in Responses /\ i0 \in Ids /\ i0 = m.id
        BY <2>2 DEF PutInChannel, Reading, Done, Responses, TypeOK, WireTypes
    <3>2. /\ chan' = [chan EXCEPT ![i0] = Append(chan[i0], m)] /\ loop' = Reading
          /\ UNCHANGED <<toClient, answered>>
        BY <2>2 DEF PutInChannel
    <3>3. Msgs(Append(chan[i0], m)) = Msgs(chan[i0]) \cup {m}
        BY <3>1, MsgsAppend
    <3>4. Genuine(m)
        BY <3>1
    <3> HIDE DEF i0, m
    <3>5. ASSUME NEW i \in Ids
          PROVE  Msgs(chan'[i]) \subseteq Msgs(chan[i]) \cup {m} /\ (i # i0 =>
               chan'[i] = chan[i])
        BY <3>1, <3>2, <3>3 DEF TypeOK, CallTypes
    <3>6. ASSUME NEW i \in Ids, NEW p \in Msgs(chan'[i]) PROVE p.id = i /\ Genuine(p)
        BY <3>1, <3>4, <3>5
    <3> QED
        BY <3>2, <3>6 DEF Reading
  <2>3. CASE HelperAnswer
    <3> DEFINE m == owed
    <3>1. /\ UNCHANGED <<chan, loop>> /\ answered \subseteq answered'
          /\ toClient' = toClient \/ (toClient' = Append(toClient, m) /\ m.id \in answered')
        BY <2>3 DEF HelperAnswer, Answer, Write
    <3>2. m \in Responses /\ m.type # "busy"
        BY <2>3 DEF HelperAnswer, Wire, TypeOK, WireTypes, NoResp, Resp
    <3> HIDE DEF m
    <3>3. \A p \in Msgs(toClient') : p \in Msgs(toClient) \/ (p = m /\ m.id \in answered')
      <4>1. Msgs(Append(toClient, m)) = Msgs(toClient) \cup {m}
          BY <3>2, MsgsGrow
      <4> QED
          BY <3>1, <4>1
    <3> QED
        BY <3>1, <3>2, <3>3
  <2>4. CASE HelperProgress
    <3> DEFINE m == Resp(inflight, "progress")
    <3>1. /\ UNCHANGED <<chan, loop, answered>>
          /\ toClient' = toClient \/ toClient' = Append(toClient, m)
        BY <2>4 DEF HelperProgress, Write
    <3>2. m \in Responses /\ m.type = "progress"
        BY <2>4 DEF HelperProgress, Resp, Responses, TypeOK, WireTypes
    <3> HIDE DEF m
    <3>3. \A p \in Msgs(toClient') : p \in Msgs(toClient) \/ p = m
      <4>1. Msgs(Append(toClient, m)) = Msgs(toClient) \cup {m}
          BY <3>2, MsgsGrow
      <4> QED
          BY <3>1, <4>1
    <3> QED
        BY <3>1, <3>2, <3>3
  <2>5. CASE HelperRespond
    <3>0. PICK t \in Final(cleared) : Answer(cleared, Resp(cleared, t))
        BY <2>5 DEF HelperRespond
    <3> DEFINE m == Resp(cleared, t)
    <3>1. /\ UNCHANGED <<chan, loop>> /\ answered \subseteq answered'
          /\ toClient' = toClient \/ (toClient' = Append(toClient, m) /\ m.id \in answered')
        BY <3>0, <2>5 DEF HelperRespond, Answer, Write, Resp
    <3>2. m \in Responses /\ m.type # "busy"
        BY <3>0, <2>5 DEF HelperRespond, Resp, Responses, Final, TypeOK, WireTypes
    <3> HIDE DEF m
    <3>3. \A p \in Msgs(toClient') : p \in Msgs(toClient) \/ (p = m /\ m.id \in answered')
      <4>1. Msgs(Append(toClient, m)) = Msgs(toClient) \cup {m}
          BY <3>2, MsgsGrow
      <4> QED
          BY <3>1, <4>1
    <3> QED
        BY <3>1, <3>2, <3>3
  <2>6. CASE Close \/ Fail \/ HelperTake \/ HelperClear \/ HelperHangsUp
      BY <2>6 DEF Close, Fail, FailWaking, HelperTake, HelperClear, HelperHangsUp
  <2> QED
      BY <1>2, <2>1, <2>2, <2>3, <2>4, <2>5, <2>6 DEF ReadLoop, Helper, HelperFinish
<1>3. CASE UNCHANGED vars
    BY <1>3 DEF vars
<1> QED
    BY <1>1, <1>2, <1>3 DEF Next

(* A cancel is sent when the op before it is the caller's own.             *)
LEMMA StepAimed ==
    TypeOK /\ Counted /\ OneCall /\ Broken /\ Wire /\ Turn /\ Aimed /\ [Next]_vars => Aimed'
<1> SUFFICES ASSUME TypeOK, Counted, OneCall, Broken, Wire, Turn, Aimed, [Next]_vars
             PROVE  Aimed'
    OBVIOUS
<1> USE DEF Aimed, callVars, sharedVars, helperVars
<1>1. ASSUME NEW w \in Callers, Call(w) \/ Do(w) \/ GraceBranch(w) \/ ContextEnds(w)
      PROVE  Aimed'
  <2>1. CASE Send(w)
    <3> DEFINE r == [id |-> cur[w], kind |-> kind[cur[w]]]
    <3>1. UNCHANGED <<inflight, ended>> /\ (toHelper' = toHelper \/
               toHelper' = Append(toHelper, r))
        BY <2>1 DEF Send
    <3>2. r \in Requests /\ r.kind # "cancel"
        BY <1>1, <2>1 DEF Send, OneCall, InDo, KindOf, Requests, TypeOK, CallTypes
    <3> HIDE DEF r
    <3>3. CASE toHelper' = Append(toHelper, r)
      <4>1. /\ Len(toHelper) \in Nat
            /\ \A k \in 1 .. Len(toHelper') :
                 \/ k \in 1 .. Len(toHelper) /\ toHelper'[k] = toHelper[k]
                 \/ k = Len(toHelper) + 1 /\ toHelper'[k] = r
            /\ \A k \in 1 .. Len(toHelper) : toHelper'[k] = toHelper[k]
          BY <3>2, <3>3, LastOn
      <4>2. ASSUME NEW k \in 1 .. Len(toHelper'), toHelper'[k].kind = "cancel"
            PROVE  k \in 1 .. Len(toHelper) /\ toHelper[k].kind = "cancel"
          BY <3>2, <4>1, <4>2
      <4>3. ASSUME NEW k \in 1 .. Len(toHelper), NEW l \in 1 .. k
            PROVE  l \in 1 .. Len(toHelper) /\ toHelper'[l] = toHelper[l]
          BY <4>1
      <4> QED
          BY <3>1, <4>2, <4>3
    <3> QED
        BY <3>1, <3>3
  <2>2. CASE w = "job" /\ SendCancelFor(w)
    <3> DEFINE r == [id |-> nextID + 1, kind |-> "cancel"]
    <3>1. /\ cur[w] \in ended \ asked /\ UNCHANGED <<inflight, ended>> /\ w = "job"
          /\ toHelper' = toHelper \/ (conn /\ hup /\ toHelper' = Append(toHelper, r))
        BY <2>2 DEF SendCancelFor, CanSend
    <3>2. cur[w] \in Ids \ asked /\ kind[cur[w]] = "op"
        BY <1>1, <2>2 DEF SendCancelFor, OneCall, KindOf, InDo, TypeOK, CallTypes
    <3>3. r \in Requests
      <4> DEFINE i0 == cur[w]
      <4>1. i0 \in Ids \ asked /\ kind[i0] = "op"
          BY <3>2
      <4> HIDE DEF i0
      <4> QED
          BY <4>1, Room DEF Requests
    <3> HIDE DEF r
    <3>4. CASE conn /\ hup /\ toHelper' = Append(toHelper, r)
      <4>1. /\ Len(toHelper) \in Nat
            /\ \A k \in 1 .. Len(toHelper') :
                 \/ k \in 1 .. Len(toHelper) /\ toHelper'[k] = toHelper[k]
                 \/ k = Len(toHelper) + 1 /\ toHelper'[k] = r
            /\ \A k \in 1 .. Len(toHelper) : toHelper'[k] = toHelper[k]
          BY <3>3, <3>4, LastOn
      <4>2. ASSUME NEW i \in Ids, Works(i), kind[i] = "op" PROVE i \in ended
        <5>1. outcome[i] \notin {"connLost", "grace"}
            BY <3>4 DEF Broken
        <5>2. outcome[i] = "none"
            BY <4>2, <5>1 DEF Turn
        <5>3. i = cur["job"]
            BY <4>2, <5>2 DEF OneCall, Callers, KindOf
        <5> QED
            BY <3>1, <5>3
      <4>3. inflight # None => inflight \in ended
          BY <4>2 DEF Works, Wire, TypeOK, WireTypes
      <4>4. ASSUME NEW l \in 1 .. Len(toHelper), toHelper[l].kind = "op"
            PROVE  toHelper[l].id \in ended
          BY <4>2, <4>4, OnWire DEF Works, Queued, Wire
      <4>5. r.kind = "cancel"
          BY DEF r
      <4>6. ASSUME NEW k \in 1 .. Len(toHelper'), NEW l \in 1 .. k, toHelper'[l].kind = "op"
            PROVE  toHelper'[l].id \in ended
        <5>1. l \in 1 .. Len(toHelper')
            BY <3>3, <3>4, LastOn
        <5>2. l \in 1 .. Len(toHelper) /\ toHelper'[l] = toHelper[l]
            BY <4>1, <4>5, <4>6, <5>1
        <5> QED
            BY <4>4, <4>6, <5>2
      <4> QED
          BY <3>1, <4>3, <4>6
    <3> QED
        BY <3>1, <3>4
  <2>3. CASE Call(w) \/ SendFailed(w) \/ Receive(w) \/ ConnLost(w) \/ LeavePing(w)
             \/ GraceReturn(w) \/ GraceBranch(w) \/ ContextEnds(w)
      BY <1>1, <2>3 DEF Call, SendFailed, ReturnFrom, Receive, ConnLost, NoticeLoss,
        LeavePing, GraceReturn, GraceBranch, ContextEnds
  <2> QED
      BY <1>1, <2>1, <2>2, <2>3 DEF Do, ContextBranch
<1>2. CASE Close \/ ReadLoop \/ Helper
  <2>1. CASE HelperTake
    <3> DEFINE r == Head(toHelper)
    <3>1. /\ toHelper # <<>> /\ toHelper' = Tail(toHelper) /\ UNCHANGED ended
          /\ inflight' = inflight \/ (r.kind = "op" /\ inflight' = r.id)
        BY <2>1 DEF HelperTake
    <3>2. /\ r = toHelper[1] /\ 1 \in 1 .. Len(toHelper) /\ Len(toHelper') \in Nat
          /\ \A k \in 1 .. Len(toHelper') :
               k + 1 \in 2 .. Len(toHelper) /\ toHelper'[k] = toHelper[k + 1]
        BY <3>1, FirstOff
    <3> HIDE DEF r
    <3>3. ASSUME NEW k \in 1 .. Len(toHelper'), toHelper'[k].kind = "cancel"
          PROVE  /\ k + 1 \in 1 .. Len(toHelper) /\ toHelper[k + 1].kind = "cancel"
                 /\ 1 \in 1 .. k + 1
        BY <3>2, <3>3, OnWire
    <3>4. ASSUME NEW k \in 1 .. Len(toHelper'), toHelper'[k].kind = "cancel",
                 inflight' # None
          PROVE  inflight' \in ended
        BY <3>1, <3>2, <3>3, <3>4
    <3>5. ASSUME NEW k \in 1 .. Len(toHelper'), toHelper'[k].kind = "cancel",
                 NEW l \in 1 .. k, toHelper'[l].kind = "op"
          PROVE  toHelper'[l].id \in ended
      <4>1. l \in 1 .. Len(toHelper') /\ l + 1 \in 1 .. k + 1
          BY <3>2
      <4>2. toHelper'[l] = toHelper[l + 1]
          BY <3>2, <4>1
      <4> QED
          BY <3>3, <3>5, <4>1, <4>2
    <3> QED
        BY <3>1, <3>4, <3>5
  <2>2. CASE HelperHangsUp
    <3>1. toHelper' = <<>> /\ Len(toHelper') = 0
        BY <2>2, EmptySeq DEF HelperHangsUp
    <3> QED
        BY <3>1
  <2>3. CASE Close \/ ReadLine \/ PutInChannel \/ Fail \/ HelperAnswer \/ HelperProgress
             \/ HelperClear \/ HelperRespond
      BY <2>3 DEF Close, ReadLine, PutInChannel, Fail, FailWaking, HelperAnswer, Answer,
        Write, HelperProgress, HelperClear, HelperRespond, Final
  <2> QED
      BY <1>2, <2>1, <2>2, <2>3 DEF ReadLoop, Helper, HelperFinish
<1>3. CASE UNCHANGED vars
    BY <1>3 DEF vars
<1> QED
    BY <1>1, <1>2, <1>3 DEF Next

(* The read loop drops no answer somebody waits for, and a waiting caller  *)
(* looks into its channel before it believes in a loss.                    *)
LEMMA StepArrives ==
    TypeOK /\ Counted /\ OneCall /\ Broken /\ Wire /\ Turn /\ Told /\ Arrives /\
         [Next]_vars => Arrives'
<1> SUFFICES ASSUME TypeOK, Counted, OneCall, Broken, Wire, Turn, Told, Arrives, [Next]_vars
             PROVE  Arrives'
    OBVIOUS
<1> USE DEF TypeOK, CallTypes, WireTypes, Arrives, callVars, sharedVars, helperVars
<1>1. ASSUME NEW w \in Callers, Call(w) \/ Do(w) \/ GraceBranch(w) \/ ContextEnds(w)
      PROVE  Arrives'
  <2>1. CASE Call(w)
    <3> DEFINE n == nextID + 1
    <3>1. n \in Ids /\ kind[n] = "none" /\ n \notin answered
      <4>1. CanCall(w)
          BY <2>1 DEF Call
      <4> QED
          BY <1>1, <4>1, Room, NextFree DEF Wire
    <3> HIDE DEF n
    <3>2. /\ kind' = [kind EXCEPT ![n] = KindOf(w)] /\
               UNCHANGED <<conn, answered, toClient, loop, chan>>
          /\ outcome' = outcome \/ outcome' = [outcome EXCEPT ![n] = "connLost"]
        BY <2>1 DEF Call, n
    <3>3. \A i : OnItsWay(i)' <=> OnItsWay(i)
        BY <3>2 DEF OnItsWay
    <3>4. \A i \in answered : kind'[i] = kind[i] /\ outcome'[i] = outcome[i]
        BY <3>1, <3>2
    <3> QED
        BY <3>2, <3>3, <3>4
  <2>2. CASE SendFailed(w)
    <3>1. UNCHANGED <<conn, answered, toClient, loop, chan, kind>>
        BY <2>2 DEF SendFailed
    <3>2. outcome' = [outcome EXCEPT ![cur[w]] = "connLost"] /\ cur[w] \notin answered
        BY <1>1, <2>2 DEF SendFailed, ReturnFrom, Turn
    <3>3. \A i : OnItsWay(i)' <=> OnItsWay(i)
        BY <3>1 DEF OnItsWay
    <3>4. \A i \in answered : outcome'[i] = outcome[i]
        BY <3>2
    <3> QED
        BY <3>1, <3>3, <3>4
  <2>3. CASE Receive(w)
    <3> DEFINE i0 == cur[w]
    <3>1. i0 \in Ids /\ UNCHANGED <<conn, answered, toClient, loop, kind>>
        BY <1>1, <2>3 DEF Receive, OneCall, InDo
    <3>2. /\ chan[i0] # <<>> /\ chan' = [chan EXCEPT ![i0] = Tail(chan[i0])]
          /\ \/ Head(chan[i0]).type = "progress" /\ outcome' = outcome
             \/ \E s \in {"ok", "error", "ctxErr"} : outcome' = [outcome EXCEPT ![i0] = s]
        BY <2>3 DEF Receive, ReturnFrom
    <3>3. Msgs(chan[i0]) = {Head(chan[i0])} \cup Msgs(Tail(chan[i0]))
        BY <3>1, <3>2, MsgsTail
    <3> HIDE DEF i0
    <3>4. ASSUME NEW i \in Ids, i # i0 PROVE OnItsWay(i)' <=> OnItsWay(i)
        BY <3>1, <3>2, <3>4 DEF OnItsWay
    <3>5. ASSUME NEW i \in Ids, i = i0, outcome'[i] = "none", OnItsWay(i)
          PROVE  OnItsWay(i)' /\ outcome[i] = "none"
      <4>1. Head(chan[i0]).type = "progress" /\ outcome' = outcome
          BY <3>1, <3>2, <3>5
      <4>2. ASSUME NEW m \in Msgs(chan[i]), IsFinal(m) PROVE m \in Msgs(chan'[i])
          BY <3>1, <3>2, <3>3, <3>5, <4>1, <4>2 DEF IsFinal
      <4> QED
          BY <3>1, <3>5, <4>1, <4>2 DEF OnItsWay
    <3>6. ASSUME NEW i \in Ids
          PROVE  /\ outcome'[i] = "none" => outcome[i] = "none"
                 /\ outcome'[i] = "connLost" => outcome[i] = "connLost"
        BY <3>1, <3>2
    <3> QED
        BY <3>1, <3>4, <3>5, <3>6
  <2>4. CASE ConnLost(w)
    <3> DEFINE i0 == cur[w]
    <3>1. UNCHANGED <<conn, answered, toClient, loop, chan, kind>>
        BY <2>4 DEF ConnLost, NoticeLoss
    <3>2. /\ outcome' = [outcome EXCEPT ![i0] = "connLost"]
          /\ i0 \in Ids /\ outcome[i0] = "none" /\ kind[i0] \in {"op", "ping"}
          /\ chan[i0] = <<>> /\ i0 \in chClosed
        BY <1>1, <2>4 DEF ConnLost, NoticeLoss, ReturnFrom, OneCall, InDo, KindOf
    <3>3. conn => toClient = <<>> /\ loop = Done
        BY <3>2 DEF Broken
    <3>4. conn => ~OnItsWay(i0)
        BY <3>2, <3>3, MsgsOf DEF OnItsWay, Done
    <3> HIDE DEF i0
    <3>5. conn => i0 \notin answered
        BY <3>2, <3>4
    <3>6. \A i : OnItsWay(i)' <=> OnItsWay(i)
        BY <3>1 DEF OnItsWay
    <3>7. conn => \A i \in answered : outcome'[i] = outcome[i]
        BY <3>2, <3>5
    <3> QED
        BY <3>1, <3>6, <3>7
  <2>5. CASE w = "job" /\ SendCancelFor(w)
    <3> DEFINE n == nextID + 1
    <3>1. n \in Ids /\ kind[n] = "none" /\ n \notin answered
      <4> DEFINE i0 == cur[w]
      <4>1. i0 \in Ids \ asked /\ kind[i0] = "op"
          BY <1>1, <2>5 DEF SendCancelFor, OneCall, KindOf, InDo
      <4> HIDE DEF i0
      <4> QED
          BY <4>1, Room, NextFree DEF Wire
    <3> HIDE DEF n
    <3>2. /\ kind' = [kind EXCEPT ![n] = "cancel"]
          /\ UNCHANGED <<conn, answered, toClient, loop, chan, outcome>>
        BY <2>5 DEF SendCancelFor, n
    <3>3. \A i : OnItsWay(i)' <=> OnItsWay(i)
        BY <3>2 DEF OnItsWay
    <3>4. \A i \in answered : kind'[i] = kind[i]
        BY <3>1, <3>2
    <3> QED
        BY <3>2, <3>3, <3>4
  <2>6. CASE LeavePing(w)
    <3>1. UNCHANGED <<conn, answered, toClient, loop, chan, kind>>
        BY <2>6 DEF LeavePing
    <3>2. outcome' = [outcome EXCEPT ![cur[w]] = "ctxErr"]
        BY <2>6 DEF LeavePing, ReturnFrom
    <3>3. \A i : OnItsWay(i)' <=> OnItsWay(i)
        BY <3>1 DEF OnItsWay
    <3>4. \A i \in Ids : outcome'[i] \in {"none", "connLost"} => outcome'[i] = outcome[i]
        BY <3>2
    <3> QED
        BY <3>1, <3>3, <3>4
  <2>7. CASE GraceReturn(w)
    <3>1. ~conn /\ UNCHANGED conn
        BY <1>1, <2>7 DEF GraceReturn, Broken
    <3> QED
        BY <3>1
  <2>8. CASE GraceBranch(w)
    <3>1. conn' = FALSE
        BY <2>8 DEF GraceBranch
    <3> QED
        BY <3>1
  <2>9. CASE Send(w) \/ ContextEnds(w)
      BY <1>1, <2>9 DEF Send, CanSend, ContextEnds, OnItsWay
  <2> QED
      BY <1>1, <2>1, <2>2, <2>3, <2>4, <2>5, <2>6, <2>7, <2>8, <2>9 DEF Do, ContextBranch
<1>2. CASE Close \/ ReadLoop \/ Helper
  <2>1. CASE Close
    <3>1. conn' = FALSE
        BY <2>1 DEF Close
    <3> QED
        BY <3>1
  <2>2. CASE ReadLine
    <3> DEFINE m == Head(toClient)
    <3>1. /\ loop.at = "read" /\ toClient # <<>> /\ toClient' = Tail(toClient)
          /\ UNCHANGED <<conn, answered, chan, kind, outcome>>
          /\ loop' = IF m.id \in pending THEN Deliver(m) ELSE loop
        BY <2>2 DEF ReadLine
    <3>2. Msgs(toClient) = {m} \cup Msgs(Tail(toClient))
        BY <3>1, MsgsTail
    <3> HIDE DEF m
    <3>3. ASSUME NEW i \in Ids, kind[i] \in {"op", "ping"}, outcome[i] = "none"
          PROVE  i \in pending
        BY <3>1, <3>3 DEF Broken, Done
    <3>4. ASSUME NEW i \in answered, kind[i] \in {"op", "ping"}, outcome[i] = "none",
                 OnItsWay(i)
          PROVE  OnItsWay(i)'
      <4>1. CASE m.id = i /\ IsFinal(m)
        <5>1. loop' = Deliver(m)
            BY <3>1, <3>3, <3>4, <4>1
        <5> QED
            BY <4>1, <5>1 DEF OnItsWay, Deliver
      <4>2. CASE \E p \in Msgs(Tail(toClient)) : p.id = i /\ IsFinal(p)
          BY <3>1, <4>2 DEF OnItsWay
      <4>3. CASE \E p \in Msgs(chan[i]) : IsFinal(p)
          BY <3>1, <4>3 DEF OnItsWay
      <4> QED
          BY <3>1, <3>2, <3>4, <4>1, <4>2, <4>3 DEF OnItsWay
    <3> QED
        BY <3>1, <3>4
  <2>3. CASE PutInChannel
    <3> DEFINE m == loop.msg
               i0 == loop.msg.id
    <3>1. m \in Responses /\ i0 \in Ids /\ i0 = m.id
        BY <2>3 DEF PutInChannel, Reading, Done, Responses
    <3>2. /\ chan' = [chan EXCEPT ![i0] = Append(chan[i0], m)] /\ loop' = Reading
          /\ UNCHANGED <<toClient, answered, conn, kind, outcome>>
        BY <2>3 DEF PutInChannel
    <3>3. Msgs(Append(chan[i0], m)) = Msgs(chan[i0]) \cup {m}
        BY <3>1, MsgsGrow
    <3>4. ASSUME NEW i \in Ids
          PROVE  Msgs(chan[i]) \subseteq Msgs(chan'[i]) /\ (i = i0 => m \in Msgs(chan'[i]))
      <4> HIDE DEF i0, m
      <4> QED
          BY <3>1, <3>2, <3>3
    <3>5. ASSUME NEW i \in Ids, OnItsWay(i) PROVE OnItsWay(i)'
        BY <3>1, <3>2, <3>4, <3>5 DEF OnItsWay
    <3> QED
        BY <3>2, <3>5
  <2>4. CASE Fail
    <3>1. /\ UNCHANGED <<toClient, answered, conn, kind, outcome, chan>>
          /\ loop.at = "read" /\ loop' = Done
        BY <2>4 DEF Fail, FailWaking
    <3>2. \A i : OnItsWay(i)' <=> OnItsWay(i)
        BY <3>1 DEF OnItsWay, Done
    <3> QED
        BY <3>1, <3>2
  <2>5. CASE HelperAnswer
    <3> DEFINE m == owed
    <3>1. /\ UNCHANGED <<chan, loop, conn, kind, outcome>>
          /\ \/ answered' = answered /\ toClient' = toClient
             \/ /\ conn /\ hup /\ answered' = answered \cup {m.id}
                /\ toClient' = Append(toClient, m)
        BY <2>5 DEF HelperAnswer, Answer, Write
    <3>2. m \in Responses /\ IsFinal(m)
        BY <2>5 DEF HelperAnswer, Wire, IsFinal, NoResp, Resp
    <3> HIDE DEF m
    <3>3. \A i : OnItsWay(i) => OnItsWay(i)'
      <4>1. Msgs(toClient) \subseteq Msgs(toClient')
        <5>1. Msgs(Append(toClient, m)) = Msgs(toClient) \cup {m}
            BY <3>2, MsgsGrow
        <5> QED
            BY <3>1, <5>1
      <4> QED
          BY <3>1, <4>1 DEF OnItsWay
    <3>4. CASE answered' = answered
        BY <3>1, <3>3, <3>4
    <3>5. CASE conn /\ hup /\ answered' = answered \cup {m.id} /\
               toClient' = Append(toClient, m)
      <4>1. m \in Msgs(toClient')
          BY <3>2, <3>5, MsgsGrow
      <4>2. m.id \in Ids /\ outcome[m.id] # "connLost"
          BY <3>2, <3>5 DEF Broken, Responses
      <4>3. ASSUME NEW i \in answered', i = m.id PROVE OnItsWay(i)'
          BY <3>2, <4>1, <4>3 DEF OnItsWay
      <4>4. ASSUME NEW i \in answered'
            PROVE  /\ kind[i] \in {"op", "ping"} /\ outcome[i] = "none" => OnItsWay(i)'
                   /\ outcome[i] # "connLost"
          BY <3>3, <3>5, <4>2, <4>3, <4>4
      <4> QED
          BY <3>1, <4>4
    <3> QED
        BY <3>1, <3>4, <3>5
  <2>6. CASE HelperProgress
    <3> DEFINE m == Resp(inflight, "progress")
    <3>1. /\ UNCHANGED <<chan, loop, answered, conn, kind, outcome>>
          /\ toClient' = toClient \/ toClient' = Append(toClient, m)
        BY <2>6 DEF HelperProgress, Write
    <3>2. m \in Responses
        BY <2>6 DEF HelperProgress, Resp, Responses
    <3> HIDE DEF m
    <3>3. \A i : OnItsWay(i) => OnItsWay(i)'
      <4>1. Msgs(toClient) \subseteq Msgs(toClient')
        <5>1. Msgs(Append(toClient, m)) = Msgs(toClient) \cup {m}
            BY <3>2, MsgsGrow
        <5> QED
            BY <3>1, <5>1
      <4> QED
          BY <3>1, <4>1 DEF OnItsWay
    <3> QED
        BY <3>1, <3>3
  <2>7. CASE HelperRespond
    <3>0. PICK t \in Final(cleared) : Answer(cleared, Resp(cleared, t))
        BY <2>7 DEF HelperRespond
    <3> DEFINE m == Resp(cleared, t)
    <3>1. /\ UNCHANGED <<chan, loop, conn, kind, outcome>>
          /\ \/ answered' = answered /\ toClient' = toClient
             \/ /\ conn /\ hup /\ answered' = answered \cup {m.id}
                /\ toClient' = Append(toClient, m)
        BY <3>0, <2>7 DEF HelperRespond, Answer, Write, Resp
    <3>2. m \in Responses /\ IsFinal(m)
        BY <3>0, <2>7 DEF HelperRespond, Final, IsFinal, Resp, Responses
    <3> HIDE DEF m
    <3>3. \A i : OnItsWay(i) => OnItsWay(i)'
      <4>1. Msgs(toClient) \subseteq Msgs(toClient')
        <5>1. Msgs(Append(toClient, m)) = Msgs(toClient) \cup {m}
            BY <3>2, MsgsGrow
        <5> QED
            BY <3>1, <5>1
      <4> QED
          BY <3>1, <4>1 DEF OnItsWay
    <3>4. CASE answered' = answered
        BY <3>1, <3>3, <3>4
    <3>5. CASE conn /\ hup /\ answered' = answered \cup {m.id} /\
               toClient' = Append(toClient, m)
      <4>1. m \in Msgs(toClient')
          BY <3>2, <3>5, MsgsGrow
      <4>2. m.id \in Ids /\ outcome[m.id] # "connLost"
          BY <3>2, <3>5 DEF Broken, Responses
      <4>3. ASSUME NEW i \in answered', i = m.id PROVE OnItsWay(i)'
          BY <3>2, <4>1, <4>3 DEF OnItsWay
      <4>4. ASSUME NEW i \in answered'
            PROVE  /\ kind[i] \in {"op", "ping"} /\ outcome[i] = "none" => OnItsWay(i)'
                   /\ outcome[i] # "connLost"
          BY <3>3, <3>5, <4>2, <4>3, <4>4
      <4> QED
          BY <3>1, <4>4
    <3> QED
        BY <3>1, <3>4, <3>5
  <2>8. CASE HelperTake \/ HelperClear \/ HelperHangsUp
      BY <2>8 DEF HelperTake, HelperClear, HelperHangsUp, OnItsWay
  <2> QED
      BY <1>2, <2>1, <2>2, <2>3, <2>4, <2>5, <2>6, <2>7, <2>8 DEF ReadLoop, Helper,
        HelperFinish
<1>3. CASE UNCHANGED vars
    BY <1>3 DEF vars, OnItsWay
<1> QED
    BY <1>1, <1>2, <1>3 DEF Next

-----------------------------------------------------------------------------
(* The inductive invariant: each of the three properties is or follows     *)
(* from one conjunct, which holds thanks to the others.                    *)
IInv == /\ TypeOK /\ Counted /\ OneCall /\ Broken /\ Wire /\ Turn
        /\ Told /\ Aimed /\ Arrives /\ CancelHitsItsOwnCall

(* It holds throughout.                                                    *)
LEMMA Invariance == Spec => []IInv
<1>1. Init => IInv
  <2> SUFFICES ASSUME Init PROVE IInv
      OBVIOUS
  <2>1. <<>> \in Seq(Responses) /\ <<>> \in Seq(Requests) /\ Len(<<>>) = 0
      BY EmptySeq
  <2>2. TypeOK
      BY <2>1 DEF Init, TypeOK, CallTypes, WireTypes, Callers, Reading, InDo
  <2>3. Counted
    <3>1. \A k \in {"op", "ping"} : Used(k) = 0
      <4>1. \A k \in {"op", "ping"} : {i \in Ids : kind[i] = k} = {}
          BY DEF Init
      <4> QED
          BY <4>1, FS_EmptySet DEF Used
    <3>2. Cardinality(asked) = 0
        BY FS_EmptySet DEF Init
    <3> QED
        BY <3>1, <3>2, BoundsAssumption DEF Init, Counted, Ids
  <2>4. OneCall /\ Broken /\ Aimed /\ Arrives /\ CancelHitsItsOwnCall
      BY <2>1, NoneIsNoId DEF Init, OneCall, Broken, Aimed, Arrives, CancelHitsItsOwnCall,
         Callers, KindOf, InDo, Reading, Done
  <2>5. Wire /\ Turn
      BY <2>1, NoneIsNoId DEF Init, Wire, Turn, Works, Queued, Callers
  <2>6. Told
      BY MsgsOf DEF Init, Told, Reading
  <2> QED
      BY <2>2, <2>3, <2>4, <2>5, <2>6 DEF IInv
<1>2. IInv /\ [Next]_vars => IInv'
  <2> SUFFICES ASSUME IInv, [Next]_vars PROVE IInv'
      OBVIOUS
  <2>1. CancelHitsItsOwnCall'
    <3> USE DEF IInv, CancelHitsItsOwnCall, callVars, sharedVars, helperVars
    <3>1. CASE HelperTake
      <4>1. /\ ended' = ended /\ toHelper # <<>>
            /\ \/ hcancelled' = hcancelled
               \/ Head(toHelper).kind = "cancel"
                  /\ hcancelled' = hcancelled \cup ({inflight} \ {None})
          BY <3>1 DEF HelperTake
      <4>2. Head(toHelper) = toHelper[1] /\ 1 \in 1 .. Len(toHelper)
          BY <4>1, FirstOff
      <4>3. Head(toHelper).kind = "cancel" => inflight = None \/ inflight \in ended
          BY <4>2 DEF Aimed
      <4> QED
          BY <4>1, <4>3
    <3>2. CASE HelperAnswer \/ HelperProgress \/ HelperClear \/ HelperRespond \/
               HelperHangsUp
        BY <3>2 DEF HelperAnswer, HelperProgress, HelperClear, HelperRespond, Answer,
           HelperHangsUp
    <3>3. CASE Close \/ ReadLoop
        BY <3>3 DEF Close, ReadLoop, ReadLine, PutInChannel, Fail, FailWaking
    <3>4. ASSUME NEW w \in Callers, Call(w) \/ Do(w) \/ GraceBranch(w) \/ ContextEnds(w)
          PROVE  hcancelled' = hcancelled /\ ended \subseteq ended'
        BY <3>4 DEF Call, Do, Send, SendFailed, Receive, ConnLost, NoticeLoss, ContextBranch,
           SendCancelFor, LeavePing, GraceReturn, GraceBranch, ContextEnds
    <3>5. CASE UNCHANGED vars
        BY <3>5 DEF vars
    <3> QED
        BY <3>1, <3>2, <3>3, <3>4, <3>5 DEF Next, Helper, HelperFinish
  <2> QED
      BY <2>1, StepType, StepCounted, StepOneCall, StepBroken, StepWire, StepTurn, StepTold,
         StepAimed, StepArrives DEF IInv
<1> QED
    BY <1>1, <1>2, PTL DEF Spec

(* Types are kept, with an ID left for every call and every cancel.        *)
THEOREM TypeCorrect == Spec => []TypeOK
<1>1. IInv => TypeOK
    BY DEF IInv
<1> QED
    BY <1>1, Invariance, PTL

(* A cancel line, which names no op, aborts only an op whose own context   *)
(* has ended, whenever it is read (client.go:166-170).                     *)
THEOREM CancelIsAimed == Spec => []CancelHitsItsOwnCall
<1>1. IInv => CancelHitsItsOwnCall
    BY DEF IInv
<1> QED
    BY <1>1, Invariance, PTL

(* When do returns an op without a loss the helper is through with it, and *)
(* the next op is not told busy (client.go:104-106).                       *)
THEOREM TurnIsOver == Spec => []TurnIsFreeOnReturn
<1>1. IInv => TurnIsFreeOnReturn
  <2> SUFFICES ASSUME IInv PROVE TurnIsFreeOnReturn
      OBVIOUS
  <2>1. NoReturnWhileHelperWorks
      BY DEF IInv, Turn, Works, NoReturnWhileHelperWorks
  <2>2. NeverBusy
      BY DEF IInv, Told, Genuine, Msgs, NeverBusy
  <2> QED
      BY <2>1, <2>2 DEF TurnIsFreeOnReturn
<1> QED
    BY <1>1, Invariance, PTL

(* While this end is open, a call the helper has answered is not reported  *)
(* as lost (client.go:146-157).                                            *)
THEOREM AnswersArrive == Spec => []AnswerSurvivesLoss
<1>1. IInv => AnswerSurvivesLoss
    BY DEF IInv, Arrives, AnswerSurvivesLoss
<1> QED
    BY <1>1, Invariance, PTL

=============================================================================
