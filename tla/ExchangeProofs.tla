--------------------------- MODULE ExchangeProofs ---------------------------
(***************************************************************************)
(* What Exchange promises of every line, for any statuses and any values   *)
(* of the Connection header.                                               *)
(***************************************************************************)
EXTENDS Exchange, TLAPS

\* serve goes on with requests only.
IsRequest == isRequest(line) /\ Decodes(line)

\* A reply that was made says what generateResponse puts into it.
Said ==
    \/ got.conn \in {"close", "keep-alive"}
    \/ got.conn = "none" /\ ~bodyAllowedForStatus(got.status) /\ line.method # "HEAD"
    \/ got.conn = w.conn /\ w.conn \notin {"none", "keep-alive"}

\* A handler runs for a request, of which the device has heard nothing.
AtHandle == pc = "handle" => IsRequest /\ got = Nothing

\* When it has returned, the device has a reply, or the handler wrote.
AtCheck ==
    pc = "check" =>
        /\ IsRequest
        /\ IF w.raw THEN got = Nothing ELSE got.what = "reply" /\ ~kept /\ Said

\* The body was set while the status allowed it.
BodySet == w.body # "none" => w.status # 0 /\ (bodyAllowedForStatus(w.status) \/ late)

\* The body of a POST is in the buffer until somebody empties it, and a Request
\* that did keeps it.
BodyThere ==
    pc = "handle" /\ line.method = "POST" =>
        /\ body.r = "there" \/ (body.r = "spent" /\ reader # "nobody")
        /\ reader \in Requests => body.w[reader] = "set"

Inv ==
    /\ TypeOK /\ AtHandle /\ AtCheck /\ BodySet /\ BodyThere
    /\ CloseKept /\ BodyWhereAllowed

-----------------------------------------------------------------------------
(* What the names in a line tell. *)

LEMMA Telling ==
    ASSUME NEW l \in Line
    PROVE  isRequest(l) <=> l.kind \in {"request", "old", "echo"}
<1> USE DEF Names, isRequest, isResponse, Answers, reqFeature1, reqFeature2, respFeature1
<1>1. CASE l.kind = "request"
  BY <1>1
<1>2. CASE l.kind = "old"
  BY <1>2
<1>3. CASE l.kind \in {"answer", "blank"}
  BY <1>3
<1>4. CASE l.kind = "echo"
  BY <1>4
<1>5. CASE l.kind = "noise"
  BY <1>5
<1>6. l.kind \in {"request", "old", "answer", "blank", "echo", "noise"}
  BY DEF Line, NotRequest
<1> QED BY <1>1, <1>2, <1>3, <1>4, <1>5, <1>6

\* What a device may get.
Device ==
    [what : {"nothing", "reply", "400", "taken"},
     status : Statuses \cup {0, 400}, conn : Connections, body : Bodies]

LEMMA Types ==
    /\ Nothing \in [what : {"nothing", "reply", "400", "taken"},
                    status : Statuses \cup {0, 400}, conn : Connections, body : Bodies]
    /\ Clean \in Written
    /\ \A m \in {l.method : l \in Line} : Unread(m) \in BodyState
    /\ Unread("GET") \in BodyState
    /\ \A k \in {"answer", "blank", "echo", "noise"} : NotRequest(k) \in Line
BY ExchangeAssumption
   DEF Nothing, Clean, Unread, BodyState, Requests, NotRequest, Line, Written, Bodies

LEMMA FreshTypes ==
    ASSUME NEW b \in BodyState, Fresh(b)
    PROVE  /\ body' \in BodyState /\ reader' = "nobody"
           /\ w' \in Written /\ late' \in BOOLEAN
BY Types DEF Fresh

-----------------------------------------------------------------------------
(* Lines. *)

LEMMA ReadKeeps ==
    ASSUME Inv, NEW l \in Line, NEW launching \in BOOLEAN,
           ReadOther(l, launching) \/ ReadBad(l) \/ ReadRequest(l)
    PROVE  Inv'
<1> USE Telling, ExchangeAssumption
<1>1. CASE ReadOther(l, launching)
  <2>a. got' \in Device /\ (got'.what = "reply" => FALSE)
    BY <1>1, Types DEF ReadOther, Nothing, Device
  <2>b. line' \in Line /\ pc' \in {"closed", "read"}
        /\ UNCHANGED <<kept, keepAlives>> /\ Fresh(Unread("GET"))
    BY <1>1 DEF ReadOther
  <2>1. TypeOK'
    BY <2>a, <2>b, FreshTypes, Types DEF Inv, TypeOK, Device
  <2>2. ~isRequest(l) /\ line' = l /\ pc' \in {"read", "closed"} /\ w' = Clean
        /\ got'.what \in {"nothing", "taken"} /\ got'.conn = "none"
    BY <1>1 DEF ReadOther, Fresh, Nothing
  <2> QED
    BY <2>1, <2>2 DEF Inv, AtHandle, AtCheck, BodySet, BodyThere, Clean, IsRequest,
       CloseKept, ShouldClose, BodyWhereAllowed
<1>2. CASE ReadBad(l)
  <2>a. got' \in Device /\ (got'.what = "reply" => FALSE)
    BY <1>2 DEF ReadBad, Device, Bodies
  <2>b. line' \in Line /\ pc' = "closed" /\ ~kept'
        /\ kept' \in BOOLEAN /\ UNCHANGED keepAlives /\ Fresh(Unread("GET"))
    BY <1>2 DEF ReadBad
  <2>1. TypeOK'
    BY <2>a, <2>b, FreshTypes, Types DEF Inv, TypeOK, Device
  <2> QED
    BY <1>2, <2>1 DEF ReadBad, Fresh, Inv, AtHandle, AtCheck, BodySet, BodyThere, Clean,
       CloseKept, BodyWhereAllowed
<1>3. CASE ReadRequest(l)
  <2>a. Unread(l.method) \in BodyState
    BY Types
  <2>b. line' \in Line /\ pc' = "handle" /\ line' = l
        /\ UNCHANGED <<kept, keepAlives>> /\ Fresh(Unread(l.method)) /\ got' = Nothing
    BY <1>3 DEF ReadRequest
  <2>1. TypeOK'
    <3>1. Nothing \in Device /\ Nothing.what # "reply"
      BY Types DEF Device, Nothing
    <3> QED BY <2>a, <2>b, <3>1, FreshTypes DEF Inv, TypeOK, Device
  <2>2. isRequest(l) /\ Decodes(l) /\ w' = Clean
        /\ (l.method = "POST" => body'.r = "there") /\ reader' = "nobody"
    BY <1>3 DEF ReadRequest, Fresh, Unread
  <2> QED
    BY <2>1, <2>2, <2>b DEF Inv, AtHandle, AtCheck, BodySet, BodyThere, Clean, IsRequest,
       Nothing, CloseKept, BodyWhereAllowed, Requests
<1> QED BY <1>1, <1>2, <1>3

-----------------------------------------------------------------------------
(* The handler's calls. *)

\* Whatever a handler calls, it has not returned; what is left is its own.
LEMMA HandlingKeeps ==
    ASSUME Inv, Handling, TypeOK', BodySet', BodyThere'
    PROVE  Inv'
BY DEF Inv, Handling, AtHandle, AtCheck, IsRequest, CloseKept, Nothing, BodyWhereAllowed

LEMMA WithBodyType ==
    ASSUME NEW v \in Written, NEW b \in Bodies
    PROVE  /\ WithBody(v, b) \in Written
           /\ WithBody(v, b).status = default200Status(v.status)
           /\ WithBody(v, b).body # "none" =>
                 v.body # "none" \/ bodyAllowedForStatus(default200Status(v.status))
BY ExchangeAssumption DEF WithBody, Written, default200Status

LEMMA ReplyCallsKeep ==
    ASSUME Inv,
           \/ \E s \in Statuses : Status(s)
           \/ \E v \in Connections : SetHeader(v)
           \/ \E b \in Bodies : SetBody(b)
           \/ \E s \in Statuses, v \in Connections, b \in Bodies : WriteAt(s, v, b)
           \/ Write \/ Flush
    PROVE  Inv'
<1>1. Handling /\ UNCHANGED <<body, reader>> /\ kept' \in BOOLEAN /\ late' \in BOOLEAN
  BY DEF Inv, TypeOK, Status, SetHeader, SetBody, WriteAt, Write, Flush
<1>2. w' \in Written /\ BodySet'
  <2> USE DEF Inv, TypeOK, BodySet
  <2>0. w \in Written
    OBVIOUS
  <2>1. ASSUME NEW s \in Statuses, Status(s) PROVE w' \in Written /\ BodySet'
    <3>1. w' = [w EXCEPT !.status = s] /\ (late' <=> late \/ w.body # "none") /\ s # 0
      BY <2>1, ExchangeAssumption DEF Status
    <3>2. w' \in Written
      BY <2>0, <3>1 DEF Written
    <3> QED BY <2>0, <3>1, <3>2 DEF Written
  <2>2. ASSUME NEW v \in Connections, SetHeader(v) PROVE w' \in Written /\ BodySet'
    <3>1. w' = [w EXCEPT !.conn = v] /\ late' = late
      BY <2>2 DEF SetHeader
    <3>2. w' \in Written
      BY <2>0, <3>1 DEF Written
    <3> QED BY <2>0, <3>1, <3>2 DEF Written
  <2>3. ASSUME NEW b \in Bodies, SetBody(b) PROVE w' \in Written /\ BodySet'
    BY <2>3, WithBodyType, ExchangeAssumption DEF SetBody, Written, default200Status
  <2>4. ASSUME NEW s \in Statuses, NEW v \in Connections, NEW b \in Bodies, WriteAt(s, v, b)
        PROVE  w' \in Written /\ BodySet'
    <3> DEFINE x == [w EXCEPT !.status = s, !.conn = IF v = "none" THEN @ ELSE v]
    <3> DEFINE u == IF v = "none" THEN w.conn ELSE v
    <3>0. u \in Connections /\ s # 0
      BY <2>0, ExchangeAssumption DEF Written
    <3>a. x = [w EXCEPT !.status = s, !.conn = u]
      BY <2>0 DEF Written
    <3>1. x \in Written /\ x.status = s /\ x.body = w.body
      <4> HIDE DEF u, x
      <4> QED BY <2>0, <3>0, <3>a DEF Written
    <3>2. w' = WithBody(x, b) /\ (late' <=> late \/ w.body # "none")
      BY <2>4 DEF WriteAt
    <3> HIDE DEF x
    <3>3. default200Status(x.status) = s
      BY <3>0, <3>1 DEF default200Status
    <3>4. w' \in Written /\ w'.status = s
          /\ (w'.body # "none" => w.body # "none" \/ bodyAllowedForStatus(s))
      <4> DEFINE y == WithBody(x, b)
      <4>1. y \in Written /\ y.status = default200Status(x.status)
            /\ (y.body # "none" =>
                  x.body # "none" \/ bodyAllowedForStatus(default200Status(x.status)))
        <5> HIDE DEF Inv, TypeOK, BodySet, u
        <5> QED BY <3>1, WithBodyType
      <4> HIDE DEF y
      <4>2. w' = y
        BY <3>2 DEF y
      <4> QED BY <3>1, <3>3, <4>1, <4>2
    <3> QED BY <3>0, <3>2, <3>4
  <2>5. CASE Write
    <3>1. w' = [w EXCEPT !.raw = TRUE] /\ late' = late
      BY <2>5 DEF Write
    <3>2. w' \in Written
      BY <2>0, <3>1 DEF Written
    <3> QED BY <2>0, <3>1, <3>2 DEF Written
  <2>6. CASE Flush
    BY <2>6 DEF Flush
  <2> QED BY <2>1, <2>2, <2>3, <2>4, <2>5, <2>6
<1>3. TypeOK'
  BY <1>1, <1>2 DEF Handling, Inv, TypeOK
<1>4. BodyThere'
  BY <1>1 DEF Handling, Inv, BodyThere
<1> QED BY <1>1, <1>2, <1>3, <1>4, HandlingKeeps

LEMMA BodyCallsKeep ==
    ASSUME Inv, NEW o \in Requests,
           WithContext(o) \/ GetBody(o) \/ SetRequestBody(o) \/ RequestConfig(o)
    PROVE  Inv'
<1>1. Handling /\ UNCHANGED <<w, late, kept>> /\ body.w[o] \in {"nil", "set"}
  BY DEF WithContext, GetBody, SetRequestBody, RequestConfig, Inv, TypeOK, BodyState
<1>2. body \in BodyState /\ reader \in Requests \cup {"nobody", "handler", "older"}
  BY DEF Inv, TypeOK
<1>3. body' \in BodyState /\ reader' \in Requests \cup {"nobody", "handler", "older"}
      /\ BodyThere'
  <2> USE <1>1, <1>2 DEF Handling, Inv, BodyThere, BodyState, Requests, Decodable
  <2>1. CASE WithContext(o)
    BY <2>1 DEF WithContext
  <2>2. CASE GetBody(o)
    BY <2>2 DEF GetBody
  <2>3. CASE SetRequestBody(o)
    BY <2>3 DEF SetRequestBody
  <2>4. CASE RequestConfig(o)
    BY <2>4 DEF RequestConfig, Kept
  <2> QED BY <2>1, <2>2, <2>3, <2>4
<1>4. TypeOK' /\ BodySet'
  BY <1>1, <1>3 DEF Handling, Inv, TypeOK, BodySet
<1> QED BY <1>1, <1>3, <1>4, HandlingKeeps

-----------------------------------------------------------------------------
(* Its return, and what becomes of the connection. *)

LEMMA EndKeeps ==
    ASSUME Inv, Leave \/ Hijack \/ Panic \/ ReturnInvalid \/ SwitchKeepAlives
    PROVE  Inv'
<1>1. UNCHANGED <<reqVars, w, late, kept, got>> /\ keepAlives' \in BOOLEAN
      /\ (pc' = pc \/ pc' \in {"closed", "hijacked"})
  BY DEF Leave, Hijack, Panic, ReturnInvalid, SwitchKeepAlives, Inv, TypeOK
<1> QED
  BY <1>1 DEF reqVars, Inv, TypeOK, AtHandle, AtCheck, Said, BodySet, BodyThere,
     IsRequest, CloseKept, BodyWhereAllowed

LEMMA ReplySays ==
    ASSUME TypeOK, ReturnReply
    PROVE  /\ got' \in [what : {"reply"}, status : Statuses, conn : Connections, body : Bodies]
           /\ got'.status = default200Status(w.status) /\ got'.body = w.body
           /\ Said'
           /\ wantsClose(line) \/ ~Proto11(line) => got'.conn = "close"
<1>1. default200Status(w.status) \in Statuses
  BY ExchangeAssumption DEF TypeOK, Written, default200Status
<1>2. ReplyConnection(keepAlives) \in Connections
  BY ExchangeAssumption DEF TypeOK, Written, ReplyConnection
<1>3. got' = [what |-> "reply", status |-> default200Status(w.status),
              conn |-> ReplyConnection(keepAlives), body |-> w.body]
      /\ line' = line /\ w' = w
  BY DEF ReturnReply, reqVars
<1>4. Said'
  BY <1>3 DEF Said, ReplyConnection, bodyAllowedForStatus
<1> QED BY <1>1, <1>2, <1>3, <1>4 DEF TypeOK, Written, ReplyConnection

LEMMA ReturnKeeps ==
    ASSUME Inv, ReturnRaw \/ ReturnReply
    PROVE  Inv'
<1>1. CASE ReturnRaw
  <2>1. UNCHANGED <<reqVars, w, late, kept, got, keepAlives>> /\ pc' = "check" /\ w.raw
        /\ pc = "handle" /\ IsRequest /\ got = Nothing
    BY <1>1 DEF ReturnRaw, Inv, AtHandle
  <2>2. IsRequest'
    BY <2>1 DEF IsRequest, reqVars
  <2>3. TypeOK' /\ BodySet' /\ BodyThere' /\ CloseKept' /\ BodyWhereAllowed'
    BY <2>1 DEF reqVars, Inv, TypeOK, BodySet, BodyThere, CloseKept, BodyWhereAllowed
  <2>4. AtHandle' /\ AtCheck'
    BY <2>1, <2>2 DEF AtHandle, AtCheck
  <2> QED BY <2>3, <2>4 DEF Inv
<1>2. CASE ReturnReply
  <2>1. UNCHANGED <<reqVars, w, late, keepAlives>> /\ pc' = "check" /\ ~w.raw /\ ~kept'
        /\ pc = "handle" /\ kept' \in BOOLEAN
    BY <1>2 DEF ReturnReply
  <2>2. TypeOK'
    BY <1>2, <2>1, ReplySays DEF Inv, TypeOK, reqVars
  <2>3. IsRequest'
    BY <2>1 DEF Inv, AtHandle, IsRequest, reqVars
  <2>4. AtHandle' /\ AtCheck' /\ BodySet' /\ BodyThere'
    BY <1>2, <2>1, <2>3, ReplySays DEF Inv, AtHandle, AtCheck, BodySet, BodyThere, reqVars
  <2>5. CloseKept'
    BY <1>2, <2>1, ReplySays DEF Inv, CloseKept, ShouldClose, reqVars
  <2>6. BodyWhereAllowed'
    BY <1>2, <2>1, ReplySays DEF Inv, BodySet, BodyWhereAllowed, default200Status
  <2> QED BY <2>2, <2>4, <2>5, <2>6 DEF Inv
<1> QED BY <1>1, <1>2

LEMMA CheckKeeps == ASSUME Inv, Check PROVE Inv'
BY DEF Check, ClosesAfter, reqVars, Inv, TypeOK, AtHandle, AtCheck, BodySet, BodyThere,
   IsRequest, Nothing, CloseKept, ShouldClose, BodyWhereAllowed

LEMMA InvInductive == Spec => []Inv
<1>1. Init => Inv
  <2> SUFFICES ASSUME Init PROVE Inv
    OBVIOUS
  <2>1. TypeOK
    BY Types DEF Init, TypeOK, Nothing
  <2>2. ~isRequest(line)
    BY Telling, Types DEF Init, NotRequest
  <2> QED
    BY <2>1, <2>2 DEF Init, Inv, Nothing, Clean, NotRequest, AtHandle, AtCheck, BodySet,
       BodyThere, IsRequest, CloseKept, ShouldClose, BodyWhereAllowed
<1>2. Inv /\ [Next]_vars => Inv'
  <2> SUFFICES ASSUME Inv, [Next]_vars PROVE Inv'
    OBVIOUS
  <2>1. CASE UNCHANGED vars
    BY <2>1 DEF vars, reqVars, Inv, TypeOK, AtHandle, AtCheck, Said, BodySet, BodyThere,
       IsRequest, CloseKept, BodyWhereAllowed
  <2> QED
    BY <2>1, ReadKeeps, ReplyCallsKeep, BodyCallsKeep, EndKeeps, ReturnKeeps, CheckKeeps
    DEF Next
<1> QED BY <1>1, <1>2, PTL DEF Spec

-----------------------------------------------------------------------------
(* The theorems. *)

\* What the connection, the handler and the device hold keeps its type.
THEOREM ExchangeTypes == Spec => []TypeOK
<1>1. Inv => TypeOK
  BY DEF Inv
<1> QED BY <1>1, InvInductive, PTL

\* The end of the connection that a device asks for is announced and kept,
\* whatever the handler says.
THEOREM CloseIsKept == Spec => []CloseKept
<1>1. Inv => CloseKept
  BY DEF Inv
<1> QED BY <1>1, InvInductive, PTL

\* Device and server read the Connection header of a reply alike, but for the
\* cases EndsAgree names.
THEOREM TheEndsAgree == Spec => EndsAgree
<1>1. Inv => AtCheck
  BY DEF Inv
<1>2. AtCheck /\ [Next]_vars =>
        [ Check /\ got.what = "reply" /\ ~ShouldClose(got.conn) /\ pc' = "closed" =>
            \/ ~keepAlives
            \/ got.conn = "none" /\ ~bodyAllowedForStatus(got.status) /\ line.method # "HEAD"
            \/ got.conn = w.conn /\ w.conn \notin {"none", "keep-alive"} ]_vars
  BY DEF AtCheck, Said, Nothing, Check, ClosesAfter, ShouldClose
<1> QED BY <1>1, <1>2, InvInductive, PTL DEF Spec, EndsAgree

\* No status that forbids a body is sent with one, unless it was set last.
THEOREM BodiesAreAllowed == Spec => []BodyWhereAllowed
<1>1. Inv => BodyWhereAllowed
  BY DEF Inv
<1> QED BY <1>1, InvInductive, PTL

\* Sending a request on does not use up its body for itself: who finds none is
\* another Request that shares the buffer, or sends what the handler has read.
THEOREM BodyIsSentOn == Spec => []BodySentOn
<1>1. Inv => BodySentOn
  BY DEF Inv, TypeOK, BodyThere, BodySentOn, SendsNull
<1> QED BY <1>1, InvInductive, PTL

=============================================================================
