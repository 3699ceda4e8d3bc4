------------------------------ MODULE Exchange ------------------------------
(***************************************************************************)
(* What one connection reads and answers: the lines that come in, told to  *)
(* be requests or answers and decoded (src/func.go), the calls a handler    *)
(* makes of its ResponseWriter and its Request, in any order, and the reply *)
(* made of them (src/responseWrite.go, src/dataWriter.go), for as many      *)
(* lines as come.  SetKeepAlivesEnabled is called at any time.  Who else    *)
(* writes to the connection, and how it ends, is the subject of Conn.       *)
(***************************************************************************)
EXTENDS Naturals

CONSTANTS
    Methods, Protos,    \* of requests
    Connections,        \* the values a Connection header may have
    Statuses            \* those a handler may set

ASSUME ExchangeAssumption ==
    /\ "GET" \in Methods /\ "IOT/1.1" \in Protos
    /\ {"none", "close", "keep-alive"} \subseteq Connections
    /\ 200 \in Statuses /\ Statuses \subseteq Nat \ {0}

VARIABLES
    pc,         \* where serve is
    line,       \* the last line it read
    body,       \* Request.bodyr, and bodyw of the Request and of a copy of it
    reader,     \* history: who has emptied bodyr: the handler or a RequestConfig
    w,          \* the responseWrite: what the handler has set
    late,       \* history: it set the status after the body
    kept,       \* bytes of Write are in bufw
    got,        \* what the device got for the line
    keepAlives  \* Server.doKeepAlives()

reqVars == <<line, body, reader>>
vars    == <<pc, reqVars, w, late, kept, got, keepAlives>>

\* A line, by what it holds: a request, with the old name of its host, an answer,
\* one without a nonce, one that repeats a request, or none of these.
NotRequest(k) == [kind |-> k, method |-> "GET", proto |-> "IOT/1.1", conn |-> "none"]
Line ==
    [kind : {"request", "old"}, method : Methods, proto : Protos, conn : Connections]
      \cup {NotRequest(k) : k \in {"answer", "blank", "echo", "noise"}}
\* "invalid" cannot be encoded.
Bodies  == {"none", "text", "invalid"}
Written == [status : Statuses \cup {0}, conn : Connections, body : Bodies, raw : BOOLEAN]
Nothing == [what |-> "nothing", status |-> 0, conn |-> "none", body |-> "none"]
\* The Request a handler is given, and one that WithContext made of it.
Requests  == {"given", "copy"}
BodyState == [r : {"there", "spent", "none"},
              w : [Requests -> {"nil", "set", "absent"}]]
Unread(m) == [r |-> IF m = "POST" THEN "there" ELSE "none",
              w |-> [o \in Requests |-> IF o = "given" THEN "nil" ELSE "absent"]]
Clean   == [status |-> 0, conn |-> "none", body |-> "none", raw |-> FALSE]

TypeOK ==
    /\ pc \in {"read", "handle", "check", "closed", "hijacked"}
    /\ line \in Line
    /\ body \in BodyState
    /\ reader \in Requests \cup {"nobody", "handler", "older"}
    /\ w \in Written
    /\ late \in BOOLEAN
    /\ kept \in BOOLEAN
    /\ got \in [what : {"nothing", "reply", "400", "taken"},
                status : Statuses \cup {0, 400}, conn : Connections, body : Bodies]
    /\ got.what = "reply" => got.status \in Statuses
    /\ keepAlives \in BOOLEAN

-----------------------------------------------------------------------------
(* Telling lines apart.  The names are looked for anywhere in the line: the *)
(* body of an answer that repeats a request ("echo") has them all.          *)

Names(l) ==
    CASE l.kind = "request" -> {"nonce", "proto", "method", "path", "host"}
      [] l.kind = "old"     -> {"nonce", "proto", "method", "path", "home"}
      [] l.kind \in {"answer", "blank"} -> {"nonce", "status"}
      [] l.kind = "echo"    -> {"nonce", "status", "proto", "method", "path", "host"}
      [] OTHER              -> {}

reqFeature1  == {"nonce", "proto", "method", "path", "home"}
reqFeature2  == {"nonce", "proto", "method", "path", "host"}
respFeature1 == {"nonce", "status"}

isRequest(l)  == reqFeature1 \subseteq Names(l) \/ reqFeature2 \subseteq Names(l)
isResponse(l) == respFeature1 \subseteq Names(l)

validMethod(m) == m \in {"GET", "POST", "HEAD", "PUT", "DELETE", "OPTIONS"}

\* ParseIOTVersion, and the check of readRequest of conn.go; an echo has no
\* method where a request has it.
Decodes(l) ==
    /\ l.kind \in {"request", "old"}
    /\ validMethod(l.method)
    /\ l.proto \in {"IOT/1.0", "IOT/1.1"}

\* ProtoAtLeast(1, 1)
Proto11(l) == l.proto = "IOT/1.1"

bodyAllowedForStatus(s) == ~(s \in 100 .. 199 \/ s = 204 \/ s = 304)

\* hasToken finds the token in a list, and whatever its case ("list").
wantsClose(l) == l.conn \in {"close", "list"}

\* shouldClose, of a reply, whose protocol is taken for 1.1.
ShouldClose(conn) == conn = "close"

-----------------------------------------------------------------------------

Init ==
    /\ pc = "read"
    /\ line = NotRequest("noise")
    /\ body = Unread("GET")
    /\ reader = "nobody"
    /\ w = Clean
    /\ late = FALSE
    /\ kept = FALSE
    /\ got = Nothing
    /\ keepAlives \in BOOLEAN

\* Nothing is known yet of a request, its body and its reply.
Fresh(b) ==
    /\ body' = b
    /\ reader' = "nobody"
    /\ w' = Clean
    /\ late' = FALSE

\* readResponse refuses the empty nonce.
Answers(l) == isResponse(l) /\ l.kind # "blank"

\* A line that is not a request is for a Launch: if one waits, it has to be an
\* answer, and otherwise it is nothing.
ReadOther(l, launching) ==
    /\ pc = "read"
    /\ ~isRequest(l)
    /\ line' = l
    /\ pc' = IF launching /\ ~Answers(l) THEN "closed" ELSE "read"
    /\ got' = [Nothing EXCEPT !.what = IF launching /\ Answers(l) THEN "taken" ELSE @]
    /\ Fresh(Unread("GET"))
    /\ UNCHANGED <<kept, keepAlives>>

\* A request that cannot be decoded: 400, and the end.
ReadBad(l) ==
    /\ pc = "read"
    /\ isRequest(l) /\ ~Decodes(l)
    /\ line' = l
    /\ pc' = "closed"
    /\ got' = [what |-> "400", status |-> 400, conn |-> "close", body |-> "text"]
    /\ kept' = FALSE
    /\ Fresh(Unread("GET"))
    /\ UNCHANGED keepAlives

\* A request; only that of a POST keeps its body.
ReadRequest(l) ==
    /\ pc = "read"
    /\ isRequest(l) /\ Decodes(l)
    /\ line' = l
    /\ pc' = "handle"
    /\ Fresh(Unread(l.method))
    /\ got' = Nothing
    /\ UNCHANGED <<kept, keepAlives>>

\* The device leaves, IdleTimeout passes, or the server closes idle connections.
Leave ==
    /\ pc = "read"
    /\ pc' = "closed"
    /\ UNCHANGED <<reqVars, w, late, kept, got, keepAlives>>

-----------------------------------------------------------------------------
(* The handler.                                                            *)

Handling == pc = "handle" /\ UNCHANGED <<pc, line, got, keepAlives>>

Status(s) ==
    /\ Handling
    /\ w' = [w EXCEPT !.status = s]
    /\ late' = (late \/ w.body # "none")
    /\ UNCHANGED <<body, reader, kept>>

SetHeader(v) ==
    /\ Handling
    /\ w' = [w EXCEPT !.conn = v]
    /\ UNCHANGED <<body, reader, late, kept>>

\* Seeded fault: the reply has the status that was set, or none.
StatusAsSet(s) == s

default200Status(s) == IF s = 0 THEN 200 ELSE s

\* Seeded fault: a body is accepted whatever the status.
WithBodyAlways(v, b) == [v EXCEPT !.status = default200Status(@), !.body = b]

\* SetBody: the status is 200 unless set, and may not allow a body.
WithBody(v, b) ==
    LET s == default200Status(v.status) IN
    [v EXCEPT !.status = s, !.body = IF bodyAllowedForStatus(s) THEN b ELSE @]

SetBody(b) ==
    /\ Handling
    /\ w' = WithBody(w, b)
    /\ UNCHANGED <<body, reader, late, kept>>

\* Response.WriteAt, of an answer from elsewhere; and Error.
WriteAt(s, v, b) ==
    /\ Handling
    /\ w' = WithBody([w EXCEPT !.status = s, !.conn = IF v = "none" THEN @ ELSE v], b)
    /\ late' = (late \/ w.body # "none")
    /\ UNCHANGED <<body, reader, kept>>

Write ==
    /\ Handling
    /\ w' = [w EXCEPT !.raw = TRUE]
    /\ kept' = TRUE
    /\ UNCHANGED <<body, reader, late>>

Flush ==
    /\ Handling
    /\ kept' = FALSE
    /\ UNCHANGED <<body, reader, w, late>>

\* WithContext: the copy has what the other has, and shares its buffer.  (Of
\* several copies the last is told apart, and who read before it is "older".)
WithContext(o) ==
    /\ Handling
    /\ body.w[o] # "absent"
    /\ body' = [body EXCEPT !.w["copy"] = body.w[o]]
    /\ reader' = IF reader = "copy" THEN "older" ELSE reader
    /\ UNCHANGED <<w, late, kept>>

\* GetBody: the body that was set, or the device's, once: decoding empties the
\* buffer, whether the value fits or not.
Decodable(o) == body.w[o] = "nil" /\ body.r = "there"

GetBody(o) ==
    /\ Handling
    /\ body.w[o] # "absent"
    /\ body' = [body EXCEPT !.r = IF Decodable(o) THEN "spent" ELSE @]
    /\ reader' = IF Decodable(o) THEN "handler" ELSE reader
    /\ UNCHANGED <<w, late, kept>>

SetRequestBody(o) ==
    /\ Handling
    /\ body.w[o] # "absent"
    /\ body' = [body EXCEPT !.w[o] = "set"]
    /\ UNCHANGED <<reader, w, late, kept>>

\* Seeded fault: the body is read for the line and not kept.
KeptForgotten(o) == body.w[o]

\* RequestConfig, to launch the request at another device: a body nobody set is
\* read with GetBody, and kept.  An error of GetBody is dropped.
Kept(o) == IF Decodable(o) THEN "set" ELSE body.w[o]

RequestConfig(o) ==
    /\ Handling
    /\ body.w[o] # "absent"
    /\ body' = [body EXCEPT !.r = IF Decodable(o) THEN "spent" ELSE @, !.w[o] = Kept(o)]
    /\ reader' = IF Decodable(o) THEN o ELSE reader
    /\ UNCHANGED <<w, late, kept>>

Hijack ==
    /\ pc = "handle"
    /\ pc' = "hijacked"
    /\ UNCHANGED <<reqVars, w, late, kept, got, keepAlives>>

Panic ==
    /\ pc = "handle"
    /\ pc' = "closed"
    /\ UNCHANGED <<reqVars, w, late, kept, got, keepAlives>>

-----------------------------------------------------------------------------
(* The reply.                                                              *)

\* Seeded faults: what the handler set comes first; HEAD is not a case of its own.
ReplyConnectionOwn(on) ==
    LET s == default200Status(w.status) IN
    IF w.conn = "none" /\ (~Proto11(line) \/ wantsClose(line) \/ ~on) THEN "close"
    ELSE IF (line.method = "HEAD" \/ bodyAllowedForStatus(s)) /\ w.conn = "none"
         THEN "keep-alive" ELSE w.conn
ReplyConnectionGet(on) ==
    LET s == default200Status(w.status) IN
    IF ~Proto11(line) \/ wantsClose(line) \/ ~on THEN "close"
    ELSE IF bodyAllowedForStatus(s) /\ w.conn = "none" THEN "keep-alive" ELSE w.conn

\* generateResponse: the Connection header ...
ReplyConnection(on) ==
    LET s == default200Status(w.status) IN
    IF ~Proto11(line) \/ wantsClose(line) \/ ~on THEN "close"
    ELSE IF (line.method = "HEAD" \/ bodyAllowedForStatus(s)) /\ w.conn = "none"
         THEN "keep-alive" ELSE w.conn

\* ... and closeAfterReply.
ClosesAfter(g) == g.what = "reply" /\ g.conn # "keep-alive"

\* done: a reply, unless the handler has written by itself.  What it wrote
\* stays in the buffer until something else is flushed.
ReturnRaw ==
    /\ pc = "handle"
    /\ w.raw
    /\ pc' = "check"
    /\ UNCHANGED <<reqVars, w, late, kept, got, keepAlives>>

\* The body cannot be encoded: no reply, and the connection ends.
ReturnInvalid ==
    /\ pc = "handle"
    /\ ~w.raw /\ w.body = "invalid"
    /\ pc' = "closed"
    /\ UNCHANGED <<reqVars, w, late, kept, got, keepAlives>>

ReturnReply ==
    /\ pc = "handle"
    /\ ~w.raw /\ w.body # "invalid"
    /\ pc' = "check"
    /\ got' = [what |-> "reply", status |-> default200Status(w.status),
               conn |-> ReplyConnection(keepAlives), body |-> w.body]
    /\ kept' = FALSE
    /\ UNCHANGED <<reqVars, w, late, keepAlives>>

\* Is the connection used again?
Check ==
    /\ pc = "check"
    /\ pc' = IF ClosesAfter(got) \/ ~keepAlives THEN "closed" ELSE "read"
    /\ UNCHANGED <<reqVars, w, late, kept, got, keepAlives>>

\* SetKeepAlivesEnabled, or a Shutdown begins or ends.
SwitchKeepAlives ==
    /\ pc \notin {"closed", "hijacked"}
    /\ keepAlives' = ~keepAlives
    /\ UNCHANGED <<pc, reqVars, w, late, kept, got>>

Next ==
    \/ \E l \in Line, launching \in BOOLEAN : ReadOther(l, launching)
    \/ \E l \in Line : ReadBad(l) \/ ReadRequest(l)
    \/ \E s \in Statuses : Status(s)
    \/ \E v \in Connections : SetHeader(v)
    \/ \E b \in Bodies : SetBody(b)
    \/ \E s \in Statuses, v \in Connections, b \in Bodies : WriteAt(s, v, b)
    \/ Write \/ Flush
    \/ \E o \in Requests : WithContext(o) \/ GetBody(o) \/ SetRequestBody(o)
                            \/ RequestConfig(o)
    \/ Hijack \/ Panic
    \/ ReturnRaw \/ ReturnInvalid \/ ReturnReply
    \/ Check \/ Leave \/ SwitchKeepAlives

Spec == Init /\ [][Next]_vars

-----------------------------------------------------------------------------
(* Properties.                                                             *)

\* A device that asks for the end of the connection is told so, and nothing is
\* read from one that was told.
CloseKept ==
    /\ got.what = "reply" /\ (wantsClose(line) \/ ~Proto11(line)) => ShouldClose(got.conn)
    /\ pc = "read" => ~ShouldClose(got.conn)

\* The two ends read a reply differently only where the code lets them: it has
\* no Connection header for want of a body, it has the handler's own, or
\* keep-alives were switched off after it was made.
EndsAgree ==
    [][ Check /\ got.what = "reply" /\ ~ShouldClose(got.conn) /\ pc' = "closed" =>
            \/ ~keepAlives
            \/ got.conn = "none" /\ ~bodyAllowedForStatus(got.status) /\ line.method # "HEAD"
            \/ got.conn = w.conn /\ w.conn \notin {"none", "keep-alive"} ]_vars

\* A reply has a body only if its status allows one, unless the handler set a
\* status that does not after the body.
BodyWhereAllowed ==
    got.what = "reply" /\ got.body # "none" => bodyAllowedForStatus(got.status) \/ late

\* A request that is sent on takes the body the device sent with it, however
\* often it is sent, unless the handler has read it with GetBody, or a Request
\* that shares the buffer, of which WithContext made this one or the other way
\* round, was sent on before (request.go:243, 340).
SendsNull(o) == body.w[o] = "nil" /\ body.r # "there"
BodySentOn ==
    pc = "handle" /\ line.method = "POST" =>
        \A o \in Requests : SendsNull(o) => reader \notin {"nobody", o}

=============================================================================
