----------------------------- MODULE PagesProofs ----------------------------
(***************************************************************************)
(* What Pages promises of requests that do not overlap, for any number of  *)
(* requests, pages and modification times.                                 *)
(***************************************************************************)
EXTENDS Pages, TLAPS

Reading == {"compare", "drop", "stamp", "test", "parse", "store", "execute"}
Looked  == Reading \cup {"open"}

\* A request that overlaps no other has the handler's fields to itself, and
\* has not been answered.
OneAtATime == \A r, s \in Requests : pc[r] # "idle" /\ pc[s] # "idle" => r = s
Unfinished == \A r \in Requests : pc[r] # "idle" => reply[r] = Unanswered

\* The path is chosen once, and the request opens that file.
PathSet ==
    \A r \in Requests :
        /\ pc[r] = "name" => pagePath = NoPath
        /\ pc[r] \in Looked => pagePath \in Paths
        /\ pc[r] \in Reading => page[r] = pagePath
        /\ reply[r].how # "none" => page[r] \in Paths

\* What it opened, and the time it was told, are not older than the request.
Opened ==
    \A r \in Requests :
        /\ \A p \in Paths : since[r][p] <= now[p]
        /\ pc[r] \in {"path", "name", "open"} => mtime[r] = 0
        /\ pc[r] \in Reading =>
            /\ since[r][page[r]] <= read[r]
            /\ read[r] <= now[page[r]]
            /\ mtime[r] # 0 => since[r][page[r]] <= mtime[r] /\ mtime[r] <= read[r]

\* The recorded time is of the handler's page, and becomes that of the request.
Recorded ==
    /\ modeTime # 0 => pagePath \in Paths /\ modeTime <= now[pagePath]
    /\ \A r \in Requests :
        /\ pc[r] \in Reading => modeTime <= read[r]
        /\ pc[r] \in {"test", "parse", "store", "execute"} /\ mtime[r] # 0
               => modeTime = mtime[r]

\* What is compiled is not older than the recorded time.
Cached ==
    exec # NoPage =>
        /\ exec.path \in Paths /\ exec.time <= now[exec.path]
        /\ modeTime # 0 => exec.path = pagePath /\ modeTime <= exec.time

\* What is still compiled when a request comes to use it may be used for it,
\* and there is nothing to use only if the file has not been a page throughout, or was
\* not read as a whole.
Kept ==
    \A r \in Requests :
        /\ pc[r] = "stamp" => mtime[r] # 0 /\ (exec # NoPage => modeTime = mtime[r])
        /\ pc[r] = "test" /\ exec # NoPage => mtime[r] # 0
        /\ pc[r] \in {"parse", "store"} => exec = NoPage
        /\ pc[r] = "execute" /\ exec # NoPage =>
              exec.path = page[r] /\ since[r][page[r]] <= exec.time
        /\ pc[r] = "execute" /\ exec = NoPage => WasNoPage(r) \/ ~clean[r]

Inv ==
    /\ TypeOK /\ OneAtATime /\ Unfinished /\ PathSet /\ Opened /\ Recorded
    /\ Cached /\ Kept /\ Fresh /\ ErrorsNotKept

-----------------------------------------------------------------------------
(* Types. *)

\* TypeOK does not hold by itself: who opens a file must have a path for it.
Named ==
    \A r \in Requests :
        /\ pc[r] \in Looked => pagePath \in Paths
        /\ pc[r] \in Reading => page[r] \in Paths
Typed == TypeOK /\ Named

LEMMA TypedInitially == Init => Typed
BY PagesAssumption DEF Init, Typed, Named, Looked, Reading, TypeOK, Times,
   Compiled, Pcs,
   Answers, Unanswered

\* What a reading may give: something of the time the file was opened with or of now,
\* and what the file held then if it is one content.
LEMMA WhatIsRead ==
    ASSUME NEW r \in Requests, NEW c \in Readings(r)
    PROVE  /\ c.time \in {read[r], now[page[r]]}
           /\ c.well => kind[page[r]][c.time] = c.kind
           /\ c.well \in BOOLEAN
<1>1. CASE \E t \in ContentTimes(r) :
             c = [kind |-> kind[page[r]][t], time |-> t, well |-> TRUE]
  <2>1. PICK t \in ContentTimes(r) :
           c = [kind |-> kind[page[r]][t], time |-> t, well |-> TRUE]
    BY <1>1
  <2>2. t \in {read[r], now[page[r]]}
    BY DEF ContentTimes
  <2>3. c.time = t /\ c.kind = kind[page[r]][t] /\ c.well = TRUE
    BY <2>1
  <2> QED BY <2>2, <2>3
<1>2. CASE c \in [kind : {"page", "foreign", "broken"}, time : {read[r]}, well : {FALSE}]
  <2>1. c.time = read[r] /\ c.well = FALSE
    BY <1>2
  <2> QED BY <2>1
<1> QED BY <1>1, <1>2 DEF Readings

LEMMA TypedKept == Typed /\ [Next]_vars => Typed'
<1> SUFFICES ASSUME Typed, [Next]_vars PROVE Typed'
  OBVIOUS
<1> USE PagesAssumption DEF Typed, Named, Looked, Reading, TypeOK, Times, Compiled,
      Pcs, Answers, Unanswered
<1>1. ASSUME NEW r \in Requests, Begin(r) PROVE Typed'
  BY <1>1 DEF Begin, Go, shared, files
<1>2. ASSUME NEW r \in Requests, Serve(r) PROVE Typed'
  <2>1. CASE LookForPath(r) \/ Compare(r) \/ Test(r)
    BY <2>1 DEF LookForPath, Compare, Test, Go, shared, files, local
  <2>2. CASE NamePage(r)
    BY <2>2 DEF NamePage, Go, files, local
  <2>3. CASE OpenFile(r)
    <3>1. pagePath \in Paths /\ now[pagePath] \in 0 .. MaxTime
      BY <2>3 DEF OpenFile, Go
    <3>2. page' \in [Requests -> Paths \cup {NoPath}] /\ read' \in [Requests -> 0 .. MaxTime]
      BY <2>3, <3>1 DEF OpenFile, Go
    <3>3. mtime' \in [Requests -> 0 .. MaxTime]
      BY <2>3, <3>1 DEF OpenFile, Go
    <3> QED BY <2>3, <3>1, <3>2, <3>3 DEF OpenFile, Go, shared, files
  <2>4. CASE OpenFail(r)
    <3>1. pagePath \in Paths /\ page' = [page EXCEPT ![r] = pagePath]
      BY <2>4 DEF OpenFail
    <3>2. PICK well \in BOOLEAN : Refuse(r, well)
      BY <2>4 DEF OpenFail
    <3> QED BY <3>1, <3>2 DEF Refuse, Answer, shared, files
  <2>5. CASE Drop(r)
    BY <2>5 DEF Drop, Go, files, local
  <2>9. CASE Stamp(r)
    BY <2>9 DEF Stamp, Go, files, local
  <2>6. CASE Store(r)
    <3>1. [path |-> page[r], time |-> read[r]] \in [path : Paths, time : 0 .. MaxTime]
      BY <2>6 DEF Store, Go
    <3> QED BY <2>6, <3>1 DEF Store, Go, files, local
  <2>7. CASE ParseFail(r) \/ ExecuteNothing(r)
    <3>1. UNCHANGED page /\ \E well \in BOOLEAN : Refuse(r, well)
      <4>1. CASE ParseFail(r)
        BY <4>1, WhatIsRead DEF ParseFail
      <4>2. CASE ExecuteNothing(r)
        <5>1. clean[r] \in BOOLEAN
          OBVIOUS
        <5> QED BY <4>2, <5>1 DEF ExecuteNothing
      <4> QED BY <2>7, <4>1, <4>2
    <3> QED BY <3>1 DEF Refuse, Answer, shared, files
  <2>10. CASE Execute(r)
    <3>1. PICK how \in {"failed", "body", "own", "raw"} : Answer(r, how, exec)
      BY <2>10 DEF Execute
    <3>2. [how |-> how, from |-> exec]
              \in [how : Answers, from : [path : Paths, time : 0 .. MaxTime] \cup {NoPage}]
      BY <2>10 DEF Execute
    <3>3. reply' \in [Requests -> [how : Answers,
                          from : [path : Paths, time : 0 .. MaxTime] \cup {NoPage}]]
      BY <3>1, <3>2 DEF Answer
    <3> QED BY <2>10, <3>1, <3>3 DEF Execute, Answer, shared, files
  <2>8. CASE ParsePage(r)
    <3>1. PICK c \in Readings(r) :
             /\ read' = [read EXCEPT ![r] = c.time]
             /\ clean' = [clean EXCEPT ![r] = c.well]
      BY <2>8 DEF ParsePage
    <3>2. c.time \in 0 .. MaxTime /\ c.well \in BOOLEAN
      <4>1. c.time \in {read[r], now[page[r]]} /\ page[r] \in Paths
        BY <2>8, WhatIsRead DEF ParsePage, Go
      <4>2. c.well \in BOOLEAN
        BY WhatIsRead
      <4> QED BY <4>1, <4>2
    <3>3. read' \in [Requests -> 0 .. MaxTime] /\ clean' \in [Requests -> BOOLEAN]
      BY <3>1, <3>2
    <3> QED BY <2>8, <3>3 DEF ParsePage, Go, shared, files
  <2>11. CASE ParseForeign(r)
    <3>1. PICK c \in Readings(r) : clean' = [clean EXCEPT ![r] = c.well]
      BY <2>11 DEF ParseForeign
    <3>2. c.well \in BOOLEAN
      BY WhatIsRead
    <3> QED BY <2>11, <3>1, <3>2 DEF ParseForeign, Go, shared, files
  <2> QED BY <1>2, <2>1, <2>2, <2>3, <2>4, <2>5, <2>6, <2>7, <2>8, <2>9,
       <2>10, <2>11 DEF Serve
<1>3. ASSUME NEW p \in Paths, NEW q \in Paths, ParseFile(p, q) PROVE Typed'
  BY <1>3 DEF ParseFile, files, local
<1>4. ASSUME NEW p \in Paths, Edit(p) PROVE Typed'
  BY <1>4 DEF Edit, shared, local
<1>5. CASE UNCHANGED vars
  BY <1>5 DEF vars, shared, files, local
<1> QED BY <1>1, <1>2, <1>3, <1>4, <1>5 DEF Next

LEMMA TypedInv == Inv => Typed
BY DEF Inv, Typed, Named, PathSet, Looked, Reading

\* A cause stays one while the files change.
LEMMA CauseKept ==
    ASSUME NEW r \in Requests, WasNoPage(r), page[r] \in Paths, page'[r] = page[r],
           since'[r] = since[r], TypeOK, TypeOK',
           \A p \in Paths : now[p] <= now'[p] /\ \A t \in 0 .. now[p] : kind'[p][t] = kind[p][t]
    PROVE  WasNoPage(r)'
<1>1. PICK t \in since[r][page[r]] .. now[page[r]] : kind[page[r]][t] # "page"
  BY DEF WasNoPage
<1>2. since[r][page[r]] \in Nat /\ now[page[r]] \in Nat /\ now'[page[r]] \in Nat
  BY DEF TypeOK, Times
<1>3. t \in 0 .. now[page[r]] /\ t \in since[r][page[r]] .. now'[page[r]]
  BY <1>1, <1>2
<1> QED BY <1>1, <1>3 DEF WasNoPage

\* And so do the causes of the answers that a step does not touch.
LEMMA CausesKept ==
    ASSUME Inv, TypeOK', reply' = reply, UNCHANGED <<since, now, kind>>,
           \A r \in Requests :
               pc[r] = "idle" => page'[r] = page[r] /\ clean'[r] = clean[r]
    PROVE  ErrorsNotKept'
<1> SUFFICES ASSUME NEW r \in Requests, reply[r].how = "refused"
             PROVE  WasNoPage(r)' \/ ~clean'[r]
  BY DEF ErrorsNotKept
<1>1. pc[r] = "idle" /\ (WasNoPage(r) \/ ~clean[r])
  BY DEF Inv, Unfinished, Unanswered, ErrorsNotKept
<1> QED BY <1>1 DEF WasNoPage

\* Refusing a request disturbs the cause of no other answer.
LEMMA RefusedKeeps ==
    ASSUME Inv, TypeOK', NEW r \in Requests, NEW well \in BOOLEAN, Refuse(r, well),
           \A s \in Requests \ {r} : page'[s] = page[s],
           WasNoPage(r)' \/ ~well
    PROVE  ErrorsNotKept'
<1> SUFFICES ASSUME NEW s \in Requests, reply'[s].how = "refused"
             PROVE  WasNoPage(s)' \/ ~clean'[s]
  BY DEF ErrorsNotKept
<1>1. CASE s = r
  <2>1. clean'[r] = well
    BY DEF Inv, TypeOK, Refuse
  <2> QED BY <1>1, <2>1
<1>2. CASE s # r
  <2>1. reply'[s] = reply[s] /\ clean'[s] = clean[s] /\ page'[s] = page[s]
    BY <1>2 DEF Inv, TypeOK, Refuse, Answer
  <2>2. WasNoPage(s) \/ ~clean[s]
    BY <2>1 DEF Inv, ErrorsNotKept
  <2> QED BY <2>1, <2>2 DEF WasNoPage, Refuse, files
<1> QED BY <1>1, <1>2


-----------------------------------------------------------------------------
(* Each step keeps the invariant. *)

LEMMA BeginKeeps ==
    ASSUME NEW r \in Requests, Inv, ~Overlap, Begin(r)
    PROVE  Inv'
<1>a. TypeOK' BY TypedKept, TypedInv DEF Typed, Next
<1>9. ErrorsNotKept'
  <2> SUFFICES ASSUME NEW s \in Requests, reply'[s].how = "refused"
               PROVE  WasNoPage(s)' \/ ~clean'[s]
    BY DEF ErrorsNotKept
  <2>1. reply'[r].how = "none"
    BY DEF Begin, Unanswered, Inv, TypeOK
  <2>2. UNCHANGED <<reply[s], since[s], page[s], clean[s], now, kind>>
    BY <2>1 DEF Begin, Inv, TypeOK, files
  <2>3. WasNoPage(s) \/ ~clean[s]
    BY <2>2 DEF Inv, ErrorsNotKept
  <2> QED BY <2>2, <2>3 DEF WasNoPage
<1> USE PagesAssumption DEF Inv, TypeOK, Compiled, Times, Pcs, Unanswered, Begin,
   Go, Quiet, shared, files, local
<1>1. OneAtATime'
  BY <1>a DEF OneAtATime
<1>2. Unfinished'
  BY <1>a DEF Unfinished
<1>3. PathSet'
  BY <1>a DEF OneAtATime, Unfinished, PathSet, Looked, Reading, Recorded
<1>4. Opened'
  BY <1>a DEF Opened, Reading, PathSet, Looked, OneAtATime
<1>5. Recorded'
  BY <1>a DEF OneAtATime, PathSet, Looked, Reading, Opened, Recorded, Kept,
     WasNoPage
<1>6. Cached'
  BY <1>a DEF OneAtATime, PathSet, Looked, Reading, Opened, Recorded, Cached,
     Kept, WasNoPage
<1>7. Kept'
  BY <1>a DEF OneAtATime, PathSet, Looked, Reading, Opened, Recorded, Cached,
     Kept, WasNoPage
<1>8. Fresh'
  BY <1>a DEF Unfinished, PathSet, Looked, Reading, Kept, WasNoPage, Fresh
<1> QED BY <1>a, <1>1, <1>2, <1>3, <1>4, <1>5, <1>6, <1>7, <1>8, <1>9 DEF Inv

LEMMA LookForPathKeeps ==
    ASSUME NEW r \in Requests, Inv, ~Overlap, LookForPath(r)
    PROVE  Inv'
<1>a. TypeOK' BY TypedKept, TypedInv DEF Typed, Next, Serve
<1>1. ErrorsNotKept'
  BY <1>a, CausesKept DEF Inv, TypeOK, LookForPath, Go, files, local, shared
<1> USE PagesAssumption DEF Inv, TypeOK, Compiled, Times, Pcs, Unanswered,
   LookForPath, Go, shared, files, local
<1>2. OneAtATime'
  BY <1>a DEF OneAtATime
<1>3. Unfinished'
  BY <1>a DEF Unfinished
<1>4. PathSet'
  BY <1>a DEF OneAtATime, Unfinished, PathSet, Looked, Reading, Recorded
<1>5. Opened'
  BY <1>a DEF Opened, Reading, PathSet, Looked, OneAtATime
<1>6. Recorded'
  BY <1>a DEF OneAtATime, PathSet, Looked, Reading, Opened, Recorded, Kept,
     WasNoPage
<1>7. Cached'
  BY <1>a DEF OneAtATime, PathSet, Looked, Reading, Opened, Recorded, Cached,
     Kept, WasNoPage
<1>8. Kept'
  BY <1>a DEF OneAtATime, PathSet, Looked, Reading, Opened, Recorded, Cached,
     Kept, WasNoPage
<1>9. Fresh'
  BY <1>a DEF Unfinished, PathSet, Looked, Reading, Kept, WasNoPage, Fresh
<1> QED BY <1>a, <1>1, <1>2, <1>3, <1>4, <1>5, <1>6, <1>7, <1>8, <1>9 DEF Inv

LEMMA NamePageKeeps ==
    ASSUME NEW r \in Requests, Inv, ~Overlap, NamePage(r)
    PROVE  Inv'
<1>a. TypeOK' BY TypedKept, TypedInv DEF Typed, Next, Serve
<1>1. ErrorsNotKept'
  BY <1>a, CausesKept DEF Inv, TypeOK, NamePage, Go, files, local
<1> USE PagesAssumption DEF Inv, TypeOK, Compiled, Times, Pcs, Unanswered,
   NamePage, Go, shared, files, local
<1>2. OneAtATime'
  BY <1>a DEF OneAtATime
<1>3. Unfinished'
  BY <1>a DEF Unfinished
<1>4. PathSet'
  BY <1>a DEF OneAtATime, Unfinished, PathSet, Looked, Reading, Recorded
<1>5. Opened'
  BY <1>a DEF Opened, Reading, PathSet, Looked, OneAtATime
<1>6. Recorded'
  BY <1>a DEF OneAtATime, PathSet, Looked, Reading, Opened, Recorded, Kept,
     WasNoPage
<1>7. Cached'
  BY <1>a DEF OneAtATime, PathSet, Looked, Reading, Opened, Recorded, Cached,
     Kept, WasNoPage
<1>8. Kept'
  BY <1>a DEF OneAtATime, PathSet, Looked, Reading, Opened, Recorded, Cached,
     Kept, WasNoPage
<1>9. Fresh'
  BY <1>a DEF Unfinished, PathSet, Looked, Reading, Kept, WasNoPage, Fresh
<1> QED BY <1>a, <1>1, <1>2, <1>3, <1>4, <1>5, <1>6, <1>7, <1>8, <1>9 DEF Inv

LEMMA OpenFileKeeps ==
    ASSUME NEW r \in Requests, Inv, ~Overlap, OpenFile(r)
    PROVE  Inv'
<1>a. TypeOK' BY TypedKept, TypedInv DEF Typed, Next, Serve
<1>1. Opened'
  <2>1. page'[r] = pagePath /\ pagePath \in Paths /\ read'[r] = now[pagePath]
    BY DEF Inv, TypeOK, PathSet, Looked, Reading, OpenFile, Go
  <2>2. mtime'[r] = 0 \/ mtime'[r] = now[pagePath]
    BY DEF Inv, TypeOK, Opened, OpenFile, Go
  <2>3. since[r][pagePath] <= now[pagePath] /\ now[pagePath] <= now[pagePath]
    BY <2>1 DEF Inv, TypeOK, Times, Opened
  <2>4. pc'[r] = "compare" /\ now' = now /\ since' = since
    BY DEF Inv, TypeOK, OpenFile, Go, files
  <2>5. \A s \in Requests \ {r} : UNCHANGED <<pc[s], page[s], read[s], mtime[s]>>
    BY DEF Inv, TypeOK, OpenFile, Go
  <2> QED BY <2>1, <2>2, <2>3, <2>4, <2>5 DEF Inv, Opened, Reading
<1>2. ErrorsNotKept'
  BY <1>a, CausesKept DEF Inv, TypeOK, OpenFile, Go, files, local, shared
<1> USE PagesAssumption DEF Inv, TypeOK, Compiled, Times, Pcs, Unanswered,
   OpenFile, Go, shared, files, local
<1>3. OneAtATime'
  BY <1>a DEF OneAtATime
<1>4. Unfinished'
  BY <1>a DEF Unfinished
<1>5. PathSet'
  BY <1>a DEF OneAtATime, Unfinished, PathSet, Looked, Reading, Recorded
<1>6. Recorded'
  BY <1>a DEF OneAtATime, PathSet, Looked, Reading, Opened, Recorded, Kept,
     WasNoPage
<1>7. Cached'
  BY <1>a DEF OneAtATime, PathSet, Looked, Reading, Opened, Recorded, Cached,
     Kept, WasNoPage
<1>8. Kept'
  BY <1>a DEF OneAtATime, PathSet, Looked, Reading, Opened, Recorded, Cached,
     Kept, WasNoPage
<1>9. Fresh'
  BY <1>a DEF Unfinished, PathSet, Looked, Reading, Kept, WasNoPage, Fresh
<1> QED BY <1>a, <1>1, <1>2, <1>3, <1>4, <1>5, <1>6, <1>7, <1>8, <1>9 DEF Inv

LEMMA OpenFailKeeps ==
    ASSUME NEW r \in Requests, Inv, ~Overlap, OpenFail(r)
    PROVE  Inv'
<1>a. TypeOK' BY TypedKept, TypedInv DEF Typed, Next, Serve
<1> DEFINE well == kind[pagePath][now[pagePath]] = "missing"
<1>b. /\ pc[r] = "open" /\ pagePath \in Paths
      /\ Refuse(r, well) /\ page' = [page EXCEPT ![r] = pagePath]
  BY DEF OpenFail, Inv, PathSet, Looked
<1>1. ErrorsNotKept'
  <2>1. page'[r] = pagePath
    BY <1>b DEF Inv, TypeOK
  <2>2. since[r][pagePath] <= now[pagePath] /\ since[r][pagePath] \in Nat /\ now[pagePath] \in Nat
    BY <1>b DEF Inv, TypeOK, Times, Opened
  <2>3. WasNoPage(r)' \/ ~well
    BY <1>b, <2>1, <2>2 DEF Refuse, files, WasNoPage
  <2>4. \A s \in Requests \ {r} : page'[s] = page[s]
    BY <1>b DEF Inv, TypeOK
  <2>5. well \in BOOLEAN
    OBVIOUS
  <2> HIDE DEF well
  <2> QED BY <1>a, <1>b, <2>3, <2>4, <2>5, RefusedKeeps
<1> HIDE DEF well
<1> USE PagesAssumption DEF Inv, TypeOK, Compiled, Times, Pcs, Unanswered,
   Refuse, Answer, shared, files, local
<1>2. OneAtATime'
  BY <1>a, <1>b DEF OneAtATime
<1>3. Unfinished'
  BY <1>a, <1>b DEF Unfinished
<1>4. PathSet'
  BY <1>a, <1>b DEF OneAtATime, Unfinished, PathSet, Looked, Reading, Recorded
<1>5. Opened'
  BY <1>a, <1>b DEF Opened, Reading, PathSet, Looked, OneAtATime
<1>6. Recorded'
  BY <1>a, <1>b DEF OneAtATime, PathSet, Looked, Reading, Opened, Recorded
<1>7. Cached'
  BY <1>a, <1>b DEF OneAtATime, PathSet, Looked, Reading, Opened, Recorded, Cached
<1>8. Kept'
  BY <1>a, <1>b DEF OneAtATime, PathSet, Looked, Reading, Opened, Recorded, Cached,
     Kept, WasNoPage
<1>9. Fresh'
  BY <1>a, <1>b DEF Unfinished, PathSet, Looked, Reading, Fresh
<1> QED BY <1>a, <1>1, <1>2, <1>3, <1>4, <1>5, <1>6, <1>7, <1>8, <1>9 DEF Inv

LEMMA CompareKeeps ==
    ASSUME NEW r \in Requests, Inv, ~Overlap, Compare(r)
    PROVE  Inv'
<1>a. TypeOK' BY TypedKept, TypedInv DEF Typed, Next, Serve
<1>1. ErrorsNotKept'
  BY <1>a, CausesKept DEF Inv, TypeOK, Compare, Go, files, local, shared
<1> USE PagesAssumption DEF Inv, TypeOK, Compiled, Times, Pcs, Unanswered,
   Compare, Go, Outdated, shared, files, local
<1>2. OneAtATime'
  BY <1>a DEF OneAtATime
<1>3. Unfinished'
  BY <1>a DEF Unfinished
<1>4. PathSet'
  BY <1>a DEF OneAtATime, Unfinished, PathSet, Looked, Reading, Recorded
<1>5. Opened'
  BY <1>a DEF Opened, Reading, PathSet, Looked, OneAtATime
<1>6. Recorded'
  BY <1>a DEF OneAtATime, PathSet, Looked, Reading, Opened, Recorded, Kept,
     WasNoPage
<1>7. Cached'
  BY <1>a DEF OneAtATime, PathSet, Looked, Reading, Opened, Recorded, Cached,
     Kept, WasNoPage
<1>8. Kept'
  BY <1>a DEF OneAtATime, PathSet, Looked, Reading, Opened, Recorded, Cached,
     Kept, WasNoPage
<1>9. Fresh'
  BY <1>a DEF Unfinished, PathSet, Looked, Reading, Kept, WasNoPage, Fresh
<1> QED BY <1>a, <1>1, <1>2, <1>3, <1>4, <1>5, <1>6, <1>7, <1>8, <1>9 DEF Inv

LEMMA DropKeeps ==
    ASSUME NEW r \in Requests, Inv, ~Overlap, Drop(r)
    PROVE  Inv'
<1>a. TypeOK' BY TypedKept, TypedInv DEF Typed, Next, Serve
<1>1. Kept'
  <2>1. pc'[r] \in {"test", "stamp"} /\ exec' = NoPage /\ (pc'[r] = "stamp" => mtime[r] # 0)
    BY PagesAssumption DEF Inv, TypeOK, Compiled, Times, PathSet, Looked, Reading,
       Opened, Drop, Go
  <2>2. \A s \in Requests \ {r} : pc'[s] = "idle"
    BY DEF Inv, TypeOK, OneAtATime, Drop, Go
  <2> QED BY <2>1, <2>2 DEF Kept, Drop, local
<1>2. ErrorsNotKept'
  BY <1>a, CausesKept DEF Inv, TypeOK, Drop, Go, files, local
<1> USE PagesAssumption DEF Inv, TypeOK, Compiled, Times, Pcs, Unanswered, Drop,
   Go, shared, files, local
<1>3. OneAtATime'
  BY <1>a DEF OneAtATime
<1>4. Unfinished'
  BY <1>a DEF Unfinished
<1>5. PathSet'
  BY <1>a DEF OneAtATime, Unfinished, PathSet, Looked, Reading, Recorded
<1>6. Opened'
  BY <1>a DEF Opened, Reading, PathSet, Looked, OneAtATime
<1>7. Recorded'
  BY <1>a DEF OneAtATime, PathSet, Looked, Reading, Opened, Recorded, Kept,
     WasNoPage
<1>8. Cached'
  BY <1>a DEF OneAtATime, PathSet, Looked, Reading, Opened, Recorded, Cached,
     Kept, WasNoPage
<1>9. Fresh'
  BY <1>a DEF Unfinished, PathSet, Looked, Reading, Kept, WasNoPage, Fresh
<1> QED BY <1>a, <1>1, <1>2, <1>3, <1>4, <1>5, <1>6, <1>7, <1>8, <1>9 DEF Inv

LEMMA StampKeeps ==
    ASSUME NEW r \in Requests, Inv, ~Overlap, Stamp(r)
    PROVE  Inv'
<1>a. TypeOK' BY TypedKept, TypedInv DEF Typed, Next, Serve
<1>1. Recorded'
  <2>1. pagePath \in Paths /\ page[r] = pagePath /\ mtime[r] <= now[pagePath] /\ mtime[r] <= read[r]
    BY DEF Inv, TypeOK, Times, PathSet, Looked, Reading, Opened, Kept, Stamp, Go
  <2>2. \A s \in Requests \ {r} : pc'[s] = "idle"
    BY DEF Inv, TypeOK, OneAtATime, Stamp, Go
  <2> QED BY <2>1, <2>2 DEF Recorded, Reading, Stamp, files, local
<1>2. ErrorsNotKept'
  BY <1>a, CausesKept DEF Inv, TypeOK, Stamp, Go, files, local
<1> USE PagesAssumption DEF Inv, TypeOK, Compiled, Times, Pcs, Unanswered, Stamp,
   Go, shared, files, local
<1>3. OneAtATime'
  BY <1>a DEF OneAtATime
<1>4. Unfinished'
  BY <1>a DEF Unfinished
<1>5. PathSet'
  BY <1>a DEF OneAtATime, Unfinished, PathSet, Looked, Reading, Recorded
<1>6. Opened'
  BY <1>a DEF Opened, Reading, PathSet, Looked, OneAtATime
<1>7. Cached'
  BY <1>a DEF OneAtATime, PathSet, Looked, Reading, Opened, Recorded, Cached,
     Kept, WasNoPage
<1>8. Kept'
  BY <1>a DEF OneAtATime, PathSet, Looked, Reading, Opened, Recorded, Cached,
     Kept, WasNoPage
<1>9. Fresh'
  BY <1>a DEF Unfinished, PathSet, Looked, Reading, Kept, WasNoPage, Fresh
<1> QED BY <1>a, <1>1, <1>2, <1>3, <1>4, <1>5, <1>6, <1>7, <1>8, <1>9 DEF Inv

LEMMA TestKeeps ==
    ASSUME NEW r \in Requests, Inv, ~Overlap, Test(r)
    PROVE  Inv'
<1>a. TypeOK' BY TypedKept, TypedInv DEF Typed, Next, Serve
<1>1. ErrorsNotKept'
  BY <1>a, CausesKept DEF Inv, TypeOK, Test, Go, files, local, shared
<1> USE PagesAssumption DEF Inv, TypeOK, Compiled, Times, Pcs, Unanswered, Test,
   Go, shared, files, local
<1>2. OneAtATime'
  BY <1>a DEF OneAtATime
<1>3. Unfinished'
  BY <1>a DEF Unfinished
<1>4. PathSet'
  BY <1>a DEF OneAtATime, Unfinished, PathSet, Looked, Reading, Recorded
<1>5. Opened'
  BY <1>a DEF Opened, Reading, PathSet, Looked, OneAtATime
<1>6. Recorded'
  BY <1>a DEF OneAtATime, PathSet, Looked, Reading, Opened, Recorded, Kept,
     WasNoPage
<1>7. Cached'
  BY <1>a DEF OneAtATime, PathSet, Looked, Reading, Opened, Recorded, Cached,
     Kept, WasNoPage
<1>8. Kept'
  BY <1>a DEF OneAtATime, PathSet, Looked, Reading, Opened, Recorded, Cached,
     Kept, WasNoPage
<1>9. Fresh'
  BY <1>a DEF Unfinished, PathSet, Looked, Reading, Kept, WasNoPage, Fresh
<1> QED BY <1>a, <1>1, <1>2, <1>3, <1>4, <1>5, <1>6, <1>7, <1>8, <1>9 DEF Inv

LEMMA ParseFailKeeps ==
    ASSUME NEW r \in Requests, Inv, ~Overlap, ParseFail(r)
    PROVE  Inv'
<1>a. TypeOK' BY TypedKept, TypedInv DEF Typed, Next, Serve
<1>c. PICK c \in Readings(r) : c.kind = "broken" /\ Refuse(r, c.well)
  BY DEF ParseFail
<1> DEFINE well == c.well
<1>b. pc[r] = "parse" /\ Refuse(r, well) /\ UNCHANGED page
  BY <1>c DEF ParseFail
<1>1. ErrorsNotKept'
  <2>1. /\ page[r] \in Paths /\ since[r][page[r]] <= read[r] /\ read[r] <= now[page[r]]
        /\ since[r][page[r]] \in Nat /\ now[page[r]] \in Nat /\ read[r] \in Nat
    BY <1>b DEF Inv, TypeOK, Times, PathSet, Looked, Opened, Reading
  <2>2. c.time \in since[r][page[r]] .. now[page[r]]
    BY <2>1, WhatIsRead
  <2>3. well => kind[page[r]][c.time] # "page"
    BY <1>c, WhatIsRead
  <2>4. WasNoPage(r)' \/ ~well
    BY <1>b, <2>2, <2>3 DEF Refuse, files, WasNoPage
  <2>5. well \in BOOLEAN
    BY WhatIsRead
  <2> HIDE DEF well
  <2> QED BY <1>a, <1>b, <2>4, <2>5, RefusedKeeps
<1> HIDE DEF well
<1> USE PagesAssumption DEF Inv, TypeOK, Compiled, Times, Pcs, Unanswered,
   Refuse, Answer, shared, files, local
<1>2. OneAtATime'
  BY <1>a, <1>b DEF OneAtATime
<1>3. Unfinished'
  BY <1>a, <1>b DEF Unfinished
<1>4. PathSet'
  BY <1>a, <1>b DEF OneAtATime, Unfinished, PathSet, Looked, Reading, Recorded
<1>5. Opened'
  BY <1>a, <1>b DEF Opened, Reading, PathSet, Looked, OneAtATime
<1>6. Recorded'
  BY <1>a, <1>b DEF OneAtATime, PathSet, Looked, Reading, Opened, Recorded
<1>7. Cached'
  BY <1>a, <1>b DEF OneAtATime, PathSet, Looked, Reading, Opened, Recorded, Cached
<1>8. Kept'
  BY <1>a, <1>b DEF OneAtATime, PathSet, Looked, Reading, Opened, Recorded, Cached,
     Kept, WasNoPage
<1>9. Fresh'
  BY <1>a, <1>b DEF Unfinished, PathSet, Looked, Reading, Fresh
<1> QED BY <1>a, <1>1, <1>2, <1>3, <1>4, <1>5, <1>6, <1>7, <1>8, <1>9 DEF Inv

LEMMA ParseForeignKeeps ==
    ASSUME NEW r \in Requests, Inv, ~Overlap, ParseForeign(r)
    PROVE  Inv'
<1>a. TypeOK' BY TypedKept, TypedInv DEF Typed, Next, Serve
<1>c. PICK c \in Readings(r) : c.kind = "foreign" /\ clean' = [clean EXCEPT ![r] = c.well]
  BY DEF ParseForeign
<1>b. /\ Go(r, "parse", "execute")
      /\ UNCHANGED <<shared, files, page, mtime, read, since, reply>>
      /\ \A s \in Requests \ {r} : clean'[s] = clean[s]
  BY <1>c DEF ParseForeign, Inv, TypeOK
<1>1. ErrorsNotKept'
  BY <1>a, <1>b, CausesKept DEF Inv, TypeOK, Go, files
<1>8. Kept'
  <2>1. exec' = NoPage /\ pc'[r] = "execute" /\ \A s \in Requests \ {r} : pc'[s] = "idle"
    BY <1>b DEF Inv, TypeOK, OneAtATime, Kept, Go, shared
  <2>2. /\ page[r] \in Paths /\ since[r][page[r]] <= read[r] /\ read[r] <= now[page[r]]
        /\ since[r][page[r]] \in Nat /\ now[page[r]] \in Nat /\ read[r] \in Nat
    BY <1>b DEF Inv, TypeOK, Times, PathSet, Looked, Opened, Reading, Go
  <2>3. c.time \in since[r][page[r]] .. now[page[r]]
    BY <2>2, WhatIsRead
  <2>4. c.well => WasNoPage(r)
    BY <1>c, <2>3, WhatIsRead DEF WasNoPage
  <2>5. c.well => WasNoPage(r)'
    BY <1>b, <2>4 DEF WasNoPage, files
  <2>6. clean'[r] = c.well
    BY <1>c DEF Inv, TypeOK
  <2> QED BY <2>1, <2>5, <2>6 DEF Kept
<1> USE PagesAssumption DEF Inv, TypeOK, Compiled, Times, Pcs, Unanswered,
   Go, shared, files
<1>2. OneAtATime'
  BY <1>a, <1>b DEF OneAtATime
<1>3. Unfinished'
  BY <1>a, <1>b DEF Unfinished
<1>4. PathSet'
  BY <1>a, <1>b DEF OneAtATime, Unfinished, PathSet, Looked, Reading, Recorded
<1>5. Opened'
  BY <1>a, <1>b DEF Opened, Reading, PathSet, Looked, OneAtATime
<1>6. Recorded'
  BY <1>a, <1>b DEF OneAtATime, PathSet, Looked, Reading, Opened, Recorded
<1>7. Cached'
  BY <1>a, <1>b DEF OneAtATime, PathSet, Looked, Reading, Opened, Recorded, Cached
<1>9. Fresh'
  BY <1>a, <1>b DEF Unfinished, PathSet, Looked, Reading, Fresh
<1> QED BY <1>a, <1>1, <1>2, <1>3, <1>4, <1>5, <1>6, <1>7, <1>8, <1>9 DEF Inv

LEMMA ParsePageKeeps ==
    ASSUME NEW r \in Requests, Inv, ~Overlap, ParsePage(r)
    PROVE  Inv'
<1>a. TypeOK' BY TypedKept, TypedInv DEF Typed, Next, Serve
<1>c. PICK c \in Readings(r) :
         read' = [read EXCEPT ![r] = c.time] /\ clean' = [clean EXCEPT ![r] = c.well]
  BY DEF ParsePage
<1>b. /\ Go(r, "parse", "store")
      /\ UNCHANGED <<shared, files, page, mtime, since, reply>>
      /\ \A s \in Requests \ {r} : clean'[s] = clean[s] /\ read'[s] = read[s]
      /\ read'[r] \in {read[r], now[page[r]]}
  BY <1>c, WhatIsRead DEF ParsePage, Inv, TypeOK
<1>1. ErrorsNotKept'
  BY <1>a, <1>b, CausesKept DEF Inv, TypeOK, Go, files
<1> USE PagesAssumption DEF Inv, TypeOK, Compiled, Times, Pcs, Unanswered,
   Go, shared, files
<1>2. OneAtATime'
  BY <1>a, <1>b DEF OneAtATime
<1>3. Unfinished'
  BY <1>a, <1>b DEF Unfinished
<1>4. PathSet'
  BY <1>a, <1>b DEF OneAtATime, Unfinished, PathSet, Looked, Reading, Recorded
<1>5. Opened'
  BY <1>a, <1>b DEF Opened, Reading, PathSet, Looked, OneAtATime
<1>6. Recorded'
  BY <1>a, <1>b DEF OneAtATime, PathSet, Looked, Reading, Opened, Recorded
<1>7. Cached'
  BY <1>a, <1>b DEF OneAtATime, PathSet, Looked, Reading, Opened, Recorded, Cached
<1>8. Kept'
  BY <1>a, <1>b DEF OneAtATime, PathSet, Looked, Reading, Opened, Recorded, Cached,
     Kept, WasNoPage
<1>9. Fresh'
  BY <1>a, <1>b DEF Unfinished, PathSet, Looked, Reading, Fresh
<1> QED BY <1>a, <1>1, <1>2, <1>3, <1>4, <1>5, <1>6, <1>7, <1>8, <1>9 DEF Inv

LEMMA StoreKeeps ==
    ASSUME NEW r \in Requests, Inv, ~Overlap, Store(r)
    PROVE  Inv'
<1>a. TypeOK' BY TypedKept, TypedInv DEF Typed, Next, Serve
<1>1. Kept'
  <2>1. pc'[r] = "execute" /\ exec'.path = page[r] /\ since[r][page[r]] <= exec'.time /\ exec' # NoPage
    BY PagesAssumption DEF Inv, TypeOK, Compiled, Times, PathSet, Looked, Reading,
       Opened, Store, Go
  <2>2. \A s \in Requests \ {r} : pc'[s] = "idle"
    BY DEF Inv, TypeOK, OneAtATime, Store, Go
  <2> QED BY <2>1, <2>2 DEF Kept, Store, local
<1>2. ErrorsNotKept'
  BY <1>a, CausesKept DEF Inv, TypeOK, Store, Go, files, local
<1> USE PagesAssumption DEF Inv, TypeOK, Compiled, Times, Pcs, Unanswered, Store,
   Go, shared, files, local
<1>3. OneAtATime'
  BY <1>a DEF OneAtATime
<1>4. Unfinished'
  BY <1>a DEF Unfinished
<1>5. PathSet'
  BY <1>a DEF OneAtATime, Unfinished, PathSet, Looked, Reading, Recorded
<1>6. Opened'
  BY <1>a DEF Opened, Reading, PathSet, Looked, OneAtATime
<1>7. Recorded'
  BY <1>a DEF OneAtATime, PathSet, Looked, Reading, Opened, Recorded, Kept,
     WasNoPage
<1>8. Cached'
  BY <1>a DEF OneAtATime, PathSet, Looked, Reading, Opened, Recorded, Cached,
     Kept, WasNoPage
<1>9. Fresh'
  BY <1>a DEF Unfinished, PathSet, Looked, Reading, Kept, WasNoPage, Fresh
<1> QED BY <1>a, <1>1, <1>2, <1>3, <1>4, <1>5, <1>6, <1>7, <1>8, <1>9 DEF Inv

LEMMA ExecuteNothingKeeps ==
    ASSUME NEW r \in Requests, Inv, ~Overlap, ExecuteNothing(r)
    PROVE  Inv'
<1>a. TypeOK' BY TypedKept, TypedInv DEF Typed, Next, Serve
<1> DEFINE well == clean[r]
<1>b. pc[r] = "execute" /\ exec = NoPage /\ Refuse(r, well) /\ UNCHANGED page
  BY DEF ExecuteNothing
<1>1. ErrorsNotKept'
  <2>1. WasNoPage(r) \/ ~well
    BY <1>b DEF Inv, Kept
  <2>2. WasNoPage(r)' \/ ~well
    BY <1>b, <2>1 DEF Refuse, files, WasNoPage
  <2>3. well \in BOOLEAN
    BY DEF Inv, TypeOK
  <2> HIDE DEF well
  <2> QED BY <1>a, <1>b, <2>2, <2>3, RefusedKeeps
<1> HIDE DEF well
<1> USE PagesAssumption DEF Inv, TypeOK, Compiled, Times, Pcs, Unanswered,
   Refuse, Answer, shared, files, local
<1>2. OneAtATime'
  BY <1>a, <1>b DEF OneAtATime
<1>3. Unfinished'
  BY <1>a, <1>b DEF Unfinished
<1>4. PathSet'
  BY <1>a, <1>b DEF OneAtATime, Unfinished, PathSet, Looked, Reading, Recorded
<1>5. Opened'
  BY <1>a, <1>b DEF Opened, Reading, PathSet, Looked, OneAtATime
<1>6. Recorded'
  BY <1>a, <1>b DEF OneAtATime, PathSet, Looked, Reading, Opened, Recorded
<1>7. Cached'
  BY <1>a, <1>b DEF OneAtATime, PathSet, Looked, Reading, Opened, Recorded, Cached
<1>8. Kept'
  BY <1>a, <1>b DEF OneAtATime, PathSet, Looked, Reading, Opened, Recorded, Cached,
     Kept, WasNoPage
<1>9. Fresh'
  BY <1>a, <1>b DEF Unfinished, PathSet, Looked, Reading, Fresh
<1> QED BY <1>a, <1>1, <1>2, <1>3, <1>4, <1>5, <1>6, <1>7, <1>8, <1>9 DEF Inv

LEMMA ExecuteKeeps ==
    ASSUME NEW r \in Requests, Inv, ~Overlap, Execute(r)
    PROVE  Inv'
<1>a. TypeOK' BY TypedKept, TypedInv DEF Typed, Next, Serve
<1> USE PagesAssumption DEF Inv, TypeOK, Compiled, Times, Pcs, Unanswered,
   Execute, Answer, shared, files, local
<1>1. OneAtATime'
  BY <1>a DEF OneAtATime
<1>2. Unfinished'
  BY <1>a DEF Unfinished
<1>3. PathSet'
  BY <1>a DEF OneAtATime, Unfinished, PathSet, Looked, Reading, Recorded
<1>4. Opened'
  BY <1>a DEF Opened, Reading, PathSet, Looked, OneAtATime
<1>5. Recorded'
  BY <1>a DEF OneAtATime, PathSet, Looked, Reading, Opened, Recorded, Kept,
     WasNoPage
<1>6. Cached'
  BY <1>a DEF OneAtATime, PathSet, Looked, Reading, Opened, Recorded, Cached,
     Kept, WasNoPage
<1>7. Kept'
  BY <1>a DEF OneAtATime, PathSet, Looked, Reading, Opened, Recorded, Cached,
     Kept, WasNoPage
<1>8. Fresh'
  BY <1>a DEF Unfinished, PathSet, Looked, Reading, Kept, WasNoPage, Fresh
<1>9. ErrorsNotKept'
  BY <1>a DEF OneAtATime, Unfinished, PathSet, Looked, Reading, Opened, Kept,
     WasNoPage, ErrorsNotKept
<1> QED BY <1>a, <1>1, <1>2, <1>3, <1>4, <1>5, <1>6, <1>7, <1>8, <1>9 DEF Inv

LEMMA ParseFileKeeps ==
    ASSUME NEW p \in Paths, NEW q \in Paths, Inv, ~Overlap, ParseFile(p, q)
    PROVE  Inv'
<1>a. TypeOK' BY TypedKept, TypedInv DEF Typed, Next
<1>1. ErrorsNotKept'
  BY <1>a, CausesKept DEF Inv, TypeOK, ParseFile, files, local
<1> USE PagesAssumption DEF Inv, TypeOK, Compiled, Times, Pcs, Unanswered,
   ParseFile, Quiet, shared, files, local
<1>2. OneAtATime'
  BY <1>a DEF OneAtATime
<1>3. Unfinished'
  BY <1>a DEF Unfinished
<1>4. PathSet'
  BY <1>a DEF OneAtATime, Unfinished, PathSet, Looked, Reading, Recorded
<1>5. Opened'
  BY <1>a DEF Opened, Reading, PathSet, Looked, OneAtATime
<1>6. Recorded'
  BY <1>a DEF OneAtATime, PathSet, Looked, Reading, Opened, Recorded, Kept,
     WasNoPage
<1>7. Cached'
  BY <1>a DEF OneAtATime, PathSet, Looked, Reading, Opened, Recorded, Cached,
     Kept, WasNoPage
<1>8. Kept'
  BY <1>a DEF OneAtATime, PathSet, Looked, Reading, Opened, Recorded, Cached,
     Kept, WasNoPage
<1>9. Fresh'
  BY <1>a DEF Unfinished, PathSet, Looked, Reading, Kept, WasNoPage, Fresh
<1> QED BY <1>a, <1>1, <1>2, <1>3, <1>4, <1>5, <1>6, <1>7, <1>8, <1>9 DEF Inv

LEMMA EditKeeps ==
    ASSUME NEW p \in Paths, Inv, ~Overlap, Edit(p)
    PROVE  Inv'
<1>a. TypeOK' BY TypedKept, TypedInv DEF Typed, Next
<1>1. Kept'
  <2>1. \A q \in Paths : now[q] <= now'[q] /\ \A t \in 0 .. now[q] : kind'[q][t] = kind[q][t]
    BY DEF Inv, TypeOK, Times, Edit
  <2>2. UNCHANGED <<pc, page, since, clean, mtime, exec, modeTime>>
    BY DEF Edit, shared, local
  <2>3. ASSUME NEW s \in Requests, pc[s] = "execute", exec = NoPage, clean[s]
        PROVE  WasNoPage(s)'
    <3>1. WasNoPage(s) /\ page[s] \in Paths
      BY <2>3 DEF Inv, Kept, PathSet, Looked, Reading
    <3> QED BY <1>a, <2>1, <2>2, <3>1, CauseKept DEF Inv
  <2> QED BY <2>2, <2>3 DEF Inv, Kept
<1>2. ErrorsNotKept'
  <2>1. \A q \in Paths : now[q] <= now'[q] /\ \A t \in 0 .. now[q] : kind'[q][t] = kind[q][t]
    BY DEF Inv, TypeOK, Times, Edit
  <2>2. ASSUME NEW s \in Requests, reply'[s].how = "refused", clean'[s]
        PROVE  WasNoPage(s)'
    <3>1. WasNoPage(s) /\ page[s] \in Paths /\ page'[s] = page[s] /\ since'[s] = since[s]
      BY <2>2 DEF Inv, ErrorsNotKept, PathSet, Edit, local
    <3> QED BY <1>a, <2>1, <3>1, CauseKept DEF Inv
  <2> QED BY <2>2 DEF ErrorsNotKept
<1> USE PagesAssumption DEF Inv, TypeOK, Compiled, Times, Pcs, Unanswered, Edit,
   shared, files, local
<1>3. OneAtATime'
  BY <1>a DEF OneAtATime
<1>4. Unfinished'
  BY <1>a DEF Unfinished
<1>5. PathSet'
  BY <1>a DEF OneAtATime, Unfinished, PathSet, Looked, Reading, Recorded
<1>6. Opened'
  BY <1>a DEF Opened, Reading, PathSet, Looked, OneAtATime
<1>7. Recorded'
  BY <1>a DEF OneAtATime, PathSet, Looked, Reading, Opened, Recorded, Kept,
     WasNoPage
<1>8. Cached'
  BY <1>a DEF OneAtATime, PathSet, Looked, Reading, Opened, Recorded, Cached,
     Kept, WasNoPage
<1>9. Fresh'
  BY <1>a DEF Unfinished, PathSet, Looked, Reading, Kept, WasNoPage, Fresh
<1> QED BY <1>a, <1>1, <1>2, <1>3, <1>4, <1>5, <1>6, <1>7, <1>8, <1>9 DEF Inv

-----------------------------------------------------------------------------
(* The theorems. *)

LEMMA InvInitially == Init => Inv
<1> SUFFICES ASSUME Init PROVE Inv
  OBVIOUS
<1>1. TypeOK
  BY TypedInitially DEF Typed
<1>2. \A r \in Requests : pc[r] = "idle" /\ reply[r] = Unanswered /\ since[r] = now /\ mtime[r] = 0
  BY DEF Init
<1>3. OneAtATime /\ Unfinished /\ PathSet /\ Opened /\ Kept
  BY <1>1, <1>2 DEF TypeOK, Times, OneAtATime, Unfinished, PathSet, Looked,
     Reading, Opened, Kept,
     Unanswered
<1>4. Recorded /\ Cached
  BY <1>2 DEF Init, Recorded, Cached, Reading
<1>5. Fresh /\ ErrorsNotKept
  BY <1>2 DEF Fresh, ErrorsNotKept, Unanswered
<1> QED BY <1>1, <1>3, <1>4, <1>5 DEF Inv

LEMMA InvKept == ASSUME ~Overlap, Inv, [Next]_vars PROVE Inv'
<1>1. ASSUME NEW r \in Requests, Begin(r) PROVE Inv'
  BY <1>1, BeginKeeps
<1>2. ASSUME NEW r \in Requests, Serve(r) PROVE Inv'
  BY <1>2, LookForPathKeeps, NamePageKeeps, OpenFileKeeps, OpenFailKeeps,
     CompareKeeps, DropKeeps, StampKeeps, TestKeeps, ParseFailKeeps,
     ParseForeignKeeps, ParsePageKeeps, StoreKeeps, ExecuteNothingKeeps,
     ExecuteKeeps DEF Serve
<1>3. ASSUME NEW p \in Paths, NEW q \in Paths, ParseFile(p, q) PROVE Inv'
  BY <1>3, ParseFileKeeps
<1>4. ASSUME NEW p \in Paths, Edit(p) PROVE Inv'
  BY <1>4, EditKeeps
<1>5. CASE UNCHANGED vars
  BY <1>5 DEF vars, shared, files, local, Inv, TypeOK, OneAtATime, Unfinished,
     PathSet, Opened, Recorded, Cached, Kept, WasNoPage, Fresh, ErrorsNotKept
<1> QED BY <1>1, <1>2, <1>3, <1>4, <1>5 DEF Next

\* The fields of the handler and of every request keep their types, with or
\* without overlap.
THEOREM PagesTypes == Spec => []TypeOK
<1>1. Typed => TypeOK
  BY DEF Typed
<1> QED BY <1>1, TypedInitially, TypedKept, PTL DEF Spec

LEMMA InvAlways == ASSUME ~Overlap PROVE Spec => []Inv
BY InvInitially, InvKept, PTL DEF Spec

LEMMA InvSuffices == Inv => CacheIsRecorded
BY DEF Inv, TypeOK, Cached, CacheIsRecorded, Compiled, Times

\* While the recorded modification time is that of the handler's file, what is
\* compiled was read from that file when it was as it is now, if requests do not overlap.
THEOREM CacheIsWhatTheFileHolds == ASSUME ~Overlap PROVE Spec => []CacheIsRecorded
BY InvAlways, InvSuffices, PTL

\* No request that overlaps none is answered from a page older than itself.
THEOREM NoStalePage == ASSUME ~Overlap PROVE Spec => []Fresh
<1>1. Inv => Fresh
  BY DEF Inv
<1> QED BY <1>1, InvAlways, PTL

\* No request that overlaps none is refused while its file is a page throughout, can be
\* opened and is read as a whole: no error is left over from an earlier request.
THEOREM ErrorsAreNotCached == ASSUME ~Overlap PROVE Spec => []ErrorsNotKept
<1>1. Inv => ErrorsNotKept
  BY DEF Inv
<1> QED BY <1>1, InvAlways, PTL

=============================================================================
