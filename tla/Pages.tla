------------------------------- MODULE Pages --------------------------------
(***************************************************************************)
(* ServerHandlerDynamic (src/serverHandlerDynamic.go): a handler that      *)
(* compiles the file of a page and keeps the compiled template until the   *)
(* file's modification time changes.  Its fields PagePath, exec and        *)
(* modeTime belong to no lock, although every connection's goroutine calls *)
(* ServeIOT on the same value: each access to one of them is a step.       *)
(***************************************************************************)
EXTENDS Naturals

CONSTANTS
    Requests,       \* goroutines that call ServeIOT, again and again
    Paths,          \* pages there are
    NoPath,         \* PagePath before anything set it
    NoPage,         \* exec = nil
    Contents,       \* what a file may hold, or that it is missing
    Readers,        \* how files are read: by os.Open, by a ReadFile function
    MaxTime,        \* bound: a file is written MaxTime times
    Overlap         \* whether requests may overlap

ASSUME PagesAssumption ==
    /\ NoPath \notin Paths
    /\ NoPage \notin [path : Paths, time : Nat]
    /\ Contents \subseteq {"page", "foreign", "broken", "missing"}
    /\ Readers \subseteq {"file", "func"}
    /\ MaxTime \in Nat \ {0}
    /\ Overlap \in BOOLEAN

VARIABLES
    pagePath,       \* ServerHandlerDynamic.PagePath
    exec,           \* .exec: what is compiled: of which file, since when in it
    modeTime,       \* .modeTime, 0 before anything was recorded
    now,            \* the modification time of each page's file
    kind,           \* what was written into it at each time
    reader,         \* how this handler reads files
    pc,             \* where each request is in ServeIOT
    page,           \* the file it opened
    mtime,          \* the modification time it got with it, 0 if none
    read,           \* the time of the content it opened, then of what it parsed
    since,          \* history: the modification times when it began
    clean,          \* history: what it read is what the file held at one time
    reply           \* how it was answered, and from which compiled page

shared == <<pagePath, exec, modeTime>>
files  == <<now, kind, reader>>
local  == <<page, mtime, read, since, clean, reply>>
vars   == <<shared, files, pc, local>>

Times    == 0 .. MaxTime
Compiled == [path : Paths, time : Times]
Pcs == {"idle", "path", "name", "open", "compare", "drop", "stamp", "test",
        "parse", "store", "execute"}
\* No answer yet; a 500 of the handler's own; a 500 for what the page did; the
\* page's output or nothing as the body; what the page wrote by itself; that,
\* with an error text behind it.
Answers == {"none", "refused", "failed", "body", "own", "raw"}

TypeOK ==
    /\ pagePath \in Paths \cup {NoPath}
    /\ exec \in Compiled \cup {NoPage}
    /\ exec # NoPage => pagePath \in Paths
    /\ modeTime \in Times
    /\ now \in [Paths -> Times \ {0}]
    /\ kind \in [Paths -> [Times -> Contents]]
    /\ reader \in Readers
    /\ pc \in [Requests -> Pcs]
    /\ page \in [Requests -> Paths \cup {NoPath}]
    /\ mtime \in [Requests -> Times]
    /\ read \in [Requests -> Times]
    /\ since \in [Requests -> [Paths -> Times]]
    /\ clean \in [Requests -> BOOLEAN]
    /\ reply \in [Requests -> [how : Answers, from : Compiled \cup {NoPage}]]

Unanswered == [how |-> "none", from |-> NoPage]

Init ==
    /\ pagePath \in Paths \cup {NoPath}
    /\ exec = NoPage
    /\ modeTime = 0
    /\ now = [p \in Paths |-> 1]
    /\ \E k \in [Paths -> Contents] : kind = [p \in Paths |-> [t \in Times |-> k[p]]]
    /\ reader \in Readers
    /\ pc = [r \in Requests |-> "idle"]
    /\ page = [r \in Requests |-> NoPath]
    /\ mtime = [r \in Requests |-> 0]
    /\ read = [r \in Requests |-> 0]
    /\ since = [r \in Requests |-> now]
    /\ clean = [r \in Requests |-> TRUE]
    /\ reply = [r \in Requests |-> Unanswered]

Quiet == \A r \in Requests : pc[r] = "idle"

-----------------------------------------------------------------------------
(* ServeIOT. *)

Go(r, from, to) == pc[r] = from /\ pc' = [pc EXCEPT ![r] = to]

Begin(r) ==
    /\ Overlap \/ Quiet
    /\ Go(r, "idle", "path")
    /\ since' = [since EXCEPT ![r] = now]
    /\ reply' = [reply EXCEPT ![r] = Unanswered]
    /\ page' = [page EXCEPT ![r] = NoPath]
    /\ mtime' = [mtime EXCEPT ![r] = 0]
    /\ read' = [read EXCEPT ![r] = 0]
    /\ clean' = [clean EXCEPT ![r] = TRUE]
    /\ UNCHANGED <<shared, files>>

\* Without a page path, the request's own becomes that of the handler.
LookForPath(r) ==
    /\ Go(r, "path", IF pagePath = NoPath THEN "name" ELSE "open")
    /\ UNCHANGED <<shared, files, local>>

NamePage(r) ==
    /\ Go(r, "name", "open")
    /\ pagePath' \in Paths
    /\ UNCHANGED <<exec, modeTime, files, local>>

\* The request ends with an answer; from is the compiled page it came from.
Answer(r, how, from) ==
    /\ pc' = [pc EXCEPT ![r] = "idle"]
    /\ reply' = [reply EXCEPT ![r] = [how |-> how, from |-> from]]

Refuse(r, well) ==
    /\ Answer(r, "refused", NoPage)
    /\ clean' = [clean EXCEPT ![r] = well]
    /\ UNCHANGED <<shared, files, mtime, read, since>>

\* The file and its modification time; Stat may fail on an open file.  (What
\* a ReadFile function returns is of one moment.)
OpenFile(r) ==
    /\ Go(r, "open", "compare")
    /\ kind[pagePath][now[pagePath]] # "missing"
    /\ page' = [page EXCEPT ![r] = pagePath]
    /\ read' = [read EXCEPT ![r] = now[pagePath]]
    /\ \/ mtime' = [mtime EXCEPT ![r] = now[pagePath]]
       \/ reader = "file" /\ UNCHANGED mtime
    /\ UNCHANGED <<shared, files, since, clean, reply>>

\* It is missing, or cannot be opened for another reason.
OpenFail(r) ==
    /\ pc[r] = "open"
    /\ Refuse(r, kind[pagePath][now[pagePath]] = "missing")
    /\ page' = [page EXCEPT ![r] = pagePath]

\* Seeded fault: another time is no reason to drop what was compiled.
OutdatedIfUnknown(r) == mtime[r] = 0

\* What was compiled is dropped when the time is another one, or unknown.
Outdated(r) == mtime[r] = 0 \/ mtime[r] # modeTime

Compare(r) ==
    /\ Go(r, "compare", IF Outdated(r) THEN "drop" ELSE "stamp")
    /\ UNCHANGED <<shared, files, local>>

\* Seeded fault: a page whose time is unknown is not dropped.
DropKnown(r) ==
    /\ Go(r, "drop", IF mtime[r] = 0 THEN "test" ELSE "stamp")
    /\ exec' = IF mtime[r] = 0 THEN exec ELSE NoPage
    /\ UNCHANGED <<pagePath, modeTime, files, local>>

Drop(r) ==
    /\ Go(r, "drop", IF mtime[r] = 0 THEN "test" ELSE "stamp")
    /\ exec' = NoPage
    /\ UNCHANGED <<pagePath, modeTime, files, local>>

Stamp(r) ==
    /\ Go(r, "stamp", "test")
    /\ modeTime' = mtime[r]
    /\ UNCHANGED <<pagePath, exec, files, local>>

\* Seeded fault: the file is parsed only when its time has changed.
TestTime(r) ==
    /\ Go(r, "test", IF exec = NoPage /\ mtime[r] # 0 THEN "parse" ELSE "execute")
    /\ UNCHANGED <<shared, files, local>>

Test(r) ==
    /\ Go(r, "test", IF exec = NoPage THEN "parse" ELSE "execute")
    /\ UNCHANGED <<shared, files, local>>

\* The times of the content that may be parsed: of an open file, what it was
\* opened with if the file is replaced meanwhile, what is in it if written over.
ContentTimes(r) ==
    {t \in {read[r], now[page[r]]} :
        /\ kind[page[r]][t] # "missing"
        /\ reader = "func" => t = read[r]}

\* What reading it gives.  It is read in several goes, between which it may be
\* written over, and an error ends the reading and is dropped: what was read is then
\* of no one time, or a part, and may be taken for anything (but for a ReplaceParse,
\* which has the error reported).
Readings(r) ==
    {[kind |-> kind[page[r]][t], time |-> t, well |-> TRUE] : t \in ContentTimes(r)}
      \cup [kind : {"page", "foreign", "broken"}, time : {read[r]}, well : {FALSE}]

\* Parse fails, or the first line names a module nobody registered and Parse
\* returns no error and compiles nothing, or the template is compiled ...
ParseFail(r) ==
    /\ pc[r] = "parse"
    /\ \E c \in Readings(r) : c.kind = "broken" /\ Refuse(r, c.well)
    /\ UNCHANGED page

ParseForeign(r) ==
    /\ Go(r, "parse", "execute")
    /\ \E c \in Readings(r) :
          c.kind = "foreign" /\ clean' = [clean EXCEPT ![r] = c.well]
    /\ UNCHANGED <<shared, files, page, mtime, read, since, reply>>

ParsePage(r) ==
    /\ Go(r, "parse", "store")
    /\ \E c \in Readings(r) :
          /\ c.kind = "page"
          /\ read' = [read EXCEPT ![r] = c.time]
          /\ clean' = [clean EXCEPT ![r] = c.well]
    /\ UNCHANGED <<shared, files, page, mtime, since, reply>>

\* ... and becomes the handler's.
Store(r) ==
    /\ Go(r, "store", "execute")
    /\ exec' = [path |-> page[r], time |-> read[r]]
    /\ UNCHANGED <<pagePath, modeTime, files, local>>

\* Execute: nothing compiled is an error, and so is a panic of the page.  An
\* error is a 500 unless the page has asked for the ResponseWriter.
ExecuteNothing(r) ==
    /\ pc[r] = "execute"
    /\ exec = NoPage
    /\ Refuse(r, clean[r])
    /\ UNCHANGED page

Execute(r) ==
    /\ pc[r] = "execute"
    /\ exec # NoPage
    /\ \E how \in {"failed", "body", "own", "raw"} : Answer(r, how, exec)
    /\ UNCHANGED <<shared, files, page, mtime, read, since, clean>>

-----------------------------------------------------------------------------
(* The owner of the handler, and whoever writes the files.                 *)

\* Seeded fault: Parse does not insist on a PagePath.
ParseFileNameless(p, q) ==
    /\ Quiet
    /\ modeTime = 0
    /\ pagePath' \in {pagePath, p}
    /\ \/ UNCHANGED exec
       \/ /\ kind[q][now[q]] # "missing"
          /\ exec' = [path |-> q, time |-> now[q]]
    /\ UNCHANGED <<modeTime, files, pc, local>>

\* ParseFile, before the first request.  A relative path becomes PagePath, but it is
\* the path as given that is opened, not the one below RootPath: any file there is.
\* It may be missing, not be read, or be no page.
ParseFile(p, q) ==
    /\ Quiet
    /\ modeTime = 0
    /\ pagePath' \in {pagePath, p}
    /\ \/ UNCHANGED exec
       \/ /\ pagePath' # NoPath
          /\ kind[q][now[q]] # "missing"
          /\ exec' = [path |-> q, time |-> now[q]]
    /\ UNCHANGED <<modeTime, files, pc, local>>

\* A file is written, or removed.
Edit(p) ==
    /\ now[p] < MaxTime
    /\ now' = [now EXCEPT ![p] = @ + 1]
    /\ \E k \in Contents : kind' = [kind EXCEPT ![p][now[p] + 1] = k]
    /\ UNCHANGED <<reader, shared, pc, local>>

Serve(r) ==
    \/ LookForPath(r) \/ NamePage(r) \/ OpenFile(r) \/ OpenFail(r)
    \/ Compare(r) \/ Drop(r) \/ Stamp(r) \/ Test(r)
    \/ ParseFail(r) \/ ParseForeign(r) \/ ParsePage(r) \/ Store(r)
    \/ ExecuteNothing(r) \/ Execute(r)

Next ==
    \/ \E r \in Requests : Begin(r) \/ Serve(r)
    \/ \E p, q \in Paths : ParseFile(p, q)
    \/ \E p \in Paths : Edit(p)

Spec == Init /\ [][Next]_vars

-----------------------------------------------------------------------------
(* Safety, for requests that do not overlap.                               *)

\* serverHandlerDynamic.go:78: the modification time is recorded so that the
\* file can be cached: while the recorded time is that of the handler's file, what
\* is compiled was read from that file, when it was as it is now.
CacheIsRecorded ==
    Quiet /\ pagePath # NoPath /\ exec # NoPage /\ modeTime = now[pagePath]
        => exec = [path |-> pagePath, time |-> now[pagePath]]

\* A page that is served was in its file at some moment of the request, or was
\* written later, however the file changes between the steps of a request.
Fresh ==
    \A r \in Requests :
        reply[r].from # NoPage =>
            /\ reply[r].from.path = page[r]
            /\ reply[r].from.time >= since[r][page[r]]

\* Errors are not cached: a request is refused only if, while it was served,
\* the file did hold something that is not a page, or could not be opened, or was
\* not read as a whole by this request - never for what became of an earlier one.
WasNoPage(r) == \E t \in since[r][page[r]] .. now[page[r]] : kind[page[r]][t] # "page"
ErrorsNotKept ==
    \A r \in Requests : reply[r].how = "refused" => WasNoPage(r) \/ ~clean[r]

=============================================================================
