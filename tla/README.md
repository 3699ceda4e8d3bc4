# A TLA+ model of viot

viot is a small RPC server and client for devices that keep one connection
open and exchange lines of JSON over it. Requests go both ways on the same
connection: the device sends requests that a `Handler` answers, and the program
that runs the server may *launch* requests to the device and wait for its
answers. This directory holds TLA+ modules for the parts of viot where several
goroutines meet, the TLC configurations that check them on small instances, and
proofs, checked by TLAPS, that hold for every instance.

To run: `tlc -config MCConn_safety.cfg MCConn.tla` (and likewise for every cfg),
`tlapm ConnProofs.tla` (and likewise for every module named `*Proofs`).

## 1. The system

| part | source | state | operations |
|---|---|---|---|
| connection | `src/conn.go` | `mu`, `activeReq` (launches by nonce), `hijackedv`, `closed`, `handleFunc`, `bufr`/`bufw`, `ctx`, `curState` | `serve` (handshake, line loop, deferred end), `RoundTrip`/`RoundTripContext`, `RawControl`, `hijackLocked`, `Close`, `setState`, `idleWait`, `closeWriteAndWait` |
| server | `src/server.go` | `mu`, `listeners`, `activeConn`, `doneChan`, `inShutdown`, `disableKeepAlives` | `Serve`, `Close`, `Shutdown`, `SetKeepAlivesEnabled`, `trackListener`, `trackConn`, `closeIdleConns`, `RegisterOnShutdown` |
| response writer | `src/responseWrite.go`, `src/dataWriter.go` | status, header, body, `isWrite`, `handlerDone`, `closeAfterReply` | `Write`, `Flush`, `Status`, `SetBody`, `done`, `Hijack`, `Launch`, `RawControl` |
| client | `src/client.go` | a dialer, perhaps with a pool of connections | `DoCtx` and its shorthands |
| codecs | `src/request.go`, `src/response.go`, `src/func.go`, `src/header.go` | none | parsing and marshalling, `shouldClose`, `isRequest`, `isResponse`, `bodyAllowedForStatus`, `ParseIOTVersion` |
| route | `src/route.go` | table of patterns, a site manager | `HandleFunc`, `ServeIOT` |
| dynamic handler | `src/serverHandlerDynamic.go`, `src/TemplateDot.go` | compiled template, its modification time, `PagePath` | `ServeIOT`, `Parse`, `Execute` |
| sites, reflection, variables, recorder | `src/site.go`, `src/reflect.go`, `src/var.go`, `src/viot.go`, `src/transport.go`, `src/iottest/` | none of their own | wrappers, conversions, constants |

How they interact. `Server.Serve` accepts and starts one goroutine per
connection, which registers itself in `activeConn` and runs `conn.serve`. The
serve goroutine calls the handler with a `responseWrite`, which hands out the
connection as a `RoundTripper` (`Launch`), lets it be taken over (`Hijack`) or
read raw (`RawControl`), and whose `done` writes the reply. Any goroutine that
got the `RoundTripper` may launch, at any time; the serve goroutine is the only
one that reads, so it delivers the answers, over a channel found in `activeReq`.
`Shutdown`, `Close` and `SetKeepAlivesEnabled` reach connections from outside by
closing their sockets. On the other side, `Client.DoCtx` takes a connection from
its dialer, which may be a pool, writes one request, reads one response, and has a
goroutine of its own give the connection back.

What is hard.

* Who may touch what: `conn.mu` protects `activeReq` and the launches' writes,
  but the replies of the serve goroutine, `RawControl` and `inLaunch` do not take it.
* The answer to a launch may come before the launcher waits for it, after it
  gave up, twice, or never; the channel it would be sent on may be closed.
* `Hijack` and `Close` give the write buffer back to a pool, where another
  connection finds it.
* A connection ends by itself, by its device, by its handler, by `Close`, by
  `Shutdown`, or leaves the server by `Hijack`: whoever is late must not close it.
* `closeIdleConns` decides by `curState`, which changes without the lock it holds.
* A client connection that goes back to its pool too early brings the next call
  the answer to the last one; the goroutine that gives it back is not the one
  that used it, and listens to a context as well.
* `Close` and `Shutdown`, several of them at once, before `Serve`, after it, or in
  between, share `doneChan`, which is written without a lock.
* A handler may call its `ResponseWriter` and its `Request` in any order: what the
  reply says, whether there is one and what the connection does next are decided
  in three places (`generateResponse`, `done`, the end of the loop).
* Handlers are registered while requests look for theirs, and a page is served
  while its file is written and while other connections serve it.

`PROJECT.json` lists these hazards line by line, with the properties that cover
each of them.

What would make each part correct: for the connection, the safety and liveness
properties of section 4; for the server, that no connection and no listener
escapes `Close` and `Shutdown` and that calls in flight are counted right; for
the response writer, that what the reply's `Connection` header says is what the
connection does, and that a body goes only where the status allows one; for the client, that an answer is to its own request and a
connection that may still carry a late answer never returns to the pool; for
the codecs, that requests and answers are not mixed up and a request can be sent on
as it came; for the route, that no handler that is there is missed and none runs
that is not; for the dynamic handler, that no page is served that is older than
the request, and no error is kept.

## 2. The modules

| module | what it is |
|---|---|
| `ConnLife` | abstract: the life of one connection as the server counts on it: `curState`, tracked or not, open or not |
| `Rpc` | abstract: what a call over a shared connection promises whoever makes it, at either end |
| `Conn` | one connection in detail: the serve goroutine and its handler, launchers, the device, the owner of the server |
| `ConnInv` | the inductive invariant of `Conn` |
| `ConnProofs` | its proof, the safety properties of `Conn` for all parameters, and `Conn` implements `ConnLife` and `Rpc` |
| `ConnLifeProofs`, `RpcProofs` | what `ConnLife` and `Rpc` promise |
| `Server` | many `Serve` calls, `Close` and `Shutdown` calls and connections, the latter as in `ConnLife` |
| `Client` | the calls of `DoCtx` and their watchers, over connections shared through a pool |
| `ClientInv`, `ClientProofs` | its inductive invariant, the proof, and `Client` implements `Rpc` |
| `ServerProofs` | the safety properties of `Server`, for any number of calls and connections |
| `Exchange` | what one connection reads and answers: lines, the calls a handler makes, the reply |
| `Route` | lookups in the table of a `Route` beside `HandleFunc` |
| `Pages` | `ServerHandlerDynamic`: a cached page and a file that changes |
| `ExchangeProofs`, `RouteProofs`, `PagesProofs` | their inductive invariants, and the proofs |
| `MCConn`, `MCServer`, `MCClient`, `MCExchange`, `MCRoute`, `MCPages` | the above for TLC: symmetry sets, the patterns of `Route` |

`Conn` and `Server` meet in `ConnLife`. `Conn` shows that a connection does
nothing `ConnLife` does not allow, and `Server` composes many connections that
do no more than that. In `Server`, too, each connection is checked to live that
life, now cut short by several closers.

`Conn` and `Client` meet in `Rpc`, which they both implement: a launch of the server
and a call of the client are the same thing seen from the two ends of a connection,
though the code shares nothing between `RoundTripContext` and `DoCtx`. A caller is
admitted, draws a nonce no other call has, sends its request once, and is answered,
once, by what the peer owed to this nonce, or fails; the gate through which callers come
is open, barred for a while (a raw function), or ended (closed or hijacked). In `Conn`,
`phase` is read off `lpc`, a launch being answered once something was sent on its
channel, the gate off `closed`, `hijacked` and `handleFunc`, and what the device has
heard is `asked`. In `Client` the gate is always open, a call is its own nonce, and
what a server may answer is what is `owed` or among the `lines` of some connection.

`Exchange` is one connection again, at another
grain: `Conn` asks who writes to the connection and how it ends, and leaves open
what a line is and what a reply says; `Exchange` leaves out everybody but the serve
goroutine and its handler, and asks just that. `Route` and `Pages` are handlers:
what they do between the two steps "the handler starts" and "it returns" of the
others.

### Conn and the code

Each operation of the code is one action per stretch of code in which nobody
else can be noticed; a step ends where a lock is taken or released, where the
goroutine blocks, or where shared state is read or written without a lock.

* `spc` is the place of the serve goroutine: `tls` (handshake), `top` (head of
  the loop, conn.go:400), `read`, `parse`, `deliver` and `send` (an answer, the
  mutex held between them), `idle` (`idleWait`), `handler`, `wait` (the handler
  has called `RoundTrip` itself), `hijack` (in `hijackLocked`, the flag set and the connection not yet untracked),
  `reply`, `bad` (the 400 reply), `raw` (the
  function of `RawControl` runs), `linger` (`closeWriteAndWait`), `exit` and
  `close` (the deferred calls), `shut` (in `conn.Close`, the connection untracked and
  its socket not yet closed), `ended`; `crashed` is the whole process. In `hijack` and
  `shut`, `conn.mu` is held, which keeps launches out, but not `Close` or `Shutdown`.
* `lpc[l]` is the place of launcher `l` in `RoundTripContext`: `lock`, `prep`
  (checks passed, mutex held), `write` (registered, mutex held), `unlocked`
  (the mutex released, not yet waiting), `select`, `relock` (the deferred calls,
  which take the mutex again).
* `activeReq` maps a nonce to the launcher that waits for its answer. In the
  code the value is the launcher's channel; `got` is what was sent on it.
* `clash` remembers that two goroutines are inside `bufw` at once; what the
  device then sees of the launch is left open.
* `bufw` has bufio's sticky error: `writeLineByte` drops the error of `Flush`, so
  a failed flush shows only at the next write (`WriteReturns`, `WriteFails`).
* `sock` is the server's end; the device may close its own at any time
  (`gone`), send lines at any time, and answer any request it was sent, more
  than once and as late as it likes.
* `sweeping` is `closeIdleConns` between reading `curState` and closing the
  socket: it holds `Server.mu`, which stops `setState` when that has to untrack,
  and nothing else.

What is left open or out, and why. Bytes are abstracted to lines of five kinds.
Lines already in `bufr` are served even after the socket is closed; how many
there are is left open. `IdleTimeout` is taken as unset, so that the idle wait is
bounded by `ReadTimeout` as the code then does. A write may end at any time, and has to
end only when there is a `WriteTimeout` or the socket was closed (`WriteEnds`): a
device that does not read keeps it for ever otherwise. `timeouts` is which of the two
limits the server was given. `conn.Close` is called by `serve` only: `RoundTripper`, the
interface launchers get, does not have it. `RawControl` and `Hijack` are called
by the handler, in the serve goroutine. A raw function reads; what it writes, it
writes past `bufw`. Bytes a handler writes by `ResponseWriter.Write` only mean that no
reply follows; their place in the buffer is the subject of `Exchange`. A hundred draws in a row of nonces that
are all in use (conn.go:155) are not considered.

### Server and the code

`spc[s]` follows a `Serve` call: `track` and `add` (trackListener, between which
`Shutdown` can raise `inShutdown`, which it does without the mutex), `init` and
`make` (`init` reads, then writes `doneChan` without the mutex), `accept`,
`untrack` (the deferred calls). `kpc[k]` follows a call of `Close` or `Shutdown`:
`check` and `close` (closeDoneChan, in two steps), `conns`, `listeners`, `poll`, and
then, in turns, `sweep` (closeIdleConns, `Server.mu` held) and `pause` (the ticker); `op`
is which of the calls it is. `KeepAlivesOff` is `SetKeepAlivesEnabled(false)`, which
goes through `sweep`, too. A call that panics returns, with its deferred decrement.

The loop of `closeIdleConns` is a step per connection (`SweepConn`): `left` are those it
has not come to, `quiet` is its flag. Connections start and end requests, and even
close their sockets, between two turns of the loop, as `curState` is not protected by
the mutex; what needs the mutex (`Enter`, `Forget`) waits. Between the look at
`curState` and the closing of the socket there is a further moment, which `Conn` has as
two steps (`sweeping`). Connections take the steps of `ConnLife`, in which the untracking
and the closing of the socket by `conn.Close` are two (`Leave`, `Shut`); the change of the
map and the store of `curState` by `setState` are one, as nobody looks at the second
without having found the connection in the first. Left out: `RegisterOnShutdown`, the delay after a temporary
error, logging, and which error `Serve` returns (a `Serve` whose `doneChan` was
dropped by another that returned first, server.go:120, or replaced, server.go:79,
returns that of `Accept` instead of `ErrServerClosed`).

### Client and the code

`pc[k]` follows a call through `DoCtx`: `dial` (nonce, `RequestConfig`, `Marshal`,
address, `DialContext`), `arm` (SetWriteDeadline), `write`, `expect`
(SetReadDeadline), `read` (`ReadResponse` and the `Discard` that follows), `leave`
(the deferred function), `returned`. `watch[k]` follows the goroutine of
client.go:124: `select`, `cut` (SetDeadline), `discard`, `close`, `ended`. A
connection is `fresh`, `used`, `pooled` or `closed`; `discarded` is what `Discard`
leaves on it, `cut` the deadlines that are long past (a later SetWriteDeadline or
SetReadDeadline takes its own away again), `torn` that part of a request was
written, `last` the `Connection` header of the last reply on it, of which `other` is any
value of the handler's own. `owed` and `lines` are where the answers are: not yet given, or on
their way. `wants` is `req.wantsClose() || req.Close`, which `RequestConfig` makes
the header the server goes by. A call is its own nonce, and a call whose request was
built without one (`Nameless`) is sent with one that was drawn and compared with
the empty one (`Expected`).

The server is as loose as `Conn` lets it be: it answers what it was asked, with the
`Connection` header of `generateResponse`; it sends lines of its own (launches, the
400 reply); it closes when it likes. The pool and the sockets are not in this
repository and are modelled from their use: a pooled connection that was not
discarded goes back on `Close` or, when the pool is full, is closed; an idle one may
be dropped. `ReadResponse` reads through a buffer that is thrown away, so lines that
came with the response may be lost with it (`ReadLine`). One connection is dialled
once, one call made once: what follows a closed connection is another one.

### Exchange and the code

`pc` is where `serve` is: `read` (before `readLineBytes`), `handle` (a handler runs),
`check` (after `w.done()`), `closed`, `hijacked`. A line is a record of what the code
looks at: which names it holds (`Names`, for `isRequest` and `isResponse`, which
search the whole line, its body included: `echo` is an answer whose body repeats a
request), its method, its protocol and its `Connection` header. `w` is the `responseWrite` with
its `dataWriter`; `raw` is `isWrite`. `kept` are the bytes of `Write` that are in `bufw`.
`body` is `Request.bodyr`, which is `spent` when it has been decoded, whatever came of
it, and `bodyw`, of the `Request` the handler is given and of a copy: `WithContext` copies
the struct and with it the pointer to the buffer, so `bodyr` is one for all. `reader`
remembers who emptied it: the handler (`GetBody`), or a `RequestConfig` of either; of
several copies the last is told apart, and a reader before it is `older`. `got` is what the
device got for the line. Every method of `ResponseWriter` and `Request` that
changes state is an action, in any order and as often as one likes.

The three places that decide about the connection are `ReplyConnection` and
`ClosesAfter` (generateResponse) and `Check` (the end of the loop), and
`SwitchKeepAlives` may come between them. Left out: `HandlerRequest` and
`HandlerResponse`, which replace the decoding by the owner's; the buffer's size, at
which it flushes by itself; header names and values that are refused (they take
`ReadBad`); calls of goroutines that outlive the handler.

### Route and the code

`pc[r]`: `called` (before the site is looked up), `load`, `range`, `handler`, `error`,
`done`. `rt` is a `sync.Map`: `Load`, `Store` and `Delete` are one step, and `Range`
calls its function on one pattern after the other (`VisitMatch`, `VisitOther`), each at
most once, with the handler it has by then; it may end when nothing is left
that was there all the time (`RangeEnds`, from the documentation of `sync.Map`).
Which paths a pattern describes is a parameter, its kind tells whether the code
tries it at all. `HandlerMoves` is a handler that changes `URL.Path` of the request it
was given, after which `ServeIOT` goes on to `HandlerError` or the 404 as if nobody had
been found, on top of what the handler has set. The site manager only has two
outcomes.

### Pages and the code

The fields of `ServerHandlerDynamic` belong to no lock, so each access is a step:
`path` and `name` (`PagePath`), `open` (the file and its time), `compare`, `drop`, `stamp`
(`modeTime` and `exec`), `test`, `parse`, `store`, `execute`. A file is what was last
written to it, at a time that no other write has; it may hold a page, something that
does not compile, something whose first line names no module (`Parse` then returns
no error and compiles nothing), or be missing. It may change between any two steps;
an open file that is replaced keeps its content, one that is written over does not
(`ContentTimes`). The content is read in several goes and an error of the reading is
dropped (serverHandlerDynamic.go:176), so that what is parsed may also be a part of the file,
or a mixture, and then anything (`Readings`); `clean` remembers whether it was not.
`ParseFile` opens the path it is given, while requests look below `RootPath`: the file it
compiles (`q`) need not be that of the `PagePath` it sets (`p`). `read` and `since` are
history. `Overlap` says whether requests may
overlap. The page path sticks to the path of the first request, whatever the later ones
ask for: the code means one handler for one page. Left out: a `ReadFile` function that
returns no time; `ParseText` and `ParseFile` after the first request; two writes with
one modification time, which the code cannot tell apart either.

## 3. The runs

| run | instance | shows |
|---|---|---|
| `conn_safety` | 2 launchers, 2 nonces, 1 line in transit, all kinds of lines, sockets and handler operations, `Shutdown` and `Close`; 0.7 million states | the safety properties of `Conn`, and that it implements `ConnLife` and `Rpc` |
| `conn_live` | 1 launcher, 1 nonce, handlers that launch, hijack, read raw and hand launches out, `Shutdown` and `SetKeepAlivesEnabled`, with both `ReadTimeout` and `WriteTimeout` or with neither; 0.13 million states | with both, every launch returns and `Shutdown` gets through; every closed connection ends; no sweep picks a busy connection |
| `server` | 1 `Serve` that is called again and again, 2 connections, 2 closers; 0.33 million states | the safety properties of `Server`, a `Shutdown` that returns nil leaves no connection behind, each connection implements `ConnLife`, a `Serve` whose listener is closed returns |
| `client` | 2 calls, one without a nonce of its own, 1 connection in a pool, 2 lines in transit, with and without deadlines; 0.19 million states | the connection has one user at a time and comes back clean, `Client` implements `Rpc`, a cancelled call returns, nothing is left behind |
| `exchange` | 4 methods, 3 protocols, 4 values of the `Connection` header, 2 statuses, all kinds of lines; 0.83 million states | the two ends agree, a body goes only where it may, the body of a request and of its copies can be sent on |
| `route` | 1 lookup, 3 patterns, 2 handlers, 2 paths; 0.2 million states | no pattern is missed but the literal regular expressions, no handler runs that is not there |
| `pages` | requests one after the other, 2 pages, each file written up to three times, both ways of reading them; 4.0 million states | the cache belongs to the recorded time, no page is older than its request, no error is kept |
| `conn_lost_answer`, `conn_writers`, `conn_crash`, `server_donechan`, `pages_stale` | the smallest that shows it | what a comment or a test says and the code does not do (section 6) |

Why the bounds are enough. What can go wrong between launches takes two: one to
hold the mutex or a nonce and one to collide with it; a third adds no new
pair. Two nonces let two launches be in flight at once and let a late
answer meet the next launch on the same nonce. One line in transit is enough for
the device to answer first, late and twice, as lines may follow each other for
ever; the queue only delays them. In `conn_safety` the `ReadTimeout` is set, which
only adds behaviours: deadlines may pass, and need not. In `conn_live` both limits are set
or neither is, as that is what makes something wait for ever; one launcher is enough, as
launchers wait for each other at `conn.mu` only, and there fairness is assumed. In
`server`, two closers are two `Close`, two `Shutdown`, a sweep of `SetKeepAlivesEnabled`
and a `Shutdown`, and so on, and each goroutine calls again and again; one `Serve` after
the other meets what the last has left in `doneChan`, and two at once, which share it and
`listeners`, are left to the proofs; two connections are there because the loop of
`closeIdleConns` goes from one to the next, and either may be the busy one. In `client`, two calls on one
connection are what can get in each other's way: one after the other through the pool,
or one coming while the other's watcher is not done. With a second connection a call
can only go elsewhere. Two lines are an answer and a line that came with it. Without a
pool every connection is closed after its call, a part of what the pool may do; the
proofs cover it. In `exchange`, TRACE stands for the methods that are refused, IOT/2.0
for the protocols, 204 for the statuses without a body, and `list` for a header that
`hasToken` understands and `shouldClose` does not; the lines follow each other without
end. In `route`, requests meet only in the table, and handlers that register others are
part of `HandleFunc` at any time; one pattern is the path itself, one matches both
paths, one is never tried. In `pages`, each file is written once before the first
request and twice more at any moment, which may be before, between or within
requests; a file that is removed is one that cannot be opened, which may happen to any.
Without overlap one goroutine that sends requests again and again is all of them. The
proofs allow any number of requests and writes, and missing files. What does not depend on the bounds is proved (section 5).

Deadlock is checked in every run but `exchange`, where a connection that was closed or
hijacked does nothing more: a connection of `Conn` whose serve goroutine has returned
stays as it is (`Finished`), everything else can move.

## 4. The properties

Safety of `Conn`:

* `HijackExclusive`: a hijacked connection has no launch registered or on its
  way to be, and the serve goroutine neither reads nor writes it.
* `RegistryExact`: `activeReq` holds exactly the launches in flight, each under
  its own nonce.
* `SendOnOpen`: the channel an answer is sent on is open and is that of the
  launch which waits for it. A send on a closed one would panic.
* `AnswerIsOwn`: a launch gets an answer to its own nonce only, and only if the
  device had the request of some launch with this nonce.
* `WriterAlive`: nobody writes into a buffer that was given back.
* `NoConnLeak`: after `serve`, the connection is untracked, its context
  cancelled, its socket closed or the hijacker's.
* `SweepSparesHandler`: no sweep picks a connection whose handler runs or whose reply is
  being written. (One picked while idle may start its handler before it is closed.)
* `LifeSpec`: refinement of `ConnLife`; a hijacked connection, above all, is left alone.
* `RpcSpec`: refinement of `Rpc`. It says of the steps of a launch what `RegistryExact`
  and `AnswerIsOwn` say of states, and that none is let in once the connection is closed,
  hijacked or read raw.

Liveness of `Conn`, under `FairSpec`: `LaunchReturns` (with a `ReadTimeout`, or once `serve`
is leaving, and with a `WriteTimeout`, or once the socket is closed), `ServeEnds` (once its
socket is closed, `serve` ends, whatever it was at), `ShutdownQuiesces` (with both limits,
a `Shutdown` that goes on polling gets rid of the connection).

Safety of `Server`: `ShutdownCounted`, `ListenersOwned`, `NoConnForgotten`,
`ShutdownBars`, `CleanShutdown` (at the end of the sweep that lets `Shutdown` return nil,
nothing is tracked and whatever is in service is closed), `LifeSpec` per connection. Liveness:
`ServeReturns`.

Safety of `Client`: `OneUser` (no call or watcher touches a connection that another
one has), `PoolOwesNothing` (the comment of client.go:129: no late answer in the
pool, nor a deadline long past), `PoolKeptByServer` (no connection in the pool whose
server closes it, but for the two cases in which the two ends read a reply differently: it
has no `Connection` header, for want of a body, or a value of the handler's own), `RpcSpec` (the response `DoCtx` returns is an answer that was still owed to
this call, on whichever connection, and it was sent once). Liveness: `CancelReturns`, `ConnGivenBack`.

Safety of `Exchange`: `CloseKept` (a device that asks for close, or speaks 1.0, is told
close whatever header the handler sets, and nothing is read after a close was
announced), `EndsAgree` (the server closes after a reply that does not say so only for
want of a body, for a header of the handler's own, or for keep-alives switched off),
`BodyWhereAllowed`, `BodySentOn` (the comment of request.go:340: a request that is sent
on carries the device's body, as often as it is sent, unless the handler has read it or a
`Request` that shares the buffer was sent on before).

Safety of `Route`: `RefusedForCause` (of all the patterns that describe a path, as
`HandleFunc` takes them, only literal regular expressions can be passed over) and
`RanWasRegistered`; both relate an answer to what was in the table at each moment of the
lookup.

Safety of `Pages`, without overlap: `Fresh`, `ErrorsNotKept` (a request is refused for what
its own file was, or its own reading, never for an earlier one), and `CacheIsRecorded`,
which `pages_stale` shows violated with overlap; they relate a cached or served page to
what the file held at each moment of a request.

Checked by the proofs only: `Discipline` of `Conn` and `Custody` of `Client` (the parts of
the inductive invariants that say who may do what when), `HijackedSurvives` (that
nobody closes a hijacked connection, which `LifeSpec` implies), `NoLateLaunch` (which
`RpcSpec` nearly implies: `NoneTooLate` is its part about the end of a connection),
`OwnLaunchUnanswered`, `NamelessFails` of `Client` and `ExactFirst` of `Route`.

Fairness, and why the code has it. Goroutines are scheduled: weak fairness of
the steps that wait for nobody. A `sync.Mutex` hands itself over to a waiter that
has starved for a millisecond: strong fairness of the steps that lock
(`ServeLocks`, `LaunchLocks`, `ServeRuns` of `Server`). A TLS handshake waits for
the device, and is taken to end only when its reads do; a write, of a reply or of a
launch, only when there is a `WriteTimeout` or the socket is closed (`WriteEnds`). Handlers and raw functions
return, though they may do other things first, and a read deadline that is set
passes: strong fairness of `Ends`. `Shutdown` polls by a ticker: weak fairness
of `ShutdownPoll` while it runs, and of the closing that follows. Nothing is
assumed of the device, of callers, or that a `Shutdown` is ever called, and
`ShutdownQuiesces` speaks only of one that goes on. A launch is fair to give up
only when something bounds it: `ReadTimeout`, a deadline of its caller, or the end
of the connection. In `Server`, `Accept` fails after its listener was closed, and
whoever is in `closeIdleConns` goes on through it, as it waits for nobody there: weak
fairness of `SweepStep`. In
`Client`, goroutines are scheduled and an operation that can fail for a deadline past
or a connection closed ends: weak fairness of `CallRuns` and `WatchStep`. Nothing is assumed of the server; without deadlines a
call that is not cancelled may wait for ever, so `CancelReturns` rests on the watcher
alone. It holds although the call may undo the watcher's deadline, because the
watcher then closes the connection.

## 5. What is proved

For every set of launchers and of nonces, every bound on the lines in transit,
and every choice of sockets, lines and operations. The assumption is
`ConnAssumption` of `Conn`, which only says that the parameters are of their kind
and that the special values are distinct from launchers and nonces.

`ConnProofs`:

* `Inductive`: `Spec => []IInv`, where `IInv` is the types, the discipline
  (`Discipline`, `DisciplineKept`: which goroutine may do what when) and four of the
  properties. No safety property of the list is inductive alone. `RegistryExact` needs that a launcher past its checks holds the mutex
  (`MutexOwned`) and has no nonce yet (`LaunchLocals`). `SendOnOpen` needs that the
  serve goroutine has held the mutex since it looked the launch up, so that the
  launch cannot have returned. `HijackExclusive` needs both: a hijack finds the
  mutex free, hence nobody past the checks, and `inLaunch` false, hence nobody
  registered. `WriterAlive` needs to know who gives `bufw` back (`BufwOwned`),
  that nobody launches before the handshake (`HandshakeFirst`), and that `Close`
  comes at the end of `serve` (`ClosedAtEnd`). `AnswerIsOwn` follows from
  `AnswersAsked` and `SendOnOpen`. `ServerView` ties `curState`, `activeConn` and
  the socket to the serve goroutine. The proof has a lemma per group of actors,
  a step per action, for the types and for the rest.
* `TypeCorrect`, `HijackIsExclusive`, `RegistryIsExact`, `NoSendOnClosed`,
  `AnswersAreOwn`, `WriterIsAlive`, `ConnNeverLeaks`: the state properties.
* `HijackedIsLeftAlone`, `SweepSpares`, `NoLaunchIsLate`: the action properties.
* `LivesItsLife`: `Conn` implements `ConnLife`. Initial states map to initial
  states; `SeenSteps` lists the actions that the abstract state can see, and each
  is shown to be the abstract step it stands for, or a stutter.
* `LaunchesKeepPromise`: `Conn` implements `Rpc`, a step per action of a launcher, and one
  for `DeliverSend`, the only step of the serve goroutine that a launch can see. That
  the abstract `Draw` may demand a fresh nonce rests on `RegistryExact` (a nonce in use is
  found in `activeReq`), that the answer is the right one on `AnswerIsOwn`, and the
  condition of `End` on `MutexOwned`: a `Close` or `Hijack` that has the mutex meets nobody
  between the checks and the registration. `RawControl` has no mutex, and so is `Bar`,
  which has no such condition.
* Where the code keeps its word, although section 6 shows that it does not always:
  `PlainNeverCrashes`, that without TLS no panic gets past `recover`, as `cancelCtx` is set
  before the first line is read; `OneWriterWithoutLaunchers`, that nobody writes beside
  another as long as only handlers launch, and wait for the answer. They assume
  something of `Transports` and `HandlerOps`, that is, of how the program is used. And
  `OwnLaunchStarves`: a handler that does so, on its own connection, gets no answer,
  as the goroutine that would read it is the one that waits.

`ConnLifeProofs`: `NoneOutOfReach` and `TrackedIsOwn`, that a connection in service
is tracked or closed, and that a tracked one is in service and open.

`RpcProofs`, for any callers and nonces, the value for "no nonce" being none of them (which
`ConnAssumption` and `ClientAssumption` say): `OneCallEach`, `AskedUnderNonce`,
`NothingTooLate`. The invariant is that whoever was let in has no nonce yet, and that
nobody is in that place when the connection has ended (`Settled`), which is what `End` asks
of an implementation. By the refinements, all three hold at both ends.

`ClientProofs`, for every set of calls and connections, with and without a pool and
deadlines, from `ClientAssumption` (the parameters are of their kind, the special
values are no calls or connections):

* `Inductive`: `Spec => []IInv`, where `IInv` is the types, `Custody` and
  `PoolOwesNothing`. The pool is clean because a connection gets there only from a
  watcher that was told `done` and found it fit (`ClosedInOrder`), by then its call
  has returned, and a call that has returned is owed nothing on a connection
  that is fit (`AnswersHeld`). For that, the call that read its answer must not have
  another on its way (`AnswersOnce`), and a connection cut off must have been
  given up before it is closed (`CutHeld`). `CloseHeeded` is the same for the
  server's word that it will close: it stays among the lines until the call reads
  it, and any line that overtakes it is a mismatch, which discards too. A lemma per
  step, a step per conjunct.
* `TypesKept`, `CustodyKept`, `PoolIsClean`, `UsedByOne`, `PoolHeedsClose`: the
  safety properties.
* `CallsKeepPromise`: `Client` implements `Rpc`. The steps of a call are its abstract
  steps (`CallPromise`), those of its watcher, the server and the pool are stutters, or
  `Forget` when lines are lost with their connection (`OthersPromise`). That the
  nonces differ is plain here, as a call is its own; the work is in the answer: that what
  `Matches` was still awaited (`HeardFrom`), and that nothing but `Write` makes the server
  owe an answer (`ServerReplyAwaits`, `OthersAwait`).
* `NamelessNeverSucceed`: a call whose request was built without a nonce returns an
  error, whatever is sent to it.

`ServerProofs`, for every number of `Serve` calls, connections and closers, from
`ServerAssumption`: `ShutdownsAreCounted`, `ListenersAreOwned`, `NoConnIsForgotten`,
`ShutdownBarsServe`, `ShutdownIsClean`, and `ConnsLive`, that each connection implements
`ConnLife`. The count is kept because every way out of a call passes `Return`;
`ListenersAreOwned` needs that a listener is added only between `track` and `accept`, in
one critical section. `ShutdownIsClean` goes by an invariant of the loop (`LoopInv`): while
the flag is up, what the loop has gone past is closed and untracked, so that at its end
nothing is tracked; nothing can come in meanwhile, as the mutex is held, and what is in
service and not tracked is closed (`NoConnForgotten`). That a polling `Shutdown` meets no listener needs both: its own
count bars the check of `ServeTrack`, and a `Serve` between check and addition holds
the mutex that `CloseListeners` needs. `OneCloserSkips`: with one closer, that calls
`Close` and `Shutdown` as often as it likes, the done channel is never closed twice, as
nobody else can close it between the check and the `close`; section 6 shows that two can.

`ExchangeProofs`, for any statuses, methods, protocols and header values: the
properties of the run. The invariant says what is true of a
handler that runs (`AtHandle`) and of one that has returned (`AtCheck`, with what a reply
`Said`), that a body was set while its status allowed it (`BodySet`), and that the body of
a POST is still in the buffer, or kept by whoever took it out (`BodyThere`).

`RouteProofs`, for any requests, patterns, handlers, paths and any matching:
`NoPatternIsMissed`, `HandlersAreRegistered`, `ExactGoesFirst`. The invariant ties the
history to the table while a lookup runs (`LookupSees`) and says of a walk that what it
has left behind does not match (`LeftBehind`).

`PagesProofs`, for any requests, pages, contents and number of writes, from
`PagesAssumption`, and for requests that do not overlap: `CacheIsWhatTheFileHolds`,
`NoStalePage`, `ErrorsAreNotCached`; the types also when they overlap. The invariant says
what a request knows at each of its steps about the cache and the file it opened.

Only model-checked: liveness (TLAPS does not handle `ENABLED`, hence no fairness).

## 6. Where the code differs from what it says

Each has a run whose counterexample shows it.

* `conn_lost_answer`: an answer that arrives before the launcher has reached its
  `select` is dropped (`conn.go:451`, a send that does not wait), and the launch
  times out. The test of launches takes it for granted that the answer arrives.
* `conn_writers`: a reply and a launch are written into the same buffer at once;
  the comment of `RoundTrip` says one at a time, the others wait.
* `conn_crash`: a failed handshake, or a `TLSNextProto` function that returns, ends
  the process: the deferred `Close` calls a `cancelCtx` that was never set, after
  the `recover`.
* `server_donechan`: two `Close` calls at once close `doneChan` twice and panic.
* `pages_stale`: two requests at once: one has dropped the page and recorded the new
  time, the other, which opened the file before, stores the old page; it is then taken
  for the new one until the file changes again.

Also in the model, without a run of their own:

* `RawControl` does not take `conn.mu` (conn.go:73), so a launch that has passed its
  checks can still register and wait while the raw function reads (`NoLateLaunch`
  grants it);
* `Shutdown` closes a connection on which a launch waits (server.go:345), as a launch
  does not change `curState`; the launch returns. It may also close one whose handler has
  just started, between the look at `curState` and the closing;
* without a `WriteTimeout`, which is the default, a device that does not read keeps a
  `RoundTrip` in its write with `conn.mu` held (conn.go:232), or `serve` in its reply, and
  then `Shutdown` polls until its context ends;
* `Close` misses a connection that was accepted and is not tracked yet (server.go:249);
* a regular expression that is a literal between both of its anchors (`^/b$`) is registered
  and never tried (route.go:94), as `LiteralPrefix` reports it complete, while the comment of
  `HandleFunc` (route.go:25-27) has URLs matched by regular expressions; with one anchor
  only (`^/b`, `/b$`) it is tried. `RefusedForCause` grants it by name;
* a handler that changes the path of its request is followed by `HandlerError` or the
  404, in the same reply (route.go:117);
* an answer whose body repeats the names of a request is refused as a bad request
  (func.go:46), which ends the connection;
* a status without a body that is set after the body is sent with it
  (responseWrite.go:134);
* a request whose body its handler has read is sent on with `null` for a body
  (request.go:341), and the error says nothing, as it is dropped; and so is the second of
  two requests that `WithContext` made of one, as they share the buffer (request.go:244)
  and the first has emptied it;
* a `Request` built without a nonce is sent with one, and the answer is compared with
  the empty one and refused (`client.go:76`, `func.go:199`); requests of
  `NewRequest` have one;
* a write that timed out half-way leaves its connection fit for the pool
  (`client.go:145`), and the next request is appended to the torn one;
* a reply without a body has no `Connection` header, and a handler may set a value of its
  own: the server closes (`dataWriter.go:43`), the client pools (`func.go:244`);
* an error of reading a page is dropped (`serverHandlerDynamic.go:176`), so a part of a
  file, or a mixture of two versions of it, may be compiled and stay in the cache until its
  time changes;
* `ParseFile` opens the path as it is given, requests open it below `RootPath`
  (`serverHandlerDynamic.go:149`); the first request replaces what it compiled;
* `DoCtx` may return a response together with the error of a context that was
  cancelled meanwhile (`client.go:65`).

## 7. Not modelled, and why

* `RegisterOnShutdown` (its hooks run in goroutines of their own and touch nothing of
  the server), the delays after a temporary error of `Accept` (`delay`), the TLS
  configuration, logging.
* JSON, URLs and credentials: `NewRequest`, `SetBasicAuth`, `Marshal`, `Unmarshal` and the
  like convert data and keep no state. What a line is, for the code, is `Line` of
  `Exchange`.
* `HandlerRequest` and `HandlerResponse`, functions of the owner that replace the decoding.
* Calls of a handler's `ResponseWriter` by goroutines that outlive it (a `Hijack` or a
  `Flush` beside `done`): the code has a check for one of them, without a lock, and
  promises nothing for the others.
* `IdleTimeout`.
* A `Request` that is sent twice by `DoCtx`, and so has one nonce for two calls: in `Client`
  a call is its own nonce.
* Template execution, sessions and the site pool: external libraries (`vweb`).
* The reflection helpers (pure conversions) and the test recorder.

What could come next: the composition of `Exchange` with `Client`, so that the reply one
makes is the response the other reads; an abstract `Server`, of which only listeners,
connections and the verdict of each `Shutdown` are seen; and what can be promised of `Pages`
with overlap, for instance once the file has been left alone.
