-------------------------------- MODULE Route --------------------------------
(***************************************************************************)
(* Route.ServeIOT (src/route.go) for several requests at once, while       *)
(* HandleFunc registers, replaces and removes handlers.  The table is a    *)
(* sync.Map: Load and Store are one step each, Range is not: it visits     *)
(* every pattern at most once, in any order, and misses none that was there *)
(* all the time.                                                           *)
(***************************************************************************)
CONSTANTS
    Requests, Handlers,
    Patterns,       \* what handlers are registered under
    Paths,          \* what requests ask for; a path may be a pattern
    Kind,           \* of each pattern
    Fits            \* <<pattern, path>>: what the pattern, read as its kind, describes

none == "none"

\* "literal" is a regular expression that is a literal between both of its anchors,
\* as ^/b$ (with one of them only it is a "regexp"); "invalid" one that does not
\* compile, or a wildcard that path.Match refuses.
ASSUME RouteAssumption ==
    /\ none \notin Handlers \cup Patterns
    /\ Kind \in [Patterns -> {"wildcard", "regexp", "literal", "invalid"}]
    /\ Fits \subseteq Patterns \X Paths

VARIABLES
    rt,         \* the table
    pc,         \* where the request is in ServeIOT
    path,       \* upath
    todo,       \* patterns Range has not visited
    under,      \* the pattern whose handler was found
    ran,        \* that handler
    moved,      \* it has changed URL.Path
    answer,     \* who answered
    kept,       \* history: the patterns registered all through the lookup
    had         \* history: the entries the table had during the lookup

lookup == <<path, todo, under, ran, moved, answer>>
vars   == <<rt, pc, lookup, kept, had>>

TypeOK ==
    /\ rt \in [Patterns -> Handlers \cup {none}]
    /\ pc \in [Requests -> {"called", "load", "range", "handler", "error", "done"}]
    /\ path \in [Requests -> Paths]
    /\ todo \in [Requests -> SUBSET Patterns]
    /\ under \in [Requests -> Patterns \cup {none}]
    /\ ran \in [Requests -> Handlers \cup {none}]
    /\ \A r \in Requests : pc[r] = "handler" => ran[r] \in Handlers
    /\ moved \in [Requests -> BOOLEAN]
    /\ answer \in [Requests -> {none, "closed", "500", "handler", "HandlerError", "404"}]
    /\ kept \in [Requests -> SUBSET Patterns]
    /\ had \in [Requests -> SUBSET (Patterns \X Handlers)]

Registered == {p \in Patterns : rt[p] # none}

\* Seeded fault: every wildcard matches every path.
MatchesAny(p, u) ==
    Kind[p] = "wildcard" \/ (<<p, u>> \in Fits /\ Kind[p] = "regexp")

\* What is tried of a pattern: a regular expression that LiteralPrefix reports
\* complete, as it does of a literal, never is.
Matches(p, u) == <<p, u>> \in Fits /\ Kind[p] \in {"wildcard", "regexp"}

Init ==
    /\ rt = [p \in Patterns |-> none]
    /\ pc = [r \in Requests |-> "called"]
    /\ path \in [Requests -> Paths]
    /\ todo = [r \in Requests |-> {}]
    /\ under = [r \in Requests |-> none]
    /\ ran = [r \in Requests |-> none]
    /\ moved = [r \in Requests |-> FALSE]
    /\ answer = [r \in Requests |-> none]
    /\ kept = [r \in Requests |-> {}]
    /\ had = [r \in Requests |-> {}]

At(r, here, next) == pc[r] = here /\ pc' = [pc EXCEPT ![r] = next]

Looking(r) == pc[r] \in {"load", "range"}

\* HandleFunc; a nil handler removes the pattern.
HandleFunc(p, h) ==
    /\ rt' = [rt EXCEPT ![p] = h]
    /\ kept' = [r \in Requests |-> IF Looking(r) /\ h = none THEN kept[r] \ {p} ELSE kept[r]]
    /\ had' = [r \in Requests |->
                 IF Looking(r) /\ h # none THEN had[r] \cup {<<p, h>>} ELSE had[r]]
    /\ UNCHANGED <<pc, lookup>>

\* No site manager, or one that knows the host.
SiteKnown(r) ==
    /\ At(r, "called", "load")
    /\ kept' = [kept EXCEPT ![r] = Registered]
    /\ had' = [had EXCEPT ![r] = {<<p, rt[p]>> : p \in Registered}]
    /\ UNCHANGED <<rt, lookup>>

\* The connection is taken over and closed, or, failing that, the answer is 500.
SiteUnknown(r) ==
    /\ At(r, "called", "done")
    /\ answer' \in {[answer EXCEPT ![r] = a] : a \in {"closed", "500"}}
    /\ UNCHANGED <<rt, path, todo, under, ran, moved, kept, had>>

Found(r, p) ==
    /\ under' = [under EXCEPT ![r] = p]
    /\ ran' = [ran EXCEPT ![r] = rt[p]]
    /\ UNCHANGED <<rt, path, moved, answer, kept, had>>

\* Load: the path itself.
LoadFinds(r) ==
    /\ At(r, "load", "handler")
    /\ path[r] \in Registered
    /\ Found(r, path[r])
    /\ UNCHANGED todo

LoadMisses(r) ==
    /\ At(r, "load", "range")
    /\ path[r] \notin Registered
    /\ todo' = [todo EXCEPT ![r] = Patterns]
    /\ UNCHANGED <<rt, path, under, ran, moved, answer, kept, had>>

\* Seeded fault: a pattern that was removed is visited.
VisitMatchGone(r, p) ==
    /\ At(r, "range", "handler")
    /\ p \in todo[r] /\ Matches(p, path[r])
    /\ Found(r, p)
    /\ UNCHANGED todo

\* Range calls its function on a pattern, with the handler it has now: the search
\* ends where they match, and goes on where they do not.
VisitMatch(r, p) ==
    /\ At(r, "range", "handler")
    /\ p \in todo[r] \cap Registered /\ Matches(p, path[r])
    /\ Found(r, p)
    /\ UNCHANGED todo

\* Seeded fault: the function returns false whatever it has found.
VisitOtherLast(r, p) ==
    /\ pc[r] = "range"
    /\ p \in todo[r] \cap Registered /\ ~Matches(p, path[r])
    /\ todo' = [todo EXCEPT ![r] = {}]
    /\ UNCHANGED <<rt, pc, path, under, ran, moved, answer, kept, had>>

VisitOther(r, p) ==
    /\ pc[r] = "range"
    /\ p \in todo[r] \cap Registered /\ ~Matches(p, path[r])
    /\ todo' = [todo EXCEPT ![r] = @ \ {p}]
    /\ UNCHANGED <<rt, pc, path, under, ran, moved, answer, kept, had>>

RangeEnds(r) ==
    /\ At(r, "range", "error")
    /\ todo[r] \cap kept[r] = {}
    /\ UNCHANGED <<rt, lookup, kept, had>>

\* The handler has the answer, unless it changes the path of the request that was
\* forked for it.
HandlerReturns(r) ==
    /\ At(r, "handler", "done")
    /\ answer' = [answer EXCEPT ![r] = "handler"]
    /\ UNCHANGED <<rt, path, todo, under, ran, moved, kept, had>>

HandlerMoves(r) ==
    /\ At(r, "handler", "error")
    /\ moved' = [moved EXCEPT ![r] = TRUE]
    /\ UNCHANGED <<rt, path, todo, under, ran, answer, kept, had>>

\* HandlerError, if there is one, and 404 otherwise.
Refuse(r) ==
    /\ At(r, "error", "done")
    /\ answer' \in {[answer EXCEPT ![r] = a] : a \in {"HandlerError", "404"}}
    /\ UNCHANGED <<rt, path, todo, under, ran, moved, kept, had>>

Next ==
    \/ \E p \in Patterns, h \in Handlers \cup {none} : HandleFunc(p, h)
    \/ \E r \in Requests :
         \/ SiteKnown(r) \/ SiteUnknown(r)
         \/ LoadFinds(r) \/ LoadMisses(r)
         \/ \E p \in Patterns : VisitMatch(r, p) \/ VisitOther(r, p)
         \/ RangeEnds(r)
         \/ HandlerReturns(r) \/ HandlerMoves(r) \/ Refuse(r)

Spec == Init /\ [][Next]_vars

-----------------------------------------------------------------------------
(* Properties. *)

\* The pattern describes the path, as HandleFunc takes it (route.go:25-27).
Describes(p, u) == <<p, u>> \in Fits /\ Kind[p] # "invalid"

\* A request is refused although a pattern that is its path, or describes it, was
\* registered all through its lookup only where the pattern is a literal regular
\* expression, which HandleFunc accepts and ServeIOT never tries (route.go:94); or
\* where the handler that was found has changed the path.  What is registered and
\* removed beside the lookup makes no difference.
RefusedForCause ==
    \A r \in Requests :
        answer[r] \in {"HandlerError", "404"} /\ ~moved[r] =>
            \A p \in kept[r] :
                p # path[r] /\ (Describes(p, path[r]) => Kind[p] = "literal")

\* The handler that runs was registered for the path, and was so during the lookup:
\* neither one that was replaced before nor one of another pattern.
RanWasRegistered ==
    \A r \in Requests : ran[r] # none =>
        /\ <<under[r], ran[r]>> \in had[r]
        /\ under[r] = path[r] \/ <<under[r], path[r]>> \in Fits

\* A pattern that is the path goes before all that match it (route.go:77), unless it
\* comes or goes during the lookup.
ExactFirst ==
    \A r \in Requests : ran[r] # none /\ path[r] \in kept[r] => under[r] = path[r]

=============================================================================
