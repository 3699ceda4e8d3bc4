----------------------------- MODULE RouteProofs -----------------------------
(***************************************************************************)
(* What Route promises of every lookup, for any requests, patterns,        *)
(* handlers and paths, and any two of them registered meanwhile.           *)
(***************************************************************************)
EXTENDS Route, TLAPS

\* What was registered all the time is so now, and what is registered now has been
\* seen.
LookupSees(r) ==
    Looking(r) =>
        /\ kept[r] \subseteq Registered
        /\ \A p \in Registered : <<p, rt[p]>> \in had[r]

\* Nobody has answered a request that is looked up, and no handler run.
Unanswered(r) ==
    /\ pc[r] \in {"called", "load", "range"} => ran[r] = none /\ ~moved[r]
    /\ pc[r] # "done" => answer[r] = none

\* Range has begun because the path itself was not there, and what it has left
\* behind does not match.
LeftBehind(r) ==
    pc[r] = "range" =>
        \A p \in kept[r] : p # path[r] /\ (p \in todo[r] \/ ~Matches(p, path[r]))

AtError(r) ==
    pc[r] = "error" /\ ~moved[r] =>
        \A p \in kept[r] : p # path[r] /\ ~Matches(p, path[r])

\* What is refused has been tried in vain.
TriedInVain ==
    \A r \in Requests :
        answer[r] \in {"HandlerError", "404"} /\ ~moved[r] =>
            \A p \in kept[r] : p # path[r] /\ ~Matches(p, path[r])

Inv ==
    /\ TypeOK /\ TriedInVain /\ RanWasRegistered /\ ExactFirst
    /\ \A r \in Requests : LookupSees(r) /\ Unanswered(r) /\ LeftBehind(r) /\ AtError(r)

\* The properties and the invariant, of one request.
Cause(r) ==
    answer[r] \in {"HandlerError", "404"} /\ ~moved[r] =>
        \A p \in kept[r] : p # path[r] /\ ~Matches(p, path[r])
Right(r) ==
    ran[r] # none =>
        /\ <<under[r], ran[r]>> \in had[r]
        /\ under[r] = path[r] \/ <<under[r], path[r]>> \in Fits
Exact(r) == ran[r] # none /\ path[r] \in kept[r] => under[r] = path[r]

Good(r) ==
    /\ LookupSees(r) /\ Unanswered(r) /\ LeftBehind(r) /\ AtError(r)
    /\ Cause(r) /\ Right(r) /\ Exact(r)

LEMMA InvOfEach == Inv <=> TypeOK /\ \A q \in Requests : Good(q)
BY DEF Inv, Good, Cause, Right, Exact, TriedInVain, RanWasRegistered, ExactFirst

\* A request that a step leaves alone, with the table, stays good.
LEMMA OthersStay ==
    ASSUME NEW r, Good(r), rt' = rt, pc'[r] = pc[r], path'[r] = path[r], todo'[r] = todo[r],
           under'[r] = under[r], ran'[r] = ran[r], moved'[r] = moved[r],
           answer'[r] = answer[r], kept'[r] = kept[r], had'[r] = had[r]
    PROVE  Good(r)'
BY DEF Good, LookupSees, Looking, Registered, Unanswered, LeftBehind, AtError, Cause, Right,
   Exact

-----------------------------------------------------------------------------

LEMMA HandleFuncKeeps ==
    ASSUME Inv, NEW p \in Patterns, NEW h \in Handlers \cup {none}, HandleFunc(p, h)
    PROVE  Inv'
<1>1. TypeOK'
  BY RouteAssumption DEF HandleFunc, lookup, Inv, TypeOK
<1>2. ASSUME NEW r \in Requests PROVE Good(r)'
  <2>1. Good(r) /\ TypeOK
    BY InvOfEach
  <2>2. /\ UNCHANGED <<pc, path, todo, under, ran, moved, answer>>
        /\ rt' = [rt EXCEPT ![p] = h]
        /\ kept'[r] = IF Looking(r) /\ h = none THEN kept[r] \ {p} ELSE kept[r]
        /\ had'[r] = IF Looking(r) /\ h # none THEN had[r] \cup {<<p, h>>} ELSE had[r]
    BY DEF HandleFunc, lookup
  <2>3. kept'[r] \subseteq kept[r] /\ had[r] \subseteq had'[r] /\ (~Looking(r) => kept'[r] = kept[r])
    BY <2>2
  <2>4. LookupSees(r)'
    <3> SUFFICES ASSUME Looking(r)
                 PROVE  /\ kept'[r] \subseteq Registered'
                        /\ \A q \in Registered' : <<q, rt'[q]>> \in had'[r]
      BY <2>2 DEF LookupSees, Looking
    <3>1. kept[r] \subseteq Registered /\ \A q \in Registered : <<q, rt[q]>> \in had[r]
      BY <2>1 DEF Good, LookupSees
    <3>2. \A q \in Patterns : rt'[q] = IF q = p THEN h ELSE rt[q]
      BY <2>1, <2>2 DEF TypeOK
    <3> QED BY <2>2, <3>1, <3>2 DEF Registered
  <2>5. Unanswered(r)' /\ LeftBehind(r)' /\ AtError(r)' /\ Cause(r)' /\ Right(r)' /\ Exact(r)'
    BY <2>1, <2>2, <2>3 DEF Good, Unanswered, LeftBehind, AtError, Cause, Right, Exact
  <2> QED BY <2>4, <2>5 DEF Good
<1>3. (\A q \in Requests : Good(q))'
  BY <1>2
<1> QED BY <1>1, <1>3, InvOfEach, PTL

-----------------------------------------------------------------------------

LEMMA LookupKeeps ==
    ASSUME Inv, NEW r \in Requests,
           \/ SiteKnown(r) \/ SiteUnknown(r) \/ LoadFinds(r) \/ LoadMisses(r)
           \/ \E p \in Patterns : VisitMatch(r, p) \/ VisitOther(r, p)
           \/ RangeEnds(r) \/ HandlerReturns(r) \/ HandlerMoves(r) \/ Refuse(r)
    PROVE  Inv'
<1>0. TypeOK /\ \A q \in Requests : Good(q)
  BY InvOfEach
<1> USE DEF At
<1>1. TypeOK'
  <2> USE <1>0 DEF TypeOK
  <2>1. CASE SiteKnown(r)
    BY <2>1 DEF SiteKnown, lookup, Registered
  <2>2. CASE SiteUnknown(r)
    BY <2>2 DEF SiteUnknown
  <2>3. CASE LoadFinds(r)
    BY <2>3 DEF LoadFinds, Found, Registered
  <2>4. CASE LoadMisses(r)
    BY <2>4 DEF LoadMisses
  <2>5. ASSUME NEW p \in Patterns, VisitMatch(r, p) PROVE TypeOK'
    BY <2>5 DEF VisitMatch, Found, Registered
  <2>6. ASSUME NEW p \in Patterns, VisitOther(r, p) PROVE TypeOK'
    BY <2>6 DEF VisitOther
  <2>7. CASE RangeEnds(r)
    BY <2>7 DEF RangeEnds, lookup
  <2>8. CASE HandlerReturns(r)
    BY <2>8 DEF HandlerReturns
  <2>9. CASE HandlerMoves(r)
    BY <2>9 DEF HandlerMoves
  <2>10. CASE Refuse(r)
    BY <2>10 DEF Refuse
  <2> QED BY <2>1, <2>2, <2>3, <2>4, <2>5, <2>6, <2>7, <2>8, <2>9, <2>10
<1>2. Good(r)'
  <2> USE <1>0 DEF TypeOK, Good, LookupSees, Looking, Unanswered, LeftBehind, AtError, Cause,
                   Right, Exact
  <2>1. CASE SiteKnown(r)
    <3>1. /\ pc[r] = "called" /\ pc'[r] = "load" /\ rt' = rt /\ UNCHANGED lookup
          /\ kept'[r] = Registered /\ had'[r] = {<<p, rt[p]>> : p \in Registered}
      BY <2>1 DEF SiteKnown
    <3>2. Registered' = Registered
      BY <3>1 DEF Registered
    <3>3. LookupSees(r)'
      BY <3>1, <3>2
    <3>4. path' = path /\ under' = under /\ ran' = ran /\ moved' = moved /\ answer' = answer
      BY <3>1 DEF lookup
    <3>5. ran[r] = none /\ ~moved[r] /\ answer[r] = none
      BY <3>1
    <3>6. /\ pc'[r] = "load" /\ ran'[r] = none /\ ~moved'[r] /\ answer'[r] = none
      BY <3>1, <3>4, <3>5
    <3>7. Unanswered(r)' /\ LeftBehind(r)' /\ AtError(r)' /\ Cause(r)' /\ Right(r)' /\ Exact(r)'
      BY <3>6 DEF none
    <3> QED
      <4> HIDE DEF LookupSees, Unanswered, LeftBehind, AtError, Cause, Right, Exact
      <4> QED BY <3>3, <3>7
  <2>2. CASE SiteUnknown(r)
    BY <2>2 DEF SiteUnknown
  <2>3. CASE LoadFinds(r)
    BY <2>3 DEF LoadFinds, Found
  <2>4. CASE LoadMisses(r)
    BY <2>4 DEF LoadMisses, Registered
  <2>5. ASSUME NEW p \in Patterns, VisitMatch(r, p) PROVE Good(r)'
    BY <2>5 DEF VisitMatch, Found, Matches
  <2>6. ASSUME NEW p \in Patterns, VisitOther(r, p) PROVE Good(r)'
    BY <2>6 DEF VisitOther, Registered
  <2>7. CASE RangeEnds(r)
    BY <2>7 DEF RangeEnds, lookup
  <2>8. CASE HandlerReturns(r)
    BY <2>8 DEF HandlerReturns
  <2>9. CASE HandlerMoves(r)
    BY <2>9 DEF HandlerMoves
  <2>10. CASE Refuse(r)
    BY <2>10 DEF Refuse
  <2> QED BY <2>1, <2>2, <2>3, <2>4, <2>5, <2>6, <2>7, <2>8, <2>9, <2>10
<1>3. ASSUME NEW q \in Requests, q # r PROVE Good(q)'
  <2>1. /\ rt' = rt /\ pc'[q] = pc[q] /\ path'[q] = path[q] /\ todo'[q] = todo[q]
        /\ under'[q] = under[q] /\ ran'[q] = ran[q] /\ moved'[q] = moved[q]
        /\ answer'[q] = answer[q] /\ kept'[q] = kept[q] /\ had'[q] = had[q]
    BY <1>0, <1>3 DEF TypeOK, SiteKnown, SiteUnknown, LoadFinds, LoadMisses, VisitMatch,
       VisitOther, RangeEnds, HandlerReturns, HandlerMoves, Refuse, Found, lookup
  <2> QED BY <1>0, <2>1, OthersStay
<1>4. (\A q \in Requests : Good(q))'
  BY <1>2, <1>3
<1> QED
  BY <1>1, <1>4 DEF Inv, Good, Cause, Right, Exact, TriedInVain, RanWasRegistered,
     ExactFirst

LEMMA InvInductive == Spec => []Inv
<1>1. Init => Inv
  BY RouteAssumption
  DEF Init, Inv, TypeOK, TriedInVain, RanWasRegistered, ExactFirst, LookupSees, Looking,
      Unanswered, LeftBehind, AtError
<1>2. Inv /\ [Next]_vars => Inv'
  <2> SUFFICES ASSUME Inv, [Next]_vars PROVE Inv'
    OBVIOUS
  <2>1. CASE UNCHANGED vars
    BY <2>1 DEF vars, lookup, Inv, TypeOK, TriedInVain, RanWasRegistered, ExactFirst,
       LookupSees, Looking, Registered, Unanswered, LeftBehind, AtError
  <2> QED BY <2>1, HandleFuncKeeps, LookupKeeps DEF Next
<1> QED BY <1>1, <1>2, PTL DEF Spec

-----------------------------------------------------------------------------
(* The theorems. *)

\* The table and the lookups keep their types, and what is called as a handler is one.
THEOREM RouteTypes == Spec => []TypeOK
<1>1. Inv => TypeOK
  BY DEF Inv
<1> QED BY <1>1, InvInductive, PTL

\* No request is refused whose path is, or is described by, a pattern registered all
\* through its lookup, but for the literal regular expressions that are not tried.
THEOREM NoPatternIsMissed == Spec => []RefusedForCause
<1>1. Inv => RefusedForCause
  <2> SUFFICES ASSUME Inv, NEW r \in Requests,
                      answer[r] \in {"HandlerError", "404"}, ~moved[r],
                      NEW p \in kept[r]
               PROVE  p # path[r] /\ (Describes(p, path[r]) => Kind[p] = "literal")
    BY DEF RefusedForCause
  <2>1. p # path[r] /\ ~Matches(p, path[r])
    BY DEF Inv, TriedInVain
  <2>2. Kind[p] \in {"wildcard", "regexp", "literal", "invalid"}
    BY RouteAssumption DEF Inv, TypeOK
  <2> QED BY <2>1, <2>2 DEF Matches, Describes
<1> QED BY <1>1, InvInductive, PTL

\* No handler runs that was not registered, during the lookup, for the path.
THEOREM HandlersAreRegistered == Spec => []RanWasRegistered
<1>1. Inv => RanWasRegistered
  BY DEF Inv
<1> QED BY <1>1, InvInductive, PTL

\* The pattern that is the path goes first.
THEOREM ExactGoesFirst == Spec => []ExactFirst
<1>1. Inv => ExactFirst
  BY DEF Inv
<1> QED BY <1>1, InvInductive, PTL

=============================================================================
