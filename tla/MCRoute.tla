------------------------------- MODULE MCRoute -------------------------------
(***************************************************************************)
(* Route for TLC.  The path "/a" may be registered as it is, and a wildcard *)
(* matches it; the wildcard matches "/b" too, and the literal is not tried. *)
(***************************************************************************)
EXTENDS Route, TLC

KindOf == "/a" :> "wildcard" @@ "/?" :> "wildcard" @@ "^/b$" :> "literal"
FitsOf == {<<"/a", "/a">>, <<"/?", "/a">>, <<"/?", "/b">>, <<"^/b$", "/b">>}

Symmetric == Permutations(Handlers)

=============================================================================
