------------------------------- MODULE MCCache -------------------------------
(* Instance of Cache for TLC: the list GET /users/:id/posts, changed by     *)
(* DELETE /users/:id/posts/:post, and the page GET /users2 of the route     *)
(* /:slug, changed by PUT /:slug. The name of the page begins with "users". *)
EXTENDS Cache

MCPath == {<<"users", "42", "posts">>, <<"users2">>}
MCMutation == {[path |-> <<"users", "42", "posts", "7">>, params |-> {2, 4}],
               [path |-> <<"users2">>, params |-> {1}]}
MCSegmentPrefix == {<<"users", "users2">>}

\* Two spellings of one query.
MCQuery == {<<1, 2>>, <<2, 1>>}

=============================================================================
