------------------------------- MODULE MCRedis -------------------------------
(* Instance of RedisCache for TLC: PUT and GET /:tenant/posts/all for the   *)
(* tenants t and [t]. For Redis a "[t]" is the letter t.                    *)
EXTENDS RedisCache

RedisPath == {<<"t", "posts", "all">>, <<"[t]", "posts", "all">>}

RedisMutation == {[path |-> p, params |-> {1}] : p \in RedisPath}

OneQuery == {<<1>>}

Globs == {<<"[t]", "posts">>, <<"[t]", "posts", "all">>}

GlobMatches ==
    [prefix : Globs, key : {build_cache_key(<<"t", "posts", "all">>, q) : q \in OneQuery}]

=============================================================================
