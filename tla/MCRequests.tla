----------------------------- MODULE MCRequests -----------------------------
(* Requests with two requests of three callers at two routes.            *)
EXTENDS Requests

MCRoute == {"login", "deleteUser"}

Person(id, token, roles, permissions) ==
    [id |-> id, token |-> token, roles |-> roles, permissions |-> permissions]

MCCaller ==
    {Person("admin", "valid", {"admin"}, {"users:write", "users:delete"}),
     Person("clerk", "valid", {"user"}, {"users:write"}),
     Person("guest", "expired", {}, {})}

MCBucket ==
    {BucketOf(g, Endpoint[r], c) : g \in {"global", "controller"}, r \in MCRoute, c \in MCCaller}

MCError ==
    {[kind |-> "http", code |-> 401],
     [kind |-> "domain", code |-> "EMAIL_ALREADY_EXISTS"],
     [kind |-> "other", code |-> "TypeError"]}

MCLimit == [p \in {"auth:login", "rl"} |-> 1]
MCSpan == [p \in {"auth:login", "rl"} |-> 0]
=============================================================================
