--------------------------- MODULE MCServerLifecycle ----------------------------
(***************************************************************************)
(* Model-checking values for ServerLifecycle: two requests at a time, a    *)
(* ring of two events and pages of one or two, and a process that is       *)
(* started again and again.  The configurations are one that serves, on    *)
(* Redis and PostgreSQL or in memory, and that one with a field or two     *)
(* changed.                                                                *)
(***************************************************************************)
EXTENDS ServerLifecycle

CONSTANTS r1, r2, k1, k2

McRequests == {r1, r2}
McKinds == {k1, k2}
McAsks == {0, 3}

Served ==
  [Default EXCEPT !.mode = Text("release"), !.dsn = TRUE,
                  !.serviceTokenRequired = TRUE, !.serviceTokenLength = 32]

InMemory == [Served EXCEPT !.iamProvider = Untidy("memory")]
OnRedis == [Served EXCEPT !.sessionProvider = Untidy("redis"), !.iamProvider = Text("pg")]

McConfigs ==
  {InMemory, OnRedis,
   [InMemory EXCEPT !.basics = FALSE],
   [InMemory EXCEPT !.mode = Untidy("release")],
   [InMemory EXCEPT !.sessionProvider = Text("postgres")],
   [InMemory EXCEPT !.iamProvider = Text("other")],
   [OnRedis EXCEPT !.dsn = FALSE],
   [InMemory EXCEPT !.ttlSeconds = 0],
   [InMemory EXCEPT !.cacheTTLSeconds = 0],
   [InMemory EXCEPT !.cacheTTLSeconds = 61],
   [InMemory EXCEPT !.cacheEnabled = FALSE, !.cacheTTLSeconds = 0],
   [InMemory EXCEPT !.cookieSameSite = Untidy("None")],
   [InMemory EXCEPT !.cookieSameSite = Untidy("None"), !.cookieSecure = TRUE],
   [InMemory EXCEPT !.tokenEnabled = TRUE],
   [InMemory EXCEPT !.serviceTokenLength = 0],
   [InMemory EXCEPT !.rateLimitQPS = 0],
   [InMemory EXCEPT !.rateLimitBurst = 0]}
================================================================================
