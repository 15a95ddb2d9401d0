----------------------------- MODULE Configuration ------------------------------
(***************************************************************************)
(* What becomes of the configuration: config.Load normalizes and validates *)
(* it, server.New builds the stores it names and panics over what it       *)
(* cannot build.  Operators only; ServerLifecycle starts a process with    *)
(* them.                                                                   *)
(*                                                                         *)
(* A text is a word and whether it is tidy: without spaces around it and   *)
(* in the case the program compares it in.  Fields whose check is a parser *)
(* (addresses, URLs, proxies) or that only must not be empty are one field *)
(* `basics`: whether all of them are as they should be.                    *)
(***************************************************************************)
EXTENDS Integers

Text(word) == [word |-> word, tidy |-> TRUE]
Untidy(word) == [word |-> word, tidy |-> FALSE]

(* The words that are told apart; all others do the same.                  *)
Words == {"", "debug", "release", "test", "memory", "redis", "postgres", "pg",
          "Strict", "Lax", "None", "Default", "other"}

Texts == [word : Words, tidy : BOOLEAN]

(* The structure config.Config, as far as it is looked at here.            *)
Config ==
  [basics : BOOLEAN, mode : Texts,
   sessionProvider : Texts, ttlSeconds : Int,
   iamProvider : Texts, dsn : BOOLEAN,
   cacheEnabled : BOOLEAN, cacheTTLSeconds : Int,
   cookieSameSite : Texts, cookieSecure : BOOLEAN,
   tokenEnabled : BOOLEAN, signingSecret : BOOLEAN,
   serviceTokenRequired : BOOLEAN, serviceTokenLength : Nat,
   rateLimitQPS : Int, rateLimitBurst : Int]

(* setDefaults, with the client credentials and the DSN it leaves empty.   *)
Default ==
  [basics |-> TRUE, mode |-> Text("debug"),
   sessionProvider |-> Text("memory"), ttlSeconds |-> 28800,
   iamProvider |-> Text("postgres"), dsn |-> TRUE,
   cacheEnabled |-> TRUE, cacheTTLSeconds |-> 30,
   cookieSameSite |-> Text("Lax"), cookieSecure |-> FALSE,
   tokenEnabled |-> FALSE, signingSecret |-> FALSE,
   serviceTokenRequired |-> FALSE, serviceTokenLength |-> 0,
   rateLimitQPS |-> 100, rateLimitBurst |-> 200]

Trimmed(text) == Text(text.word)

normalizeCookieSameSite(text) ==
  IF text.word \in {"Strict", "None", "Default"} THEN Text(text.word) ELSE Text("Lax")

(* server.mode is trimmed, and its case is kept: an untidy mode here is    *)
(* one in another case.                                                    *)
normalize(cfg) ==
  [cfg EXCEPT !.sessionProvider = Trimmed(@),
              !.iamProvider = Trimmed(@),
              !.cookieSameSite = normalizeCookieSameSite(@)]

validate(cfg) ==
  /\ cfg.basics
  /\ cfg.ttlSeconds > 0
  /\ cfg.cacheEnabled => cfg.cacheTTLSeconds > 0
  /\ cfg.cacheTTLSeconds \in 0 .. 60
  /\ cfg.iamProvider \in {Text("postgres"), Text("pg")} => cfg.dsn
  /\ cfg.iamProvider \in {Text(word) : word \in {"", "memory", "postgres", "pg"}}
  /\ cfg.cookieSameSite.word = "None" => cfg.cookieSecure
  /\ cfg.tokenEnabled => cfg.signingSecret
  /\ cfg.serviceTokenRequired => cfg.serviceTokenLength >= 32
  /\ cfg.rateLimitQPS > 0
  /\ cfg.rateLimitBurst > 0

(* What server.New needs of the configuration, and of the world: a store   *)
(* it connects to must answer its ping.                                    *)
knownMode(cfg) ==
  cfg.mode \in {Text(word) : word \in {"", "debug", "release", "test"}}

knownSessions(cfg) ==
  cfg.sessionProvider.word \in {"", "memory", "redis"}

knownIAM(cfg) ==
  cfg.iamProvider.word \in {"", "memory", "postgres", "pg"}

onRedis(cfg) == cfg.sessionProvider.word = "redis"
onPostgres(cfg) == cfg.iamProvider.word \in {"postgres", "pg"}

canBuild(cfg, redisUp, postgresUp) ==
  /\ cfg.basics
  /\ knownMode(cfg)
  /\ knownSessions(cfg)
  /\ onRedis(cfg) => redisUp
  /\ knownIAM(cfg)
  /\ onPostgres(cfg) => cfg.dsn /\ postgresUp
================================================================================
