----------------------------- MODULE ServerLifecycle ----------------------------
(***************************************************************************)
(* The process of cmd/server and internal/server: it loads its             *)
(* configuration, builds its stores, serves requests, and on a signal      *)
(* stops in order: the HTTP server drains for ten seconds, then the stores *)
(* are closed one by one, then the process ends.  It may also crash, and   *)
(* whoever runs it starts it again.                                        *)
(*                                                                         *)
(* A request is the sequence of the stores its handler calls.  The store   *)
(* that is modelled in full here is the audit log: writes, and the pages   *)
(* its caller asks for, are requests like the others.                      *)
(***************************************************************************)
EXTENDS AuditLog, Configuration

CONSTANTS
  Requests,       \* requests that may be served at a time
  Configs,        \* configurations an operator may start the process with
  MaxWrites       \* bound of the model: the events one process stores

ASSUME ConfigsAssumption == Configs \subseteq Config
ASSUME MaxWritesAssumption == MaxWrites \in Nat

VARIABLES
  phase,          \* how far the process has come
  conf,           \* the configuration; while it serves, where its stores are
  outcome,        \* why Run stopped serving
  shut,           \* stores closeDependencies has closed
  req             \* the requests

runVars == <<outcome, shut>>
serverVars == <<auditVars, phase, conf, runVars, req>>

(* The stores each handler calls, in its order, and whether it has a body  *)
(* to read before that.                                                    *)
Stores ==
  [audit_write |-> <<"audit">>,
   audit_list  |-> <<"audit">>,
   callback    |-> <<"state", "session">>,
   grant_check |-> <<"iam">>]

HasBody(op) == op \in {"audit_write", "grant_check"}

NoRequest == [op |-> "none", pc |-> "none", at |-> 0]

Request == [op   : DOMAIN Stores \cup {"none"},
            pc   : {"none", "reading", "working", "holding", "failed", "dropped"},
            at   : 0 .. 3]               \* the next of its stores

Open(r) == req[r].pc \in {"reading", "working", "holding"}

(* The connections to Redis and PostgreSQL are shut, and the audit log     *)
(* takes no more events, but goes on to list them; to close another store  *)
(* in memory only stops the sweep of it.                                   *)
Refuses(op, store) ==
  /\ store \in shut
  /\ CASE store = "audit" -> closed /\ op = "audit_write"
       [] store = "iam" -> conf.postgres
       [] OTHER -> conf.redis

Backends(cfg) == [redis |-> onRedis(cfg), postgres |-> onPostgres(cfg)]

Nowhere == [redis |-> FALSE, postgres |-> FALSE]

(* The process is no more: nor is what it held in memory.                  *)
Gone ==
  /\ events' = << >> /\ closed' = FALSE /\ stored' = 0 /\ pager' = NoPager
  /\ shut' = {}
  /\ conf' = Nowhere
  /\ req' = [r \in Requests |-> IF Open(r) THEN [req[r] EXCEPT !.pc = "dropped"] ELSE req[r]]

--------------------------------------------------------------------------------
(* The process starts.                                                     *)
Start ==
  /\ phase \in {"down", "exited"}
  /\ phase' = "starting"
  /\ \E cfg \in Configs : conf' = cfg
  /\ outcome' = "none"
  /\ req' = [r \in Requests |-> NoRequest]
  /\ UNCHANGED <<auditVars, shut>>

(* loadRuntimeConfig and configureLogger: a configuration that is not      *)
(* accepted, or a log that cannot be opened, ends the process with a       *)
(* message.                                                                *)
Load ==
  LET cfg == normalize(conf) IN
  /\ phase = "starting"
  /\ \/ validate(cfg) /\ phase' = "loaded" /\ conf' = cfg
     \/ phase' = "exited" /\ conf' = Nowhere
  /\ UNCHANGED <<auditVars, runVars, req>>

(* server.New builds the routes and the stores or panics, and Run listens. *)
New ==
  /\ phase = "loaded"
  /\ \E redisUp, postgresUp \in BOOLEAN :
       IF canBuild(conf, redisUp, postgresUp)
       THEN phase' = "serving" /\ conf' = Backends(conf)
       ELSE phase' = "down" /\ conf' = Nowhere
  /\ UNCHANGED <<auditVars, runVars, req>>

--------------------------------------------------------------------------------
(* A request arrives; the audit pages are asked for one after the other.   *)
Accept(r) ==
  /\ phase = "serving"
  /\ req[r].pc = "none"
  /\ \E op \in DOMAIN Stores :
       /\ op = "audit_list" =>
            pager.state = "paging" /\ \A x \in Requests : req[x].op # op
       /\ req' = [req EXCEPT ![r] = [op |-> op, at |-> 1,
                    pc |-> IF HasBody(op) THEN "reading" ELSE "working"]]
  /\ UNCHANGED <<auditVars, phase, conf, runVars>>

(* ShouldBindJSON has the body.  No timeout covers it: ReadHeaderTimeout   *)
(* is over once the header is there.                                       *)
ReadBody(r) ==
  /\ req[r].pc = "reading"
  /\ req' = [req EXCEPT ![r].pc = "working"]
  /\ UNCHANGED <<auditVars, phase, conf, runVars>>

(* The handler calls its next store.  A closed one answers an error; the   *)
(* one in PostgreSQL works on a connection of its pool.                    *)
Call(r) ==
  LET store == Stores[req[r].op][req[r].at] IN
  /\ req[r].pc = "working"
  /\ req[r].at <= Len(Stores[req[r].op])
  /\ \/ /\ Refuses(req[r].op, store)
        /\ req' = [req EXCEPT ![r].pc = "failed"]
        /\ UNCHANGED auditVars
     \/ /\ ~Refuses(req[r].op, store)
        /\ req' = IF store = "iam" /\ conf.postgres
                  THEN [req EXCEPT ![r].pc = "holding"]
                  ELSE [req EXCEPT ![r].at = @ + 1]
        /\ CASE req[r].op = "audit_write" -> stored < MaxWrites /\ \E kind \in Kinds : Write(kind)
             [] req[r].op = "audit_list" -> List
             [] OTHER -> UNCHANGED auditVars
  /\ UNCHANGED <<phase, conf, runVars>>

(* PostgreSQL answers the query and the connection is given back.  Nothing *)
(* limits how long that takes.                                             *)
QueryEnds(r) ==
  /\ req[r].pc = "holding"
  /\ req' = [req EXCEPT ![r] = [op |-> req[r].op, pc |-> "working", at |-> req[r].at + 1]]
  /\ UNCHANGED <<auditVars, phase, conf, runVars>>

(* The handler has answered.                                               *)
Answer(r) ==
  /\ req[r].pc = "working"
  /\ req[r].at > Len(Stores[req[r].op])
  /\ req' = [req EXCEPT ![r] = NoRequest]
  /\ UNCHANGED <<auditVars, phase, conf, runVars>>

(* The client goes away: the body cannot be read, and a call that comes    *)
(* after it finds the context of the request cancelled.                    *)
ClientLeaves(r) ==
  /\ req[r].pc \in {"reading", "working"}
  /\ req' = [req EXCEPT ![r] = NoRequest]
  /\ pager' = IF req[r].op = "audit_list" THEN NoPager ELSE pager
  /\ UNCHANGED <<events, closed, stored, phase, conf, runVars>>

--------------------------------------------------------------------------------
(* SIGINT or SIGTERM: Shutdown takes no more requests and waits, for ten   *)
(* seconds: nothing else here takes a known time, so they may be over      *)
(* before or after any step of a handler.                                  *)
Signal ==
  /\ phase = "serving"
  /\ phase' = "draining"
  /\ UNCHANGED <<auditVars, conf, runVars, req>>

(* Shutdown returns when no request is left, or when its time is over.     *)
Drained ==
  /\ phase = "draining"
  /\ \A r \in Requests : ~Open(r)
  /\ phase' = "stopping" /\ outcome' = "drained"
  /\ UNCHANGED <<auditVars, conf, shut, req>>

Bad_GraceOver ==
  /\ phase = "draining"
  /\ \A r \in Requests : req[r].pc # "reading"
  /\ phase' = "stopping" /\ outcome' = "deadline"
  /\ UNCHANGED <<auditVars, conf, shut, req>>

GraceOver ==
  /\ phase = "draining"
  /\ phase' = "stopping" /\ outcome' = "deadline"
  /\ UNCHANGED <<auditVars, conf, shut, req>>

(* ListenAndServe returns an error, and Run does at once.                  *)
ListenerFails ==
  /\ phase = "serving"
  /\ phase' = "stopping" /\ outcome' = "listener"
  /\ UNCHANGED <<auditVars, conf, shut, req>>

(* closeDependencies, in the order of Server.closers.  To close the pool   *)
(* of connections waits for those that are in use.                         *)
closers == <<"session", "audit", "iam", "state">>
Closed(i) == closers[i] \in shut
PoolIsBack == "iam" \in shut => \A r \in Requests : req[r].pc # "holding"

Bad_closeDependencies ==
  /\ phase \in {"draining", "stopping"}
  /\ PoolIsBack
  /\ \E i \in DOMAIN closers :
       /\ ~Closed(i)
       /\ \A j \in DOMAIN closers : j < i => Closed(j)
       /\ shut' = shut \cup {closers[i]}
       /\ IF closers[i] = "audit" THEN Close ELSE UNCHANGED auditVars
  /\ UNCHANGED <<phase, conf, outcome, req>>

closeDependencies ==
  /\ phase = "stopping"
  /\ PoolIsBack
  /\ \E i \in DOMAIN closers :
       /\ ~Closed(i)
       /\ \A j \in DOMAIN closers : j < i => Closed(j)
       /\ shut' = shut \cup {closers[i]}
       /\ IF closers[i] = "audit" THEN Close ELSE UNCHANGED auditVars
  /\ UNCHANGED <<phase, conf, outcome, req>>

(* Run has returned, main ends the process, and what is not answered is    *)
(* cut off.                                                                *)
Exit ==
  /\ phase = "stopping"
  /\ PoolIsBack
  /\ \A i \in DOMAIN closers : Closed(i)
  /\ phase' = "exited"
  /\ Gone
  /\ UNCHANGED outcome

(* The process is killed.                                                  *)
Crash ==
  /\ phase \in {"serving", "draining", "stopping"}
  /\ phase' = "down"
  /\ Gone
  /\ UNCHANGED outcome

--------------------------------------------------------------------------------
ServerInit ==
  /\ AuditInit
  /\ phase = "down"
  /\ conf = Nowhere
  /\ outcome = "none" /\ shut = {}
  /\ req = [r \in Requests |-> NoRequest]

(* A caller of the audit log, of its own accord.                           *)
BeginPaging ==
  /\ phase = "serving"
  /\ \A r \in Requests : req[r].op # "audit_list"
  /\ StartPaging
  /\ UNCHANGED <<phase, conf, runVars, req>>

Stop == Drained \/ GraceOver \/ closeDependencies \/ Exit

Handle(r) == Accept(r) \/ ReadBody(r) \/ Call(r) \/ QueryEnds(r) \/ Answer(r) \/ ClientLeaves(r)

ServerNext ==
  \/ Start \/ Load \/ New
  \/ \E r \in Requests : Handle(r)
  \/ BeginPaging
  \/ Signal \/ ListenerFails
  \/ Stop
  \/ Crash

(* The clock goes on, and so does the goroutine of Run.  Nothing is asked  *)
(* of clients, of handlers or of PostgreSQL.                               *)
Fairness == WF_serverVars(Stop)

ServerSpec == ServerInit /\ [][ServerNext]_serverVars /\ Fairness

--------------------------------------------------------------------------------
Phases == {"down", "starting", "loaded", "serving", "draining", "stopping", "exited"}

ServerTypeOK ==
  /\ phase \in Phases
  /\ outcome \in {"none", "drained", "deadline", "listener"}
  /\ shut \subseteq {"session", "audit", "iam", "state"}
  /\ req \in [Requests -> Request]

(* A handler is at one of its stores, or past the last of them.            *)
InPlace(q) ==
  /\ q.op # "none"
  /\ q.at \in 1 .. Len(Stores[q.op]) + 1
  /\ q.pc = "holding" => q.at <= Len(Stores[q.op])

RequestsInOrder == \A r \in Requests : Open(r) => InPlace(req[r])

(* Stores are closed while the process stops and at no other time; Run     *)
(* has a reason to stop from then on; and if it is that nothing was left   *)
(* to drain, nothing is.                                                   *)
StopsInOrder ==
  /\ shut # {} => phase = "stopping"
  /\ phase \in {"starting", "loaded", "serving", "draining"} => outcome = "none"
  /\ phase = "stopping" => outcome # "none"
  /\ phase = "stopping" /\ outcome = "drained" => \A r \in Requests : ~Open(r)

(* server.New is given a configuration that has been validated.            *)
LoadedIsValid ==
  /\ phase \in {"starting", "loaded"} => conf \in Config
  /\ phase = "loaded" => validate(conf)

(* An orderly stop harms nobody: a request that met a closed store, or     *)
(* that the end of the process cut off, is owed to a crash, to a listener  *)
(* that failed, or to a drain that ran out of time; of the last two Run    *)
(* returns an error (server.go:50-81, 195-201, main.go:24-30).             *)
CleanStop ==
  (\E r \in Requests : req[r].pc \in {"failed", "dropped"})
    => phase = "down" \/ outcome \in {"deadline", "listener"}

(* The invariant behind CleanStop: inductive.                              *)
ServerInv ==
  /\ AuditInv
  /\ ServerTypeOK
  /\ RequestsInOrder
  /\ StopsInOrder
  /\ LoadedIsValid
  /\ CleanStop

(* The process ends after a signal or a failure of its listener, even if   *)
(* there are handlers that never return and clients that never send their  *)
(* bodies.  One thing alone can keep it for ever: a query that PostgreSQL  *)
(* does not answer, for which pool.Close waits when every other step has   *)
(* been taken (server.go:72-80, 195-201, postgres.go:53).                  *)
StopsInTime ==
  \/ phase \in {"draining", "stopping"} ~> phase \in {"exited", "down"}
  \/ <>[](phase = "stopping" /\ ~PoolIsBack)
================================================================================
