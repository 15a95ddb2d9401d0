------------------------------ MODULE GrantMatching ------------------------------
(***************************************************************************)
(* How internal/iam decides whether a resource grant answers a request:    *)
(* prepareGrantForSave and the functions grantMatchesQuery to parseObject  *)
(* of service.go, which the stores share.                                  *)
(*                                                                         *)
(* A text with a structure is the sequence of its segments: an object      *)
(* "aihub:skill:search" is <<"aihub", "skill", "search">>, an action       *)
(* "admin:read" is <<"admin", "read">>, a group path or the name of a      *)
(* subject is cut at its slashes.  The empty text is << >> or "".  Texts   *)
(* are trimmed and in lower case, which is what normalize makes them.      *)
(*                                                                         *)
(* A grant is a record of what it is for (app, typ, rid, object), whom it  *)
(* is for (kind, who), what it lets them do (role, actions, effect), and   *)
(* until when (exp, 0 for ever).                                           *)
(***************************************************************************)
EXTENDS Integers, SequencesExt

(* A word, or a segment of a text: any string, these among them.           *)
Names == STRING \cup {"", "*", "allow", "viewer", "aihub"}
Segments == Seq(Names)

ResourceGrant ==
  [app : Names, typ : Names, rid : Segments, object : Segments,
   kind : Names, who : Segments,
   role : Names, actions : SUBSET Segments, effect : Names, exp : Nat]

CheckRequest ==
  [app : Names, typ : Names, rid : Segments, object : Segments,
   subjects : SUBSET Segments, groups : SUBSET Segments,
   orgs : SUBSET Segments, projects : SUBSET Segments, action : Segments]

(* A pattern is "*", the name itself, or a prefix followed by ":*".        *)
Covers(pattern, name) ==
  \/ pattern \in {<<"*">>, name}
  \/ /\ Len(pattern) > 1 /\ Last(pattern) = "*"
     /\ Len(name) >= Len(pattern)
     /\ IsPrefix(Front(pattern), name)

(* The defaults a grant is given when it is saved.                         *)
Prepared(g) ==
  LET app == IF g.app = "" THEN "aihub" ELSE g.app
      object == IF g.object = << >> /\ g.typ # "" /\ g.rid # << >>
                THEN <<app, g.typ>> \o g.rid ELSE g.object
  IN [g EXCEPT !.app    = app,
               !.object = object,
               !.role   = IF @ = "" THEN "viewer" ELSE @,
               !.effect = IF @ = "" THEN "allow" ELSE @,
               !.who    = IF g.kind = "public" /\ @ = << >> THEN <<"*">> ELSE @]

(* What a request leaves out of app, type and id is taken from its object, *)
(* provided that the type or the id is left out and the object has three   *)
(* segments.                                                               *)
Resolved(q) ==
  LET parse == (q.typ = "" \/ q.rid = << >>) /\ Len(q.object) >= 3
      rest  == SubSeq(q.object, 3, Len(q.object))
  IN IF ~parse THEN q
     ELSE [q EXCEPT !.app = IF @ = "" THEN q.object[1] ELSE @,
                    !.typ = IF @ = "" THEN q.object[2] ELSE @,
                    !.rid = IF @ = << >> THEN rest ELSE @]

(* A query selects on the fields it gives, by equality.                    *)
MatchesQuery(g, w) ==
  /\ w.app \in {"", g.app}
  /\ w.typ \in {"", g.typ}
  /\ w.rid \in {<< >>, g.rid}

(* q is a resolved request.                                                *)
TargetsResource(g, q) ==
  /\ g.app \in {"", "*", q.app} \/ q.app = ""
  /\ IF g.object # << >> /\ q.object # << >>
     THEN Covers(g.object, q.object)
     ELSE /\ g.typ \in {"", q.typ} \/ q.typ = ""
          /\ g.rid \in {<< >>, <<"*">>, q.rid} \/ q.rid = << >>

(* A group is granted what the groups above it are.                        *)
WithinGroup(grantGroup, actualGroup) ==
  grantGroup # << >> /\ IsPrefix(grantGroup, actualGroup)

TargetsSubject(g, q) ==
  \/ g.kind = "public"
  \/ g.kind \in {"user", "human", "service", "agent"} /\ g.who \in q.subjects \ {<< >>}
  \/ g.kind = "group" /\ \E group \in q.groups : WithinGroup(g.who, group)
  \/ g.kind \in {"org", "organization"} /\ g.who \in q.orgs \ {<< >>}
  \/ g.kind = "project" /\ g.who \in q.projects \ {<< >>}

Single(names) == {<<name>> : name \in names}

RoleActions(role) ==
  CASE role \in {"viewer", "reader"} -> Single({"read", "view", "list", "download"})
    [] role \in {"runner", "executor"} -> Single({"read", "view", "list", "run"})
    [] role \in {"editor", "developer", "contributor"} ->
         Single({"read", "view", "list", "download", "write", "create", "update",
                 "delete", "publish", "rollback"})
    [] role \in {"reviewer", "approver"} ->
         Single({"read", "view", "list", "download", "approve", "reject", "review"})
    [] role \in {"admin", "owner"} -> {<<"*">>}
    [] OTHER -> Single({"read"})

ActionMatches(pattern, action) ==
  \/ Covers(pattern, action)
  \/ pattern = <<"run">> /\ action = <<"use">>
  \/ /\ pattern = <<"write">>
     /\ action \in Single({"create", "update", "delete", "publish", "rollback"})

AllowsAction(g, action) ==
  /\ action # << >>
  /\ \E pattern \in g.actions \cup RoleActions(g.role) : ActionMatches(pattern, action)

Lives(g, at) == g.exp = 0 \/ at <= g.exp

(* The grant speaks about the request, for or against it.                  *)
Concerns(g, q) ==
  /\ TargetsResource(g, Resolved(q))
  /\ TargetsSubject(g, q)
  /\ AllowsAction(g, q.action)
================================================================================
