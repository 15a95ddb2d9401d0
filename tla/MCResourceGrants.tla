---------------------------- MODULE MCResourceGrants ----------------------------
(***************************************************************************)
(* Model-checking values for ResourceGrants: a viewer's grant on one skill *)
(* that expires, a deny for a group above the user's on the same skill, an *)
(* editor's grant on all skills, some leaving out what there is a default  *)
(* for, each with a time of creation or without one; and two requests for  *)
(* that skill, one of which names it by its object only, and one that      *)
(* names no action.                                                        *)
(***************************************************************************)
EXTENDS ResourceGrants, TLC

CONSTANTS p1, p2, g1, g2

McProcs == {p1, p2}
McGrantIds == {g1, g2}

McGrant == [app |-> "aihub", typ |-> "skill", rid |-> <<"search">>, object |-> << >>,
            kind |-> "user", who |-> <<"aisphere", "ann">>,
            role |-> "", actions |-> {}, effect |-> "", exp |-> 0]

McDrafts ==
  {[McGrant EXCEPT !.exp = 1],
   [McGrant EXCEPT !.kind = "group", !.who = <<"org">>, !.effect = "deny", !.role = "owner"],
   [McGrant EXCEPT !.app = "", !.rid = <<"*">>, !.role = "editor"]}

McQuestion == [app |-> "", typ |-> "", rid |-> << >>, object |-> <<"aihub", "skill", "search">>,
               subjects |-> {<<"aisphere", "ann">>}, groups |-> {<<"org", "dev">>},
               orgs |-> {}, projects |-> {}, action |-> <<"read">>]

McQuestions ==
  {McQuestion,
   [McQuestion EXCEPT !.app = "aihub", !.typ = "skill", !.rid = <<"search">>,
                      !.action = <<"update">>],
   [McQuestion EXCEPT !.action = << >>]}

McProviders == {"memory", "postgres"}
McSymmetry == Permutations(McProcs) \cup Permutations(McGrantIds)
================================================================================
