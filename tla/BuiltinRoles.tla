------------------------------ MODULE BuiltinRoles ------------------------------
(***************************************************************************)
(* builtinRoleAllows of internal/authz: whether the name of a role is      *)
(* enough for what a principal wants.                                      *)
(*                                                                         *)
(* A role is what normalizeRole leaves of its name: its last part, in      *)
(* lower case, with _ for -.  It is written here as what the rules look    *)
(* for in it: whose it is (an app's, "app" for any app's, "platform" for   *)
(* the ten names of isPlatformAdminRole) and its rank, "admin" whenever    *)
(* the name contains that word.  An action has a kind, an object the app   *)
(* its name begins with.                                                   *)
(***************************************************************************)

CONSTANTS
  Apps,           \* apps, as CheckRequest.App names them
  DefaultApp      \* "aihub", for a request that names none

ASSUME DefaultAppAssumption == DefaultApp \in Apps

Ranks == {"admin", "editor", "viewer", "reader", "other"}
Role == [of : Apps \cup {"platform", "app"}, rank : Ranks]

(* What a check is about: its app, if it names one, the app of its object, *)
(* if it is an app's, and the kind of its action.                          *)
Matter == [app : Apps \cup {"none"}, object : Apps \cup {"none"},
           action : {"read", "edit", "other"}]

isReadAction(action) == action = "read"
isEditorAction(action) == action \in {"read", "edit"}

isPlatformAdminRole(role) == role = [of |-> "platform", rank |-> "admin"]
roleMatchesApp(role, app, suffix) == role.of \in {app, "app"} /\ role.rank = suffix

builtinRoleAllows(roles, matter) ==
  LET app == IF matter.app = "none" THEN DefaultApp ELSE matter.app
  IN \E role \in roles :
       \/ isPlatformAdminRole(role)
       \/ roleMatchesApp(role, app, "admin")
       \/ roleMatchesApp(role, app, "editor") /\ isEditorAction(matter.action)
       \/ /\ roleMatchesApp(role, app, "viewer") \/ roleMatchesApp(role, app, "reader")
          /\ isReadAction(matter.action)
       \/ role.rank = "admin" /\ matter.object = app
================================================================================
