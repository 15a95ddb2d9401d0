------------------------------ MODULE ResourceGrants ------------------------------
(***************************************************************************)
(* The IAM service: grants are saved and deleted, requests are checked     *)
(* against them, and lists of them are fetched in pages, all concurrently. *)
(* The memory provider keeps a map under a RWMutex, which it ranges over   *)
(* in whatever order Go likes; the Postgres provider keeps rows, and sends *)
(* one statement for each step.                                            *)
(*                                                                         *)
(* GrantMatching says when a grant concerns a request.  The mysql provider *)
(* is not here: mustBuildIAMService refuses to start with it.              *)
(***************************************************************************)
EXTENDS GrantMatching

CONSTANTS
  Procs,          \* goroutines serving requests to /iam or checks of /authz
  GrantIds,       \* ids of grants
  Drafts,         \* the grants callers save
  GivenTimes,     \* the times of creation they give them; 0 is none
  Questions,      \* the requests callers have checked
  Nothing,        \* no question, no row
  Providers,      \* the values of iam.provider to consider
  RowLimit,       \* the 500 rows CheckResourceGrant asks Postgres for
  PageLimit,      \* limit of the pages that are fetched
  MaxTime         \* bound of the model: the clock stops here

ASSUME DraftsAssumption == Drafts \subseteq ResourceGrant
ASSUME GivenTimesAssumption == GivenTimes \subseteq Int
ASSUME QuestionsAssumption == Questions \subseteq CheckRequest
ASSUME NothingAssumption == Nothing \notin Questions
ASSUME ProvidersAssumption == Providers \subseteq {"memory", "postgres"}
ASSUME RowLimitAssumption == RowLimit \in Nat \ {0}
ASSUME PageLimitAssumption == PageLimit \in Nat \ {0}
ASSUME MaxTimeAssumption == MaxTime \in Nat

VARIABLES
  provider,       \* iam.provider; no step changes it
  now,            \* time.Now(), in milliseconds
  grants,         \* the stored grants: id -> [body, created, updated]
  rowids,         \* Postgres: the ids in the order of their BIGSERIAL
  call            \* the request each goroutine serves

vars == <<provider, now, grants, rowids, call>>

Stored == [body : {Prepared(draft) : draft \in Drafts}, created : Int, updated : Nat]
Shown == [id : GrantIds, g : Stored]

Call == [pc    : {"idle", "save", "read", "judge", "count", "page", "done"},
         q     : Questions \cup {Nothing},
         row   : Shown \cup {Nothing},
         rows  : Seq(Shown),
         cut   : BOOLEAN,         \* history: the row limit has cut rows off
         since : Nat,             \* history: when the request began
         calm  : SUBSET GrantIds, \* history: ids no one has saved or deleted since
         total : Nat, offset : Nat,
         met   : Seq(GrantIds),   \* the ids on the pages fetched so far
         ans   : {"none", "allow", "deny", "error"}]

Row(id) == [id |-> id, g |-> grants[id]]

(* A request as it begins.                                                 *)
Fresh(pc, q, row, since) ==
  [pc |-> pc, q |-> q, row |-> row, rows |-> << >>, cut |-> FALSE, since |-> since,
   calm |-> GrantIds, total |-> 0, offset |-> 0, met |-> << >>, ans |-> "none"]

Begun(pc) == Fresh(pc, Nothing, Nothing, 0)
Idle == Begun("idle")

At(p, pc) == call[p].pc = pc
Answer(p, a) == call' = [call EXCEPT ![p].pc = "done", ![p].rows = << >>, ![p].ans = a]

Memory == provider = "memory"
Postgres == provider = "postgres"

(* Definitions named Bad_ are slips of the code that the runs must notice; *)
(* each stands before what it would replace, and nothing uses it.          *)

(* A memory check holds the read lock from its first look at the map to    *)
(* its answer.                                                             *)
Bad_Unlocked == TRUE
Unlocked == Memory => \A p \in Procs : ~At(p, "judge")

Touched(id) == [p \in Procs |->
  IF call[p].pc \in {"idle", "save"} THEN call[p] ELSE [call[p] EXCEPT !.calm = @ \ {id}]]

--------------------------------------------------------------------------------
(* prepareGrantForSave reads the clock before the grant reaches the store, *)
(* and keeps a time of creation that comes with the grant.                 *)
BeginSave(p) ==
  /\ At(p, "idle")
  /\ \E id \in GrantIds, draft \in Drafts, given \in GivenTimes :
       LET g == [body |-> Prepared(draft), updated |-> now,
                 created |-> IF given = 0 THEN now ELSE given] IN
       call' = [call EXCEPT ![p] = Fresh("save", Nothing, [id |-> id, g |-> g], 0)]
  /\ UNCHANGED <<provider, now, grants, rowids>>

Place(id) == CHOOSE i \in DOMAIN rowids : rowids[i] = id

(* A row that is there already keeps its place.                            *)
Inserted(id) ==
  IF Postgres /\ id \notin DOMAIN grants THEN Append(rowids, id) ELSE rowids

Removed(id) ==
  IF Postgres /\ id \in DOMAIN grants THEN RemoveAt(rowids, Place(id)) ELSE rowids

(* The memory store replaces what is under the id; INSERT ... ON CONFLICT  *)
(* DO UPDATE keeps the time of creation.  What the caller is told is left  *)
(* out: the reply of a statement may be lost.                              *)
Save(p) ==
  LET id == call[p].row.id
      known == id \in DOMAIN grants
      g == IF Postgres /\ known THEN [call[p].row.g EXCEPT !.created = grants[id].created]
           ELSE call[p].row.g
  IN /\ At(p, "save") /\ Unlocked
     /\ grants' = [x \in DOMAIN grants \cup {id} |-> IF x = id THEN g ELSE grants[x]]
     /\ rowids' = Inserted(id)
     /\ call' = [Touched(id) EXCEPT ![p] = Begun("done")]
     /\ UNCHANGED <<provider, now>>

Delete(p) ==
  /\ At(p, "idle") /\ Unlocked
  /\ \E id \in GrantIds :
       /\ grants' = [x \in DOMAIN grants \ {id} |-> grants[x]]
       /\ rowids' = Removed(id)
       /\ call' = [Touched(id) EXCEPT ![p] = Begun("done")]
  /\ UNCHANGED <<provider, now>>

(* CheckResourceGrant: a request without an action is answered at once.    *)
BeginCheck(p) ==
  /\ At(p, "idle")
  /\ \E q \in Questions :
       LET pc == IF q.action = << >> THEN "done" ELSE "read" IN
       call' = [call EXCEPT ![p] = Fresh(pc, q, Nothing, now)]
  /\ UNCHANGED <<provider, now, grants, rowids>>

(* ORDER BY updated_at DESC, id DESC                                       *)
Bad_NewerRow(x, y) == grants[x].updated >= grants[y].updated
Bad_OlderRow(x, y) ==
  \/ grants[x].updated < grants[y].updated
  \/ grants[x].updated = grants[y].updated /\ Place(x) > Place(y)

NewerRow(x, y) ==
  \/ grants[x].updated > grants[y].updated
  \/ grants[x].updated = grants[y].updated /\ Place(x) > Place(y)

InOrder(S, before(_, _)) ==
  {s \in SetToSeqs(S) : \A i, j \in DOMAIN s : i < j => before(s[i], s[j])}

Selected(w) == {id \in DOMAIN grants : MatchesQuery(grants[id].body, w)}

Truncated(s, n) == SubSeq(s, 1, IF Len(s) > n THEN n ELSE Len(s))

(* What the loop of CheckResourceGrant will go through: the map under the  *)
(* read lock, in any order; or the result of one SELECT.                   *)
Bad_Read(p) ==
  /\ At(p, "read")
  /\ \E s \in SetToSeqs(DOMAIN grants) :
       call' = [call EXCEPT ![p].pc = "judge",
                  ![p].rows = [i \in DOMAIN Truncated(s, RowLimit) |-> Row(s[i])]]
  /\ UNCHANGED <<provider, now, grants, rowids>>

Read(p) ==
  /\ At(p, "read")
  /\ \/ Memory /\ \E s \in SetToSeqs(DOMAIN grants) :
          call' = [call EXCEPT ![p].pc = "judge", ![p].rows = [i \in DOMAIN s |-> Row(s[i])]]
     \/ Postgres /\ \E s \in InOrder(Selected(Resolved(call[p].q)), NewerRow) :
          LET top == Truncated(s, RowLimit) IN
          call' = [call EXCEPT ![p].pc = "judge", ![p].cut = top # s,
                               ![p].rows = [i \in DOMAIN top |-> Row(top[i])]]
  /\ UNCHANGED <<provider, now, grants, rowids>>

(* One turn of the loop, with its own look at the clock: the first row     *)
(* that is in force and concerns the request decides.                      *)
Bad_Judge(p) ==
  LET row == Head(call[p].rows) IN
  /\ At(p, "judge")
  /\ IF call[p].rows = << >> THEN Answer(p, "none")
     ELSE IF Concerns(row.g.body, call[p].q)
          THEN call' = [call EXCEPT ![p].pc = "done", ![p].rows = << >>, ![p].row = row,
                                    ![p].ans = row.g.body.effect]
          ELSE call' = [call EXCEPT ![p].rows = Tail(@)]
  /\ UNCHANGED <<provider, now, grants, rowids>>

Judge(p) ==
  LET row == Head(call[p].rows)
      decisive == Lives(row.g.body, now) /\ Concerns(row.g.body, call[p].q)
  IN /\ At(p, "judge")
     /\ \/ call[p].rows = << >> /\ Answer(p, "none")
        \/ /\ call[p].rows # << >> /\ ~decisive
           /\ call' = [call EXCEPT ![p].rows = Tail(@)]
        \/ /\ call[p].rows # << >> /\ decisive
           /\ call' = [call EXCEPT ![p].pc = "done", ![p].rows = << >>, ![p].row = row,
                         ![p].ans = IF row.g.body.effect = "deny" THEN "deny" ELSE "allow"]
     /\ UNCHANGED <<provider, now, grants, rowids>>

(* A caller fetches the grants page by page, until the total it was told.  *)
(* Postgres counts and selects in two statements.                          *)
BeginList(p) ==
  /\ At(p, "idle")
  /\ call' = [call EXCEPT ![p] = Begun(IF Memory THEN "page" ELSE "count")]
  /\ UNCHANGED <<provider, now, grants, rowids>>

Everything == [app |-> "", typ |-> "", rid |-> << >>]

Count(p) ==
  /\ At(p, "count")
  /\ call' = [call EXCEPT ![p].pc = "page", ![p].total = Cardinality(Selected(Everything))]
  /\ UNCHANGED <<provider, now, grants, rowids>>

(* The memory store sorts by time of creation, in whatever order those of  *)
(* the same millisecond come.                                              *)
CreatedLater(x, y) == grants[x].created >= grants[y].created

PageOf(s, offset) == Truncated(SubSeq(s, offset + 1, Len(s)), PageLimit)

(* The memory store counts under the lock under which it copies the page.  *)
Page(p) ==
  LET ids == Selected(Everything)
      total == IF Memory THEN Cardinality(ids) ELSE call[p].total
      next == call[p].offset + PageLimit
      take(s) == call' = [call EXCEPT
                   ![p].met = @ \o PageOf(s, call[p].offset), ![p].offset = next,
                   ![p].total = total,
                   ![p].pc = IF next >= total THEN "done" ELSE IF Memory THEN "page" ELSE "count"]
  IN /\ At(p, "page")
     /\ \/ Memory /\ \E s \in InOrder(ids, CreatedLater) : take(s)
        \/ Postgres /\ \E s \in InOrder(ids, NewerRow) : take(s)
     /\ UNCHANGED <<provider, now, grants, rowids>>

(* A statement fails, or its answer is lost (see Save and Delete for what  *)
(* it has done by then), or the caller has gone away.                      *)
Fail(p) ==
  /\ Postgres
  /\ call[p].pc \in {"save", "read", "count", "page"}
  /\ Answer(p, "error")
  /\ UNCHANGED <<provider, now, grants, rowids>>

Respond(p) ==
  /\ At(p, "done")
  /\ call' = [call EXCEPT ![p] = Idle]
  /\ UNCHANGED <<provider, now, grants, rowids>>

Tick ==
  /\ now < MaxTime
  /\ now' = now + 1
  /\ UNCHANGED <<provider, grants, rowids, call>>

--------------------------------------------------------------------------------
Init ==
  /\ provider \in Providers
  /\ now = 1          \* any time but 0, which stands for no expiry
  /\ grants = << >>
  /\ rowids = << >>
  /\ call = [p \in Procs |-> Idle]

Serve(p) ==
  \/ BeginSave(p)
  \/ Save(p)
  \/ Delete(p)
  \/ BeginCheck(p)
  \/ Read(p)
  \/ Judge(p)
  \/ BeginList(p)
  \/ Count(p)
  \/ Page(p)
  \/ Fail(p)
  \/ Respond(p)

Next ==
  \/ \E p \in Procs : Serve(p)
  \/ Tick

Spec == Init /\ [][Next]_vars

--------------------------------------------------------------------------------
TypeOK ==
  /\ provider \in Providers
  /\ now \in Nat
  /\ IsFiniteSet(DOMAIN grants) /\ DOMAIN grants \subseteq GrantIds
  /\ \A id \in DOMAIN grants :
       grants[id] \in Stored /\ grants[id].updated <= now
  /\ Postgres => rowids \in SetToSeqs(DOMAIN grants)
  /\ call \in [Procs -> Call]

Decided(p) == At(p, "done") /\ call[p].ans \in {"allow", "deny"}

(* The grants that have been as they are all the while p's request ran,    *)
(* are in force, and concern it.                                           *)
Standing(p) ==
  {id \in call[p].calm \cap DOMAIN grants :
     Lives(grants[id].body, now) /\ Concerns(grants[id].body, call[p].q)}

(* A resource named in full, with no wildcard and no object of its own.    *)
Plain(x) ==
  /\ "*" \notin Range(x.rid) \cup {x.app, x.typ}
  /\ x.object = <<x.app, x.typ>> \o x.rid

(* What the Postgres query leaves out, or the limit on its rows.           *)
Excused(p, id) ==
  /\ Postgres
  /\ \/ call[p].cut
     \/ ~Plain(grants[id].body)
     \/ ~Plain(Resolved(call[p].q))

(* No grant in force is overlooked: a request is told that none matches    *)
(* only if none did throughout.  With Postgres this is so for resources    *)
(* that are named in full, and up to the limit on rows: its WHERE clause   *)
(* compares names, so that it passes over wildcards (postgres.go:260-279). *)
NothingOverlooked ==
  \A p \in Procs :
    At(p, "done") /\ call[p].q # Nothing /\ call[p].ans = "none" =>
      \A id \in Standing(p) : Excused(p, id)

(* With Postgres the latest word counts: no grant decides a request if     *)
(* another one for the same resource, which was saved later and has stood  *)
(* throughout, says something about it, whatever is saved or expires       *)
(* meanwhile (postgres.go:196,237-256).                                    *)
LatestDecides ==
  \A p \in Procs : Decided(p) /\ Postgres =>
    \A id \in Standing(p) :
      Plain(grants[id].body) /\ Plain(Resolved(call[p].q))
        => grants[id].updated <= call[p].row.g.updated

(* No request is decided by a grant that had expired before it began       *)
(* (service.go:112, postgres.go:238).                                      *)
DecidedByLiving ==
  \A p \in Procs : Decided(p) => Lives(call[p].row.g.body, call[p].since)

Distinct == \A x, y \in DOMAIN grants : grants[x].created = grants[y].created => x = y

(* A caller who fetches all pages while nobody writes has met every grant  *)
(* once, provided, in the memory store, that no two were created in the    *)
(* same millisecond (service.go:59, postgres.go:196).                      *)
PagesComplete ==
  \A p \in Procs :
    /\ At(p, "done") /\ call[p].offset > 0 /\ call[p].ans # "error"
    /\ call[p].calm = GrantIds
    /\ Memory => Distinct
    => call[p].met \in SetToSeqs(DOMAIN grants)

--------------------------------------------------------------------------------
(* The invariant behind these, request by request.  A request has in hand  *)
(* what its next step needs, and was not decided by what had expired.      *)
InHand(p) ==
  /\ At(p, "save") => call[p].row \in Shown /\ call[p].row.g.updated <= now
  /\ call[p].pc \in {"read", "judge"} \/ Decided(p) => call[p].q \in Questions
  /\ call[p].pc \in {"save", "count", "page"} => call[p].q = Nothing
  /\ call[p].pc \in {"read", "judge"} => call[p].offset = 0
  /\ ~At(p, "done") => call[p].ans = "none"
  /\ ~At(p, "judge") => call[p].rows = << >>
  /\ Decided(p) => call[p].row \in Shown /\ Lives(call[p].row.g.body, call[p].since)
  /\ call[p].since <= now

(* A check of the memory store judges grants that are stored as it sees    *)
(* them: nobody replaces or deletes one under it (service.go:109-110).     *)
JudgesWhatIsStored(p) ==
  Memory /\ At(p, "judge") =>
    \A i \in DOMAIN call[p].rows :
      LET row == call[p].rows[i] IN row.id \in DOMAIN grants /\ row.g = grants[row.id]

(* A standing grant is among the rows that are still to be judged, or has  *)
(* an excuse.                                                              *)
Ahead(p, id) == \E i \in DOMAIN call[p].rows : call[p].rows[i] = Row(id)

PassesOverNothing(p) ==
  \/ At(p, "judge")
  \/ (At(p, "done") /\ call[p].q # Nothing /\ call[p].ans = "none")
  => \A id \in Standing(p) : Ahead(p, id) \/ Excused(p, id)

(* The rows of Postgres come in the order of their last saves, and those   *)
(* that were cut off would come after them.                                *)
LatestFirst(p) ==
  /\ At(p, "judge") /\ Postgres =>
       \A i, j \in DOMAIN call[p].rows :
         i < j => call[p].rows[i].g.updated >= call[p].rows[j].g.updated
  /\ At(p, "judge") /\ Postgres =>
       \A id \in Standing(p) : Plain(grants[id].body) /\ Plain(Resolved(call[p].q)) =>
         \/ Ahead(p, id)
         \/ \A i \in DOMAIN call[p].rows : call[p].rows[i].g.updated >= grants[id].updated
  /\ Decided(p) /\ Postgres =>
       \A id \in Standing(p) : Plain(grants[id].body) /\ Plain(Resolved(call[p].q)) =>
         grants[id].updated <= call[p].row.g.updated

(* The pages fetched so far are the beginning of the list, which has only  *)
(* one order.                                                              *)
List ==
  IF Memory THEN InOrder(DOMAIN grants, CreatedLater) ELSE InOrder(DOMAIN grants, NewerRow)

Paging(p) ==
  \/ call[p].pc \in {"count", "page"}
  \/ (At(p, "done") /\ call[p].offset > 0 /\ call[p].ans # "error")

PagesFollow(p) ==
  Paging(p) /\ call[p].calm = GrantIds /\ (Memory => Distinct) =>
    /\ IF call[p].offset = 0 THEN call[p].met = << >>
       ELSE \E s \in List : call[p].met = Truncated(s, call[p].offset)
    /\ At(p, "page") /\ Postgres => call[p].total = Cardinality(DOMAIN grants)
    /\ At(p, "done") => Cardinality(DOMAIN grants) <= call[p].offset

Served(p) ==
  /\ InHand(p)
  /\ JudgesWhatIsStored(p)
  /\ PassesOverNothing(p)
  /\ LatestFirst(p)
  /\ PagesFollow(p)

(* Inductive; it gives the properties above.                               *)
IInv == TypeOK /\ \A p \in Procs : Served(p)
================================================================================
