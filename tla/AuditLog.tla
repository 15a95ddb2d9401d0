-------------------------------- MODULE AuditLog --------------------------------
(***************************************************************************)
(* MemoryService of internal/audit: a ring of events under one mutex, the  *)
(* pages of it that the routes give, and a caller of the SDK's ListAudit   *)
(* who goes through those pages while others write.  The module has the    *)
(* operations; ServerLifecycle has the requests that call them.            *)
(*                                                                         *)
(* An event is the number of its write and its kind, which stands for all  *)
(* that a filter can ask for.                                              *)
(***************************************************************************)
EXTENDS Integers, Sequences, FiniteSets

CONSTANTS
  Kinds,          \* what filters tell apart
  AnyKind,        \* the filter that is left empty
  MaxEvents,      \* defaultMaxEvents
  DefaultLimit,   \* defaultListLimit
  MaxLimit,       \* maxListLimit
  Asks,           \* limits a caller asks for
  Fits            \* events whose JSON the SDK reads: maxErrorBodyBytes

ASSUME AnyKindAssumption == AnyKind \notin Kinds
ASSUME MaxEventsAssumption == MaxEvents \in Nat \ {0}
ASSUME LimitsAssumption ==
  DefaultLimit \in Nat \ {0} /\ MaxLimit \in Nat /\ DefaultLimit <= MaxLimit
ASSUME AsksAssumption == Asks \subseteq Int
ASSUME FitsAssumption == Fits \in Nat

VARIABLES
  events,         \* MemoryService.events, the oldest first
  closed,         \* MemoryService.closed
  stored,         \* history: how many events this process has stored
  pager           \* a caller that goes through the pages

auditVars == <<events, closed, stored, pager>>

Event == [no : Nat \ {0}, kind : Kinds]

Pager == [state : {"idle", "paging", "done"},
          kind  : Kinds \cup {AnyKind},   \* its filter
          ask   : Asks \cup {0},          \* the limit it asks for
          offset : Nat,
          unseen : SUBSET (Nat \ {0})]    \* history: what matched when it began
                                          \* and no page has shown yet

NoPager == [state |-> "idle", kind |-> AnyKind, ask |-> 0, offset |-> 0, unseen |-> {}]

(* Definitions named Bad_ are slips of the code that the runs must notice; *)
(* each stands before what it would replace, and nothing uses it.          *)

matches(event, filter) == filter = AnyKind \/ event.kind = filter

Matching(filter) == {i \in 1 .. Len(events) : matches(events[i], filter)}

(* List goes through the ring from its end: how many it has matched when   *)
(* it comes to event i.                                                    *)
Bad_Matched(i, filter) == Cardinality({j \in Matching(filter) : j < i})
Matched(i, filter) == Cardinality({j \in Matching(filter) : j > i})

LimitOf(ask) ==
  IF ask <= 0 THEN DefaultLimit ELSE IF ask > MaxLimit THEN MaxLimit ELSE ask

(* The numbers of the events on a page.                                    *)
Page(filter, ask, offset) ==
  {events[i].no : i \in {j \in Matching(filter) :
     /\ Matched(j, filter) >= offset
     /\ Matched(j, filter) < offset + LimitOf(ask)}}

--------------------------------------------------------------------------------
(* Write, under the mutex, of a service that is not closed.                *)
Bad_Write(kind) ==
  /\ events' = Append(IF Len(events) > MaxEvents THEN Tail(events) ELSE events,
                      [no |-> stored + 1, kind |-> kind])
  /\ stored' = stored + 1
  /\ UNCHANGED <<closed, pager>>

Write(kind) ==
  /\ events' = Append(IF Len(events) >= MaxEvents THEN Tail(events) ELSE events,
                      [no |-> stored + 1, kind |-> kind])
  /\ stored' = stored + 1
  /\ UNCHANGED <<closed, pager>>

(* Close keeps the events, and List goes on to answer.                     *)
Close ==
  /\ closed' = TRUE
  /\ UNCHANGED <<events, stored, pager>>

(* A caller begins to go through all that matches its filter.              *)
StartPaging ==
  /\ pager.state # "paging"
  /\ \E kind \in Kinds \cup {AnyKind}, ask \in Asks :
       pager' = [NoPager EXCEPT !.state = "paging", !.kind = kind, !.ask = ask,
                   !.unseen = {events[i].no : i \in Matching(kind)}]
  /\ UNCHANGED <<events, closed, stored>>

(* One page of it.  The caller goes on by the limit in the answer until    *)
(* that passes the total in the answer.  The SDK cuts the body of every    *)
(* answer to the length meant for errors; what is left of a longer one     *)
(* cannot be decoded, and the caller gives up.                             *)
Paged(next, total, page) ==
  LET unseen == pager.unseen \ page
  IN IF next >= total
     THEN [NoPager EXCEPT !.state = "done", !.unseen = unseen]
     ELSE [pager EXCEPT !.offset = next, !.unseen = unseen]

List ==
  LET page == Page(pager.kind, pager.ask, pager.offset)
      next == pager.offset + LimitOf(pager.ask)
      total == Cardinality(Matching(pager.kind))
  IN /\ pager' = IF Cardinality(page) > Fits THEN NoPager ELSE Paged(next, total, page)
     /\ UNCHANGED <<events, closed, stored>>

AuditInit ==
  /\ events = << >>
  /\ closed = FALSE
  /\ stored = 0
  /\ pager = NoPager

--------------------------------------------------------------------------------
(* What the ring and the pager of it are.                                  *)
AuditTypeOK ==
  /\ events \in Seq(Event)
  /\ closed \in BOOLEAN
  /\ stored \in Nat
  /\ pager \in Pager

(* The ring holds the last events written, MaxEvents of them if there were *)
(* as many, in the order of their writes: an event that was acknowledged   *)
(* is listed until MaxEvents later ones have been written                  *)
(* (memory.go:42-54).                                                      *)
RingIsLatest ==
  /\ Len(events) = IF stored < MaxEvents THEN stored ELSE MaxEvents
  /\ \A i \in 1 .. Len(events) : events[i].no = stored - Len(events) + i

(* Going through the pages misses nothing: a caller that is through has    *)
(* seen every event that matched when it began, except those the ring has  *)
(* dropped since, however many were written between its pages and          *)
(* whatever limit it asked for (memory.go:56-88, http_client.go:181-191).  *)
PagesComplete ==
  pager.state = "done" =>
    \A i \in 1 .. Len(events) : events[i].no \notin pager.unseen

(* Why: what it has not seen lies at its offset or beyond, however far     *)
(* later writes push it.                                                   *)
UnseenIsAhead ==
  /\ \A n \in pager.unseen : n <= stored
  /\ \A i \in 1 .. Len(events) :
       events[i].no \in pager.unseen =>
         /\ pager.state = "paging"
         /\ i \in Matching(pager.kind)
         /\ Matched(i, pager.kind) >= pager.offset

AuditInv == AuditTypeOK /\ RingIsLatest /\ UnseenIsAhead
================================================================================
