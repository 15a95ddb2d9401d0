--------------------------- MODULE SessionCallsProofs ---------------------------
(***************************************************************************)
(* What is true of the requests of the authn service whatever the session  *)
(* store does, for any number of goroutines and ids: a store's operation   *)
(* or a step of the service keeps SessionCalls!CallInv.  The proofs about  *)
(* the two stores cite these lemmas.                                       *)
(***************************************************************************)
EXTENDS SessionCalls, TLAPS

(* What the invariant says of the record of one request.                   *)
RequestOK(r) ==
  /\ r \in Call
  /\ r.pc = "idle" => r = Idle
  /\ r.pc # "idle" => r.op # "idle" /\ r.sid \in Ids
  /\ r.pc = "create" => r.op = "callback"
  /\ r.pc = "delete" => r.op = "logout"
  /\ r.pc \in {"get", "decode", "getdel", "check", "touch", "svcdel"} => r.op = "current"
  /\ r.pc = "get" => ~r.saw
  /\ r.pc \in {"check", "touch"} => r.saw
  /\ r.late => r.pc \in {"get", "delete", "done"} /\ r.ans # "active"

(* Where its id came from, given the ids the browsers have.                *)
OriginOK(r) ==
  /\ r.op = "callback" => r.sid \in minted \ issued
  /\ r.op \in {"current", "logout"} => r.sid \in issued
  /\ r.late => r.sid \in ended

LEMMA RequestsOK == ASSUME CallInv, NEW p \in Procs PROVE RequestOK(call[p]) /\ OriginOK(call[p])
BY DEF CallInv, CallTypeOK, StepsOfOps, MintedOnce, LateIsBlind, At, RequestOK, OriginOK

(* A store operation moves the request of one goroutine forward and draws  *)
(* or hands out no id: the request clauses survive when the new record is  *)
(* sound.                                                                  *)
LEMMA RequestMoves ==
  ASSUME CallInv, NEW p \in Procs, NEW r,
         call' = [call EXCEPT ![p] = r],
         RequestOK(r), r.op = call[p].op, r.sid = call[p].sid, r.late = call[p].late,
         UNCHANGED <<sliding, now, minted, issued, ended>>
  PROVE  CallInv'
<1>1. /\ call'[p] = r
      /\ \A q \in Procs \ {p} : call'[q] = call[q]
  BY DEF CallInv, CallTypeOK
<1>2. \A q \in Procs : RequestOK(call'[q])
  BY <1>1, RequestsOK
<1>3. \A q \in Procs : call'[q].op = call[q].op /\ call'[q].sid = call[q].sid
                       /\ call'[q].late = call[q].late
  BY <1>1
<1>4. CallTypeOK'
  BY <1>1, <1>2 DEF CallInv, CallTypeOK, RequestOK
<1>5. StepsOfOps'
  BY <1>2 DEF StepsOfOps, At, RequestOK
<1>6. MintedOnce'
  BY <1>3 DEF CallInv, MintedOnce
<1>7. LateIsBlind'
  BY <1>2, <1>3 DEF CallInv, LateIsBlind, RequestOK
<1> QED
  BY <1>4, <1>5, <1>6, <1>7 DEF CallInv

(* The two ways a store operation moves a request.                         *)
LEMMA AnswerMoves ==
  ASSUME CallInv, NEW p \in Procs, NEW a \in {"none", "active", "ok", "full", "err"},
         call[p].pc \notin {"idle", "done"},
         call[p].late => a # "active",
         Answer(p, a),
         UNCHANGED <<sliding, now, minted, issued, ended>>
  PROVE  /\ CallInv'
         /\ call'[p].pc = "done" /\ call'[p].ans = a /\ call'[p].exp = call[p].exp
         /\ \A q \in Procs : call'[q].op = call[q].op /\ call'[q].sid = call[q].sid
         /\ \A q \in Procs \ {p} : call'[q] = call[q]
<1> DEFINE r == [call[p] EXCEPT !.pc = "done", !.ans = a]
<1>1. RequestOK(call[p])
  BY RequestsOK
<1>2. r \in Call /\ r.pc = "done" /\ r.ans = a /\ r.op = call[p].op
      /\ r.sid = call[p].sid /\ r.late = call[p].late /\ r.exp = call[p].exp
  BY <1>1 DEF RequestOK, Call
<1>3. RequestOK(r)
  BY <1>1, <1>2 DEF RequestOK
<1>4. call' = [call EXCEPT ![p] = r]
  BY DEF Answer, CallInv, CallTypeOK
<1> HIDE DEF r
<1>5. CallInv'
  BY <1>2, <1>3, <1>4, RequestMoves
<1>6. call'[p] = r /\ \A q \in Procs \ {p} : call'[q] = call[q]
  BY <1>4 DEF CallInv, CallTypeOK
<1> QED
  BY <1>2, <1>5, <1>6

LEMMA RunsOn ==
  ASSUME CallInv, NEW p \in Procs, NEW pc \in {"decode", "getdel", "check", "touch", "svcdel"},
         call[p].pc \in {"get", "decode", "check"},
         ~call[p].late,
         NEW e \in Nat, NEW s \in BOOLEAN, pc \in {"check", "touch"} => s,
         call' = [call EXCEPT ![p].pc = pc, ![p].exp = e, ![p].saw = s],
         UNCHANGED <<sliding, now, minted, issued, ended>>
  PROVE  /\ CallInv'
         /\ call'[p].pc = pc /\ call'[p].exp = e /\ call'[p].saw = s
         /\ \A q \in Procs : /\ call'[q].op = call[q].op
                             /\ call'[q].sid = call[q].sid
                             /\ call'[q].ans = call[q].ans
         /\ \A q \in Procs \ {p} : call'[q] = call[q]
<1> DEFINE r == [call[p] EXCEPT !.pc = pc, !.exp = e, !.saw = s]
<1>1. RequestOK(call[p])
  BY RequestsOK
<1>2. r \in Call /\ r.pc = pc /\ r.ans = call[p].ans /\ r.op = call[p].op
      /\ r.sid = call[p].sid /\ r.late = call[p].late /\ r.exp = e /\ r.saw = s
  BY <1>1 DEF RequestOK, Call, StorePC
<1>3. RequestOK(r)
  BY <1>1, <1>2 DEF RequestOK
<1>4. call' = [call EXCEPT ![p] = r]
  BY DEF CallInv, CallTypeOK
<1> HIDE DEF r
<1>5. CallInv'
  BY <1>2, <1>3, <1>4, RequestMoves
<1>6. call'[p] = r /\ \A q \in Procs \ {p} : call'[q] = call[q]
  BY <1>4 DEF CallInv, CallTypeOK
<1> QED
  BY <1>2, <1>5, <1>6

LEMMA ReadMoves ==
  ASSUME CallInv, NEW p \in Procs, NEW pc \in {"decode", "check"}, NEW e \in Nat,
         call[p].pc = "get",
         ~call[p].late,
         GotRead(p, pc, e), pc = "check" => now <= e,
         UNCHANGED <<sliding, now, minted, issued, ended>>
  PROVE  /\ CallInv'
         /\ call'[p].pc = pc /\ call'[p].exp = e /\ (call'[p].saw <=> now <= e)
         /\ \A q \in Procs : /\ call'[q].op = call[q].op
                             /\ call'[q].sid = call[q].sid
                             /\ call'[q].ans = call[q].ans
         /\ \A q \in Procs \ {p} : call'[q] = call[q]
<1>1. call' = [call EXCEPT ![p].pc = pc, ![p].exp = e, ![p].saw = (now <= e)]
  BY DEF GotRead
<1>2. (now <= e) \in BOOLEAN
  OBVIOUS
<1>3. pc \in {"decode", "getdel", "check", "touch", "svcdel"}
  OBVIOUS
<1>4. pc \in {"check", "touch"} => now <= e
  OBVIOUS
<1> QED
  BY <1>1, <1>2, <1>3, <1>4, RunsOn

(* Goto moves the program counter alone.                                   *)
LEMMA GotoMoves ==
  ASSUME CallInv, NEW p \in Procs, NEW pc \in {"getdel", "check", "touch", "svcdel"},
         call[p].pc \in {"get", "decode", "check"},
         ~call[p].late,
         Goto(p, pc), pc \in {"check", "touch"} => call[p].saw,
         UNCHANGED <<sliding, now, minted, issued, ended>>
  PROVE  /\ CallInv'
         /\ call'[p].pc = pc /\ call'[p].exp = call[p].exp
         /\ call'[p].saw = call[p].saw
         /\ \A q \in Procs : /\ call'[q].op = call[q].op
                             /\ call'[q].sid = call[q].sid
                             /\ call'[q].ans = call[q].ans
         /\ \A q \in Procs \ {p} : call'[q] = call[q]
<1> DEFINE r == [call[p] EXCEPT !.pc = pc]
<1>1. RequestOK(call[p])
  BY RequestsOK
<1>2. r \in Call /\ r.pc = pc /\ r.ans = call[p].ans /\ r.op = call[p].op
      /\ r.sid = call[p].sid /\ r.late = call[p].late /\ r.exp = call[p].exp
      /\ r.saw = call[p].saw
  BY <1>1 DEF RequestOK, Call, StorePC
<1>3. RequestOK(r)
  BY <1>1, <1>2 DEF RequestOK
<1>4. call' = [call EXCEPT ![p] = r]
  BY DEF Goto, CallInv, CallTypeOK
<1> HIDE DEF r
<1>5. CallInv'
  BY <1>2, <1>3, <1>4, RequestMoves
<1>6. call'[p] = r /\ \A q \in Procs \ {p} : call'[q] = call[q]
  BY <1>4 DEF CallInv, CallTypeOK
<1> QED
  BY <1>2, <1>5, <1>6

--------------------------------------------------------------------------------
(* The steps of the service between the store's operations.                *)
LEMMA CallInitInv ==
  ASSUME CallInit
  PROVE  /\ CallInv
         /\ \A p \in Procs : call[p].pc = "idle" /\ call[p].op = "idle" /\ call[p].ans = "none"
<1>1. \A p \in Procs : /\ call[p] = Idle
                        /\ call[p].pc = "idle" /\ call[p].op = "idle"
                        /\ call[p].late = FALSE /\ call[p].ans = "none"
  BY DEF CallInit, Idle
<1>2. Idle \in Call
  BY DEF Idle, Call
<1>3. CallTypeOK
  BY <1>2 DEF CallInit, CallTypeOK
<1>4. StepsOfOps /\ MintedOnce /\ LateIsBlind
  BY <1>1 DEF StepsOfOps, MintedOnce, LateIsBlind, At
<1> QED
  BY <1>1, <1>3, <1>4 DEF CallInv

LEMMA BeginMoves ==
  ASSUME CallInv, NEW p \in Procs,
         NEW op \in {"callback", "current", "logout"}, NEW id \in Ids,
         NEW pc \in {"create", "get", "delete"}, NEW e \in Nat,
         Begin(p, op, id, pc, e),
         pc = "create" <=> op = "callback",
         pc = "get" <=> op = "current",
         op = "callback" => id \notin minted /\ minted' = minted \cup {id},
         op # "callback" => id \in issued /\ minted' = minted,
         UNCHANGED <<sliding, now, issued, ended>>
  PROVE  /\ CallInv'
         /\ call[p].pc = "idle"
         /\ call'[p].pc = pc /\ call'[p].sid = id /\ call'[p].exp = e
         /\ call'[p].op = op /\ call'[p].saw = FALSE
         /\ call'[p].ans = "none"
         /\ \A q \in Procs \ {p} : call'[q] = call[q]
<1>0. PICK late \in BOOLEAN : late = (id \in ended)
  <2>1. CASE id \in ended
    <3>1. TRUE = (id \in ended)
      BY <2>1
    <3> QED
      BY <3>1, Zenon
  <2>2. CASE id \notin ended
    <3>1. FALSE = (id \in ended)
      BY <2>2
    <3> QED
      BY <3>1, Zenon
  <2> QED
    BY <2>1, <2>2
<1> DEFINE r == [Idle EXCEPT !.op = op, !.sid = id, !.pc = pc, !.exp = e, !.late = late]
<1>1. /\ r \in Call
      /\ r.op = op /\ r.sid = id /\ r.pc = pc /\ r.ans = "none"
      /\ r.late = late /\ r.exp = e /\ r.saw = FALSE
  BY DEF Idle, Call, StorePC
<1>2. call' = [call EXCEPT ![p] = r]
  BY <1>0 DEF Begin
<1> HIDE DEF r
<1>3. call'[p] = r /\ \A q \in Procs \ {p} : call'[q] = call[q]
  BY <1>2 DEF CallInv, CallTypeOK
<1>4. CallTypeOK'
  BY <1>1, <1>2 DEF CallInv, CallTypeOK
<1>5. StepsOfOps'
  BY <1>1, <1>3 DEF CallInv, StepsOfOps, At
<1>6. MintedOnce'
  <2>1. ASSUME NEW q \in Procs PROVE OriginOK(call[q]) /\ (call[q].op = "callback" => q # p)
    <3>1. call[p].op = "idle"
      BY DEF CallInv, StepsOfOps, Begin, At, Idle
    <3> QED
      BY <3>1, RequestsOK
  <2>2. issued \subseteq minted
    BY DEF CallInv, CallTypeOK
  <2>3. ASSUME NEW q \in Procs
        PROVE  /\ call'[q].op = "callback" => call'[q].sid \in minted' \ issued'
               /\ call'[q].op \in {"current", "logout"} => call'[q].sid \in issued'
    BY <1>1, <1>3, <2>1, <2>2 DEF OriginOK
  <2>4. ASSUME NEW q \in Procs, NEW o \in Procs \ {q},
               call'[q].op = "callback", call'[o].op = "callback"
        PROVE  call'[o].sid # call'[q].sid
    <3>1. CASE q # p /\ o # p
      BY <3>1, <1>3, <2>4 DEF CallInv, MintedOnce
    <3>2. CASE q = p
      BY <3>2, <1>1, <1>3, <2>1, <2>4 DEF OriginOK
    <3>3. CASE o = p
      BY <3>3, <1>1, <1>3, <2>1, <2>4 DEF OriginOK
    <3> QED
      BY <3>1, <3>2, <3>3
  <2> QED
    BY <2>3, <2>4 DEF MintedOnce
<1>7. LateIsBlind'
  <2>1. ended \subseteq minted
    BY DEF CallInv, CallTypeOK
  <2>2. r.late => r.sid \in ended /\ r.pc \in {"get", "delete", "done"} /\ r.ans # "active"
    BY <1>0, <1>1, <2>1
  <2> QED
    BY <1>3, <2>2 DEF CallInv, LateIsBlind
<1> QED
  BY <1>1, <1>3, <1>4, <1>5, <1>6, <1>7 DEF CallInv, Begin, At

(* What remains of the service's steps, with what a proof about a store    *)
(* needs to know of each: who began, and what became of the one that began.*)
Began(p) ==
  /\ call[p].pc = "idle"
  /\ call'[p].op \in {"callback", "current", "logout"} /\ call'[p].sid \in Ids
  /\ call'[p].saw = FALSE /\ call'[p].ans = "none"
  /\ call'[p].pc \in {"create", "get", "delete"}
  /\ call'[p].pc = "create" => call'[p].sid \notin minted /\ call'[p].exp = now + TTL
  /\ \A q \in Procs \ {p} : call'[q] = call[q]
  /\ minted \subseteq minted'
  /\ UNCHANGED <<now, issued, ended>>

LEMMA CallbackMoves == ASSUME CallInv, NEW p \in Procs, BeginCallback(p) PROVE CallInv' /\ Began(p)
<1>1. PICK id \in Ids \ minted : /\ Begin(p, "callback", id, "create", now + TTL)
                                 /\ minted' = minted \cup {id}
                                 /\ UNCHANGED <<sliding, now, issued, ended>>
  BY DEF BeginCallback
<1>2. now + TTL \in Nat
  BY TTLAssumption DEF CallInv, CallTypeOK
<1>3. CallInv' /\ call'[p].pc = "create" /\ call'[p].sid = id /\ call'[p].exp = now + TTL
      /\ call[p].pc = "idle" /\ call'[p].op = "callback" /\ call'[p].saw = FALSE
      /\ call'[p].ans = "none" /\ \A q \in Procs \ {p} : call'[q] = call[q]
  BY <1>1, <1>2, BeginMoves
<1> QED
  BY <1>1, <1>3 DEF Began

LEMMA CurrentMoves ==
  ASSUME CallInv, NEW p \in Procs, BeginCurrent(p) \/ BeginLogout(p)
  PROVE  CallInv' /\ Began(p)
<1>0. issued \subseteq Ids
  BY DEF CallInv, CallTypeOK
<1>1. UNCHANGED <<sliding, now, minted, issued, ended>>
  BY DEF BeginCurrent, BeginLogout
<1>2. CASE BeginCurrent(p)
  <2>1. PICK id \in issued : Begin(p, "current", id, "get", 0)
    BY <1>2 DEF BeginCurrent
  <2>2. CallInv' /\ call'[p].pc = "get" /\ call'[p].ans = "none" /\ call'[p].sid = id
        /\ call[p].pc = "idle" /\ call'[p].op = "current" /\ call'[p].saw = FALSE
        /\ \A q \in Procs \ {p} : call'[q] = call[q]
    BY <1>0, <1>1, <2>1, BeginMoves
  <2> QED
    BY <1>0, <1>1, <2>1, <2>2 DEF Began
<1>3. CASE BeginLogout(p)
  <2>1. PICK id \in issued : Begin(p, "logout", id, "delete", 0)
    BY <1>3 DEF BeginLogout
  <2>2. CallInv' /\ call'[p].pc = "delete" /\ call'[p].ans = "none" /\ call'[p].sid = id
        /\ call[p].pc = "idle" /\ call'[p].op = "logout" /\ call'[p].saw = FALSE
        /\ \A q \in Procs \ {p} : call'[q] = call[q]
    BY <1>0, <1>1, <2>1, BeginMoves
  <2> QED
    BY <1>0, <1>1, <2>1, <2>2 DEF Began
<1> QED
  BY <1>2, <1>3

LEMMA CheckMoves ==
  ASSUME CallInv, NEW p \in Procs, CurrentCheck(p)
  PROVE  /\ CallInv'
         /\ call'[p].exp = call[p].exp
         /\ \/ call'[p].pc = "svcdel" /\ now > call[p].exp
            \/ call'[p].pc \in {"touch", "done"}
         /\ call[p].op = "current" /\ call[p].pc = "check" /\ call[p].saw
         /\ call'[p].op = "current" /\ call'[p].sid = call[p].sid
         /\ \/ call'[p].pc # "done" /\ call'[p].saw = call[p].saw /\ call'[p].ans = call[p].ans
            \/ Answer(p, "active")
         /\ \A q \in Procs \ {p} : call'[q] = call[q]
         /\ UNCHANGED <<sliding, now, minted, issued, ended>>
<1>0. RequestOK(call[p]) /\ call[p].pc = "check" /\ call[p].op = "current"
  BY RequestsOK DEF CurrentCheck, At, RequestOK
<1>1. ~call[p].late /\ call[p].saw
  BY <1>0 DEF RequestOK
<1>2. UNCHANGED <<sliding, now, minted, issued, ended>>
  BY DEF CurrentCheck
<1>3. CASE now > call[p].exp /\ Goto(p, "svcdel")
  BY <1>0, <1>1, <1>2, <1>3, GotoMoves
<1>4. CASE Goto(p, "touch")
  BY <1>0, <1>1, <1>2, <1>4, GotoMoves
<1>5. CASE Answer(p, "active")
  BY <1>0, <1>1, <1>2, <1>5, AnswerMoves
<1> QED
  BY <1>3, <1>4, <1>5 DEF CurrentCheck

(* The answer of a callback gives its id to the browser; the answer of a   *)
(* logout makes its id ended.                                              *)
LEMMA RespondMoves ==
  ASSUME CallInv, NEW p \in Procs, Respond(p)
  PROVE  /\ CallInv'
         /\ call[p].pc = "done" /\ call'[p] = Idle
         /\ \A q \in Procs \ {p} : call'[q] = call[q]
         /\ \/ ended' = ended
            \/ call[p].op = "logout" /\ call[p].ans = "ok" /\ ended' = ended \cup {call[p].sid}
         /\ issued \subseteq issued'
         /\ UNCHANGED <<sliding, now, minted>>
<1> DEFINE id == call[p].sid
<1>0. RequestOK(call[p]) /\ OriginOK(call[p]) /\ call[p].pc = "done"
  BY RequestsOK DEF Respond, At
<1>1. UNCHANGED <<sliding, now, minted>>
  BY DEF Respond
<1>2. /\ Idle \in Call /\ Idle.pc = "idle" /\ Idle.op = "idle" /\ Idle.late = FALSE
      /\ Idle.ans = "none"
  BY DEF Idle, Call
<1>3. call'[p] = Idle /\ call' \in [Procs -> Call] /\ \A q \in Procs \ {p} : call'[q] = call[q]
  BY <1>2 DEF Respond, CallInv, CallTypeOK
<1>4. /\ issued \subseteq issued' /\ issued' \subseteq issued \cup {id}
      /\ id \in issued' \ issued => call[p].op = "callback"
  BY DEF Respond
<1>5. /\ ended' = ended \/ (call[p].op = "logout" /\ call[p].ans = "ok" /\ ended' = ended \cup {id})
  BY DEF Respond
<1>6. CallTypeOK'
  <2>1. issued' \subseteq minted /\ ended' \subseteq issued'
    BY <1>0, <1>4, <1>5 DEF OriginOK, CallInv, CallTypeOK
  <2> QED
    BY <1>1, <1>3, <2>1 DEF CallInv, CallTypeOK
<1>7. StepsOfOps'
  BY <1>2, <1>3 DEF CallInv, StepsOfOps, At
<1>8. MintedOnce'
  <2> SUFFICES ASSUME NEW q \in Procs
               PROVE  /\ call'[q].op = "callback" =>
                           /\ call'[q].sid \in minted' \ issued'
                           /\ \A o \in Procs \ {q} :
                                call'[o].op = "callback" => call'[o].sid # call'[q].sid
                      /\ call'[q].op \in {"current", "logout"} => call'[q].sid \in issued'
    BY DEF MintedOnce
  <2>1. CASE q = p
    BY <2>1, <1>2, <1>3
  <2>2. CASE q # p /\ call[q].op = "callback"
    <3>1. call[q].sid \in minted \ issued /\ call'[q] = call[q]
      BY <2>2, <1>3 DEF CallInv, MintedOnce
    <3>2. call[p].op = "callback" => call[q].sid # id
      BY <2>2 DEF CallInv, MintedOnce
    <3>3. call[q].sid \notin issued'
      BY <3>1, <3>2, <1>4
    <3>4. \A o \in Procs \ {q} : call'[o].op = "callback" => call'[o].sid # call'[q].sid
      BY <2>2, <1>2, <1>3 DEF CallInv, MintedOnce
    <3> QED
      BY <2>2, <3>1, <3>3, <3>4, <1>1
  <2>3. CASE q # p /\ call[q].op # "callback"
    BY <2>3, <1>3, <1>4 DEF CallInv, MintedOnce
  <2> QED
    BY <2>1, <2>2, <2>3
<1>9. LateIsBlind'
  BY <1>2, <1>3, <1>5 DEF CallInv, LateIsBlind
<1> QED
  BY <1>0, <1>1, <1>3, <1>4, <1>5, <1>6, <1>7, <1>8, <1>9 DEF CallInv

LEMMA DisconnectMoves ==
  ASSUME CallInv, NEW p \in Procs, Disconnect(p)
  PROVE  /\ CallInv'
         /\ \A q \in Procs :
              /\ call'[q].op = call[q].op /\ call'[q].ans = call[q].ans
              /\ call'[q].sid = call[q].sid /\ call'[q].pc = call[q].pc
              /\ call'[q].saw = call[q].saw
<1> DEFINE r == [call[p] EXCEPT !.dead = TRUE]
<1>1. /\ r \in Call /\ r.op = call[p].op /\ r.sid = call[p].sid /\ r.pc = call[p].pc
      /\ r.late = call[p].late /\ r.ans = call[p].ans /\ r.saw = call[p].saw /\ r.pc # "idle"
      /\ RequestOK(call[p])
  BY RequestsOK DEF RequestOK, Call, Disconnect
<1>2. call' = [call EXCEPT ![p] = r]
  BY DEF Disconnect, CallInv, CallTypeOK
<1>3. UNCHANGED <<sliding, now, minted, issued, ended>>
  BY DEF Disconnect
<1>4. RequestOK(r)
  BY <1>1 DEF RequestOK
<1> HIDE DEF r
<1>5. call'[p] = r /\ \A q \in Procs \ {p} : call'[q] = call[q]
  BY <1>2 DEF CallInv, CallTypeOK
<1>6. CallInv'
  BY <1>1, <1>2, <1>3, <1>4, RequestMoves
<1> QED
  BY <1>1, <1>5, <1>6

(* The clock and the janitors leave every request as it is.                *)
LEMMA ClockMoves ==
  ASSUME CallInv, UNCHANGED <<sliding, call, minted, issued, ended>>, now' \in {now, now + 1}
  PROVE  CallInv'
<1>1. CallTypeOK'
  BY DEF CallInv, CallTypeOK
<1>2. StepsOfOps' /\ MintedOnce' /\ LateIsBlind'
  BY DEF CallInv, StepsOfOps, MintedOnce, LateIsBlind, At
<1> QED
  BY <1>1, <1>2 DEF CallInv

--------------------------------------------------------------------------------
(* What SessionContract is shown of a request: the ways its query changes. *)
Unasked == [phase |-> "idle", op |-> "idle", sid |-> NoId, ans |-> "none"]

Asks(p) ==
  /\ QueryOf(p) = Unasked
  /\ \E op \in {"callback", "current", "logout"}, id \in Ids :
       QueryOf(p)' = [phase |-> "asked", op |-> op, sid |-> id, ans |-> "none"]

Sees(p) ==
  /\ QueryOf(p).phase = "asked" /\ QueryOf(p).op = "current"
  /\ QueryOf(p)' = [QueryOf(p) EXCEPT !.phase = "seen"]

Replies(p, a) ==
  /\ QueryOf(p).phase \in {"asked", "seen"}
  /\ a = "active" => QueryOf(p).phase = "seen"
  /\ QueryOf(p).op = "current" => a \in {"active", "none"}
  /\ QueryOf(p)' = [QueryOf(p) EXCEPT !.phase = "done", !.ans = a]

Clears(p) == QueryOf(p).phase = "done" /\ QueryOf(p)' = Unasked

Silent(p) == QueryOf(p)' = QueryOf(p)

LEMMA QueryFields ==
  ASSUME NEW p
  PROVE  /\ QueryOf(p).phase = PhaseOf(p) /\ QueryOf(p).op = call[p].op
         /\ QueryOf(p).sid = call[p].sid /\ QueryOf(p).ans = call[p].ans
BY DEF QueryOf

LEMMA SilentWhen ==
  ASSUME NEW p \in Procs,
         call'[p].op = call[p].op, call'[p].sid = call[p].sid, call'[p].ans = call[p].ans,
         \/ call'[p].pc = call[p].pc
         \/ call'[p].pc \notin {"idle", "done"} /\ call[p].pc \notin {"idle", "done"},
         call'[p].saw = call[p].saw
  PROVE  Silent(p)
BY DEF Silent, QueryOf, PhaseOf

LEMMA BeganAsks == ASSUME CallInv, NEW p \in Procs, Began(p) PROVE Asks(p)
<1>1. call[p] = Idle
  BY RequestsOK DEF Began, RequestOK
<1>2. QueryOf(p) = Unasked
  BY <1>1 DEF QueryOf, PhaseOf, Idle, Unasked
<1>3. QueryOf(p)' = [phase |-> "asked", op |-> call'[p].op, sid |-> call'[p].sid, ans |-> "none"]
  BY DEF QueryOf, PhaseOf, Began
<1> QED
  BY <1>2, <1>3 DEF Asks, Began

LEMMA ReadSees ==
  ASSUME CallInv, NEW p \in Procs, call[p].pc = "get",
         call'[p].pc \in {"decode", "check"}, call'[p].saw,
         call'[p].op = call[p].op, call'[p].sid = call[p].sid, call'[p].ans = call[p].ans
  PROVE  Sees(p)
<1>1. ~call[p].saw /\ call[p].op = "current"
  BY RequestsOK DEF RequestOK
<1>2. QueryOf(p) = [phase |-> "asked", op |-> "current", sid |-> call[p].sid, ans |-> call[p].ans]
  BY <1>1 DEF QueryOf, PhaseOf
<1>3. QueryOf(p)' = [phase |-> "seen", op |-> "current", sid |-> call[p].sid, ans |-> call[p].ans]
  BY <1>1 DEF QueryOf, PhaseOf
<1> QED
  BY <1>2, <1>3 DEF Sees

LEMMA AnswerReplies ==
  ASSUME CallInv, NEW p \in Procs, NEW a, Answer(p, a),
         call[p].pc \notin {"idle", "done"},
         a = "active" => call[p].saw,
         call[p].op = "current" => a \in {"active", "none"}
  PROVE  Replies(p, a)
<1>1. /\ call'[p].pc = "done" /\ call'[p].ans = a
      /\ call'[p].op = call[p].op /\ call'[p].sid = call[p].sid
  BY DEF Answer, CallInv, CallTypeOK, Call
<1>2. QueryOf(p)' = [phase |-> "done", op |-> call[p].op, sid |-> call[p].sid, ans |-> a]
  BY <1>1 DEF QueryOf, PhaseOf
<1>3. ASSUME NEW ph \in {"asked", "seen"},
             QueryOf(p) = [phase |-> ph, op |-> call[p].op, sid |-> call[p].sid,
                           ans |-> call[p].ans],
             a = "active" => ph = "seen"
      PROVE  Replies(p, a)
  <2> DEFINE q == [phase |-> ph, op |-> call[p].op, sid |-> call[p].sid, ans |-> call[p].ans]
  <2>1. /\ q.phase = ph /\ q.op = call[p].op
        /\ [q EXCEPT !.phase = "done", !.ans = a] =
             [phase |-> "done", op |-> call[p].op, sid |-> call[p].sid, ans |-> a]
    <3>1. [q EXCEPT !.phase = "done"] =
            [phase |-> "done", op |-> call[p].op, sid |-> call[p].sid, ans |-> call[p].ans]
      OBVIOUS
    <3>2. [[phase |-> "done", op |-> call[p].op, sid |-> call[p].sid, ans |-> call[p].ans]
             EXCEPT !.ans = a] =
            [phase |-> "done", op |-> call[p].op, sid |-> call[p].sid, ans |-> a]
      OBVIOUS
    <3>3. [q EXCEPT !.phase = "done", !.ans = a] = [[q EXCEPT !.phase = "done"] EXCEPT !.ans = a]
      OBVIOUS
    <3> QED
      BY <3>1, <3>2, <3>3
  <2>2. QueryOf(p) = q
    BY <1>3
  <2> HIDE DEF q
  <2> QED
    BY <1>2, <1>3, <2>1, <2>2 DEF Replies
<1>4. CASE call[p].saw
  <2>1. QueryOf(p) = [phase |-> "seen", op |-> call[p].op, sid |-> call[p].sid,
                      ans |-> call[p].ans]
    BY <1>4 DEF QueryOf, PhaseOf
  <2> QED
    BY <1>3, <2>1
<1>5. CASE ~call[p].saw
  <2>1. QueryOf(p) = [phase |-> "asked", op |-> call[p].op, sid |-> call[p].sid,
                      ans |-> call[p].ans]
    BY <1>5 DEF QueryOf, PhaseOf
  <2> QED
    BY <1>3, <1>5, <2>1
<1> QED
  BY <1>4, <1>5

LEMMA RespondClears == ASSUME NEW p \in Procs, call[p].pc = "done", call'[p] = Idle PROVE Clears(p)
BY DEF Clears, QueryOf, PhaseOf, Idle, Unasked
================================================================================
