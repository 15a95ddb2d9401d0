--------------------------- MODULE ResourceGrantsProofs ---------------------------
(***************************************************************************)
(* What is proved of the IAM service, for every set of goroutines, ids,    *)
(* grants and requests, either provider, and every limit on rows and       *)
(* pages: the inductive invariant of ResourceGrants, and from it that no   *)
(* grant is overlooked, that the latest word decides, that nothing         *)
(* expired decides, and that pages show every grant once.                  *)
(***************************************************************************)
EXTENDS ResourceGrants, TLAPS, FiniteSetTheorems, SequenceTheorems

--------------------------------------------------------------------------------
(* Enumerations of a finite set.                                           *)
LEMMA EnumerationIs ==
  ASSUME NEW S, IsFiniteSet(S), NEW s \in SetToSeqs(S)
  PROVE  /\ s \in Seq(S) /\ Len(s) = Cardinality(S) /\ DOMAIN s = 1 .. Len(s)
         /\ Len(s) \in Nat
         /\ \A i, j \in 1 .. Len(s) : s[i] = s[j] => i = j
         /\ \A x \in S : \E i \in 1 .. Len(s) : s[i] = x
<1> DEFINE n == Cardinality(S)
<1>1. n \in Nat
  BY FS_CardinalityType
<1>2. s \in [1 .. n -> S] /\ \A i, j \in 1 .. n : i # j => s[i] # s[j]
  BY DEF SetToSeqs
<1>3. s \in Seq(S) /\ Len(s) = n /\ DOMAIN s = 1 .. n
  BY <1>1, <1>2, SeqDef
<1>4. s \in Injection(1 .. n, S)
  BY <1>2 DEF Injection, IsInjective
<1>5. Cardinality(1 .. n) = n
  BY <1>1, FS_Interval
<1>6. s \in Surjection(1 .. n, S)
  BY <1>4, <1>5, FS_Injection
<1>7. \A x \in S : \E i \in 1 .. n : s[i] = x
  BY <1>6 DEF Surjection
<1> QED
  BY <1>1, <1>2, <1>3, <1>7

LEMMA IsEnumeration ==
  ASSUME NEW S, IsFiniteSet(S), NEW s \in Seq(S), Len(s) = Cardinality(S),
         \A i, j \in 1 .. Len(s) : s[i] = s[j] => i = j
  PROVE  s \in SetToSeqs(S)
<1>1. s \in [1 .. Cardinality(S) -> S]
  BY LenProperties
<1> QED
  BY <1>1 DEF SetToSeqs

(* The place of an element in an enumeration that is sorted by R is how    *)
(* many others R puts before it; so there is only one such enumeration.    *)
SortedBy(s, R) == \A i, j \in 1 .. Len(s) : i < j => <<s[i], s[j]>> \in R
OneWay(S, R) == \A x, y \in S : x # y /\ <<x, y>> \in R => <<y, x>> \notin R
Before(S, R, x) == {y \in S : y # x /\ <<y, x>> \in R}

LEMMA PlaceInSorted ==
  ASSUME NEW S, IsFiniteSet(S), NEW R, NEW s \in SetToSeqs(S),
         SortedBy(s, R), OneWay(S, R), NEW i \in 1 .. Len(s)
  PROVE  Cardinality(Before(S, R, s[i])) = i - 1
<1> DEFINE before == Before(S, R, s[i])
           f == [j \in 1 .. i - 1 |-> s[j]]
<1>1. /\ s \in Seq(S) /\ Len(s) \in Nat
      /\ \A j, k \in 1 .. Len(s) : s[j] = s[k] => j = k
      /\ \A x \in S : \E j \in 1 .. Len(s) : s[j] = x
      /\ \A j \in 1 .. Len(s) : s[j] \in S
  BY EnumerationIs, ElementOfSeq
<1>2. i - 1 \in Nat /\ \A j \in 1 .. i - 1 : j \in 1 .. Len(s) /\ j < i
  BY <1>1
<1>3. ASSUME NEW j \in 1 .. i - 1 PROVE f[j] \in before
  <2>1. f[j] = s[j] /\ j \in 1 .. Len(s) /\ j < i /\ j # i
    BY <1>2
  <2>2. s[j] \in S /\ s[j] # s[i] /\ <<s[j], s[i]>> \in R
    BY <1>1, <2>1 DEF SortedBy
  <2> QED
    BY <2>1, <2>2 DEF Before
<1>4. f \in [1 .. i - 1 -> before]
  BY <1>3
<1>5. \A j, k \in 1 .. i - 1 : f[j] = f[k] => j = k
  BY <1>1, <1>2
<1>6. ASSUME NEW y \in before PROVE \E j \in 1 .. i - 1 : f[j] = y
  <2> HIDE DEF f
  <2>1. y \in S /\ y # s[i] /\ <<y, s[i]>> \in R
    BY DEF Before
  <2>2. PICK j \in 1 .. Len(s) : s[j] = y
    BY <1>1, <2>1
  <2>3. j # i /\ ~(i < j)
    BY <1>1, <2>1, <2>2 DEF SortedBy, OneWay
  <2>4. j \in 1 .. i - 1
    BY <1>1, <2>3
  <2> QED
    BY <2>2, <2>4 DEF f
<1>7. f \in Bijection(1 .. i - 1, before)
  BY <1>4, <1>5, <1>6 DEF Bijection, Injection, Surjection, IsInjective
<1>8. ExistsBijection(1 .. i - 1, before)
  BY <1>7 DEF ExistsBijection
<1> QED
  BY <1>2, <1>8, FS_CountingElements

LEMMA SortedIsUnique ==
  ASSUME NEW S, IsFiniteSet(S), NEW R, NEW s \in SetToSeqs(S), NEW t \in SetToSeqs(S),
         SortedBy(s, R), SortedBy(t, R), OneWay(S, R)
  PROVE  s = t
<1>1. /\ s \in Seq(S) /\ t \in Seq(S) /\ Len(s) = Len(t) /\ Len(s) \in Nat
      /\ \A x \in S : \E j \in 1 .. Len(t) : t[j] = x
      /\ \A j \in 1 .. Len(s) : s[j] \in S
  BY EnumerationIs, ElementOfSeq
<1>2. ASSUME NEW i \in 1 .. Len(s) PROVE s[i] = t[i]
  <2>1. PICK j \in 1 .. Len(t) : t[j] = s[i]
    BY <1>1
  <2>2. Cardinality(Before(S, R, s[i])) = i - 1
    BY PlaceInSorted
  <2>3. Cardinality(Before(S, R, t[j])) = j - 1
    BY PlaceInSorted
  <2>4. i - 1 = j - 1
    BY <2>1, <2>2, <2>3
  <2> QED
    BY <1>1, <2>1, <2>4
<1> QED
  BY <1>1, <1>2, SeqEqual

(* The first n elements, and n more of them.                               *)
LEMMA TruncatedIs ==
  ASSUME NEW S, NEW s \in Seq(S), NEW n \in Nat
  PROVE  /\ Truncated(s, n) \in Seq(S)
         /\ Len(Truncated(s, n)) = IF Len(s) > n THEN n ELSE Len(s)
         /\ \A i \in 1 .. Len(Truncated(s, n)) : Truncated(s, n)[i] = s[i]
         /\ Len(s) <= n => Truncated(s, n) = s
         /\ Len(s) > n => Truncated(s, n) # s
<1> DEFINE m == IF Len(s) > n THEN n ELSE Len(s)
           t == Truncated(s, n)
<1>1. Len(s) \in Nat /\ m \in Nat /\ m <= Len(s) /\ t = SubSeq(s, 1, m)
  BY LenProperties DEF Truncated
<1>2. \A i \in 1 .. m : s[i] \in S
  BY <1>1, ElementOfSeq
<1>3. m \in Int /\ 1 \in Int
  BY <1>1
<1>4. /\ SubSeq(s, 1, m) \in Seq(S)
      /\ Len(SubSeq(s, 1, m)) = IF 1 <= m THEN m - 1 + 1 ELSE 0
      /\ \A i \in 1 .. m - 1 + 1 : SubSeq(s, 1, m)[i] = s[1 + i - 1]
  BY <1>2, <1>3, SubSeqProperties
<1>5. t \in Seq(S) /\ Len(t) = m /\ \A i \in 1 .. m : t[i] = s[i]
  <2>1. Len(SubSeq(s, 1, m)) = m
    BY <1>1, <1>4
  <2>2. \A i \in 1 .. m : SubSeq(s, 1, m)[i] = s[i]
    BY <1>1, <1>4
  <2> QED
    BY <1>1, <1>4, <2>1, <2>2
<1>6. ASSUME Len(s) <= n PROVE t = s
  BY <1>1, <1>6, SubSeqFull
<1>7. ASSUME Len(s) > n PROVE t # s
  BY <1>1, <1>5, <1>7
<1> QED
  BY <1>5, <1>6, <1>7

LEMMA NextPage ==
  ASSUME NEW S, NEW s \in Seq(S), NEW offset \in Nat
  PROVE  /\ PageOf(s, offset) \in Seq(S)
         /\ Truncated(s, offset) \o PageOf(s, offset) = Truncated(s, offset + PageLimit)
<1> DEFINE first == Truncated(s, offset)
           rest == SubSeq(s, offset + 1, Len(s))
           page == PageOf(s, offset)
           both == Truncated(s, offset + PageLimit)
<1>1. Len(s) \in Nat /\ PageLimit \in Nat /\ offset + 1 \in Int /\ Len(s) \in Int
  BY LenProperties, PageLimitAssumption
<1>2. \A i \in offset + 1 .. Len(s) : s[i] \in S
  BY <1>1, ElementOfSeq
<1>3. /\ rest \in Seq(S)
      /\ Len(rest) = IF offset + 1 <= Len(s) THEN Len(s) - (offset + 1) + 1 ELSE 0
      /\ \A i \in 1 .. Len(s) - (offset + 1) + 1 : rest[i] = s[offset + 1 + i - 1]
  BY <1>1, <1>2, SubSeqProperties
<1>4. /\ first \in Seq(S)
      /\ Len(first) = IF Len(s) > offset THEN offset ELSE Len(s)
      /\ \A i \in 1 .. Len(first) : first[i] = s[i]
  BY TruncatedIs
<1>5. page = Truncated(rest, PageLimit)
  BY DEF PageOf
<1>6. /\ page \in Seq(S)
      /\ Len(page) = IF Len(rest) > PageLimit THEN PageLimit ELSE Len(rest)
      /\ \A i \in 1 .. Len(page) : page[i] = rest[i]
  <2> HIDE DEF rest, page
  <2> QED
    BY <1>1, <1>3, <1>5, TruncatedIs
<1>7. /\ both \in Seq(S)
      /\ Len(both) = IF Len(s) > offset + PageLimit THEN offset + PageLimit ELSE Len(s)
      /\ \A i \in 1 .. Len(both) : both[i] = s[i]
  BY <1>1, TruncatedIs
<1>8. /\ first \o page \in Seq(S)
      /\ Len(first \o page) = Len(first) + Len(page)
      /\ \A i \in 1 .. Len(first) + Len(page) :
           (first \o page)[i] = IF i <= Len(first) THEN first[i] ELSE page[i - Len(first)]
  BY <1>4, <1>6, ConcatProperties
<1>9. Len(first) + Len(page) = Len(both)
  BY <1>1, <1>3, <1>4, <1>6, <1>7
<1>10. ASSUME NEW i \in 1 .. Len(both) PROVE (first \o page)[i] = both[i]
  <2>1. CASE i <= Len(first)
    BY <1>1, <1>4, <1>7, <1>8, <1>9, <2>1
  <2>2. CASE ~(i <= Len(first))
    <3>1. Len(first) = offset /\ i - offset \in 1 .. Len(page) /\ i - offset \in 1 .. Len(s) - (offset + 1) + 1
      BY <1>1, <1>3, <1>4, <1>6, <1>7, <1>9, <2>2
    <3>2. page[i - offset] = s[offset + 1 + (i - offset) - 1]
      BY <1>3, <1>6, <3>1
    <3>3. offset + 1 + (i - offset) - 1 = i
      BY <1>1, <1>7
    <3> QED
      BY <1>7, <1>8, <1>9, <2>2, <3>1, <3>2, <3>3
  <2> QED
    BY <2>1, <2>2
<1> QED
  BY <1>6, <1>7, <1>8, <1>9, <1>10, SeqEqual

--------------------------------------------------------------------------------
(* What becomes of the texts of grants and requests.                       *)
LEMMA PreparedType == \A g \in ResourceGrant : Prepared(g) \in ResourceGrant
<1> SUFFICES ASSUME NEW g \in ResourceGrant PROVE Prepared(g) \in ResourceGrant
  OBVIOUS
<1> DEFINE app == IF g.app = "" THEN "aihub" ELSE g.app
           object == IF g.object = << >> /\ g.typ # "" /\ g.rid # << >>
                     THEN <<app, g.typ>> \o g.rid ELSE g.object
           role == IF g.role = "" THEN "viewer" ELSE g.role
           effect == IF g.effect = "" THEN "allow" ELSE g.effect
           who == IF g.kind = "public" /\ g.who = << >> THEN <<"*">> ELSE g.who
<1>1. /\ g.app \in Names /\ g.typ \in Names /\ g.rid \in Seq(Names) /\ g.object \in Seq(Names)
      /\ g.role \in Names /\ g.effect \in Names /\ g.who \in Seq(Names)
  BY DEF ResourceGrant, Segments
<1>2. app \in Names /\ role \in Names /\ effect \in Names /\ "*" \in Names
  BY <1>1 DEF Names
<1>3. object \in Seq(Names) /\ who \in Seq(Names)
  <2> HIDE DEF app
  <2>1. <<app, g.typ>> \in Seq(Names)
    <3>1. \A a, t \in Names : <<a, t>> \in Seq(Names)
      OBVIOUS
    <3> QED
      BY Zenon, <1>1, <1>2, <3>1
  <2>2. <<app, g.typ>> \o g.rid \in Seq(Names)
    BY <1>1, <2>1, ConcatProperties
  <2>3. <<"*">> \in Seq(Names)
    <3>1. \A name \in Names : <<name>> \in Seq(Names)
      OBVIOUS
    <3> QED
      BY <1>2, <3>1
  <2> QED
    BY <1>1, <2>2, <2>3
<1>4. ASSUME NEW a \in Names, NEW o \in Segments, NEW r \in Names, NEW e \in Names,
             NEW w \in Segments
      PROVE  [g EXCEPT !.app = a, !.object = o, !.role = r, !.effect = e, !.who = w]
               \in ResourceGrant
  BY DEF ResourceGrant
<1>5. Prepared(g) = [g EXCEPT !.app = app, !.object = object, !.role = role,
                             !.effect = effect, !.who = who]
  BY DEF Prepared
<1>6. object \in Segments /\ who \in Segments
  BY <1>3 DEF Segments
<1> HIDE DEF app, object, role, effect, who
<1>7. [g EXCEPT !.app = app, !.object = object, !.role = role, !.effect = effect, !.who = who]
        \in ResourceGrant
  BY <1>2, <1>4, <1>6
<1> QED
  BY <1>5, <1>7

LEMMA ResolvedType == \A q \in CheckRequest : Resolved(q) \in CheckRequest
<1> SUFFICES ASSUME NEW q \in CheckRequest PROVE Resolved(q) \in CheckRequest
  OBVIOUS
<1> DEFINE rest == SubSeq(q.object, 3, Len(q.object))
           app == IF q.app = "" THEN q.object[1] ELSE q.app
           typ == IF q.typ = "" THEN q.object[2] ELSE q.typ
           rid == IF q.rid = << >> THEN rest ELSE q.rid
<1>1. q.app \in Names /\ q.typ \in Names /\ q.rid \in Seq(Names) /\ q.object \in Seq(Names)
  BY DEF CheckRequest, Segments
<1>2. CASE Len(q.object) >= 3
  <2>1. Len(q.object) \in Nat /\ 1 \in 1 .. Len(q.object) /\ 2 \in 1 .. Len(q.object)
    BY <1>1, <1>2, LenProperties
  <2>2. app \in Names /\ typ \in Names
    <3>1. q.object[1] \in Names /\ q.object[2] \in Names
      BY <1>1, <2>1, ElementOfSeq
    <3> QED
      BY <1>1, <3>1
  <2>3. rid \in Segments
    <3>1. \A i \in 3 .. Len(q.object) : q.object[i] \in Names
      BY <1>1, <2>1, ElementOfSeq
    <3>2. 3 \in Int /\ Len(q.object) \in Int
      BY <2>1
    <3>3. SubSeq(q.object, 3, Len(q.object)) \in Seq(Names)
      BY <3>1, <3>2, SubSeqProperties
    <3> QED
      BY <1>1, <3>3 DEF Segments
  <2>4. ASSUME NEW a \in Names, NEW t \in Names, NEW r \in Segments
        PROVE  [q EXCEPT !.app = a, !.typ = t, !.rid = r] \in CheckRequest
    BY DEF CheckRequest
  <2>5. \/ Resolved(q) = q
        \/ Resolved(q) = [q EXCEPT !.app = app, !.typ = typ, !.rid = rid]
    BY DEF Resolved
  <2> HIDE DEF app, typ, rid
  <2> QED
    BY <2>2, <2>3, <2>4, <2>5
<1>3. CASE ~(Len(q.object) >= 3)
  BY <1>3 DEF Resolved
<1> QED
  BY <1>2, <1>3

(* The object of a resource that is named in full is what its name says.   *)
LEMMA PlainObject ==
  ASSUME NEW x, x.app \in Names, x.typ \in Names, x.rid \in Segments, Plain(x)
  PROVE  /\ x.object \in Segments /\ Len(x.object) = Len(x.rid) + 2 /\ Len(x.rid) \in Nat
         /\ x.object[1] = x.app /\ x.object[2] = x.typ
         /\ \A i \in 1 .. Len(x.rid) : x.object[i + 2] = x.rid[i]
         /\ x.object # << >>
         /\ \A i \in 1 .. Len(x.object) : x.object[i] # "*"
<1> DEFINE head == <<x.app, x.typ>>
<1>1. head \in Seq(Names) /\ Len(head) = 2 /\ head[1] = x.app /\ head[2] = x.typ
  OBVIOUS
<1>2. x.rid \in Seq(Names) /\ Len(x.rid) \in Nat /\ x.object = head \o x.rid
      /\ "*" \notin Range(x.rid) /\ x.app # "*" /\ x.typ # "*"
  BY LenProperties DEF Plain, Segments
<1>3. /\ head \o x.rid \in Seq(Names)
      /\ Len(head \o x.rid) = Len(head) + Len(x.rid)
      /\ \A i \in 1 .. Len(head) + Len(x.rid) :
           (head \o x.rid)[i] = IF i <= Len(head) THEN head[i] ELSE x.rid[i - Len(head)]
  <2> HIDE DEF head
  <2> QED
    BY <1>1, <1>2, ConcatProperties
<1>4. /\ x.object \in Seq(Names) /\ Len(x.object) = Len(x.rid) + 2
      /\ \A i \in 1 .. Len(x.rid) + 2 :
           x.object[i] = IF i <= 2 THEN head[i] ELSE x.rid[i - 2]
  <2> HIDE DEF head
  <2> QED
    BY <1>1, <1>2, <1>3
<1>5. x.object[1] = x.app /\ x.object[2] = x.typ
  BY <1>1, <1>2, <1>4
<1>6. ASSUME NEW i \in 1 .. Len(x.rid) PROVE x.object[i + 2] = x.rid[i]
  <2>1. i + 2 \in 1 .. Len(x.rid) + 2 /\ ~(i + 2 <= 2) /\ i + 2 - 2 = i
    BY <1>2
  <2> QED
    BY <1>4, <2>1
<1>7. \A i \in 1 .. Len(x.rid) : x.rid[i] # "*"
  BY <1>2, RangeEquality
<1>8. ASSUME NEW i \in 1 .. Len(x.object) PROVE x.object[i] # "*"
  <2>1. CASE i = 1 \/ i = 2
    BY <1>2, <1>5, <2>1
  <2>2. CASE ~(i = 1 \/ i = 2)
    <3>1. i - 2 \in 1 .. Len(x.rid) /\ (i - 2) + 2 = i
      BY <1>2, <1>4, <2>2
    <3> QED
      BY <1>6, <1>7, <3>1
  <2> QED
    BY <2>1, <2>2
<1>9. x.object # << >>
  BY <1>2, <1>4
<1> QED
  BY <1>2, <1>4, <1>5, <1>6, <1>8, <1>9 DEF Segments

(* The WHERE clause of the Postgres query passes over no grant on a        *)
(* resource that is named in full, if the request names its resource so.   *)
LEMMA PlainIsSelected ==
  ASSUME NEW g \in ResourceGrant, NEW w \in CheckRequest, Plain(g), Plain(w),
         TargetsResource(g, w)
  PROVE  MatchesQuery(g, w)
<1>1. /\ g.app \in Names /\ g.typ \in Names /\ g.rid \in Segments
      /\ w.app \in Names /\ w.typ \in Names /\ w.rid \in Segments
  BY DEF ResourceGrant, CheckRequest
<1>2. /\ g.object \in Segments /\ Len(g.object) = Len(g.rid) + 2 /\ Len(g.rid) \in Nat
      /\ g.object[1] = g.app /\ g.object[2] = g.typ
      /\ \A i \in 1 .. Len(g.rid) : g.object[i + 2] = g.rid[i]
      /\ g.object # << >>
      /\ \A i \in 1 .. Len(g.object) : g.object[i] # "*"
  BY <1>1, PlainObject
<1>3. /\ w.object \in Segments /\ Len(w.object) = Len(w.rid) + 2 /\ Len(w.rid) \in Nat
      /\ w.object[1] = w.app /\ w.object[2] = w.typ
      /\ \A i \in 1 .. Len(w.rid) : w.object[i + 2] = w.rid[i]
      /\ w.object # << >>
  BY <1>1, PlainObject
<1>4. Covers(g.object, w.object)
  BY <1>2, <1>3 DEF TargetsResource
<1>5. g.object # <<"*">> /\ Last(g.object) # "*"
  <2>1. Len(g.object) \in 1 .. Len(g.object)
    BY <1>2
  <2>2. Len(<<"*">>) = 1
    OBVIOUS
  <2> QED
    BY <1>2, <2>1, <2>2 DEF Last
<1>6. g.object = w.object
  BY <1>4, <1>5 DEF Covers
<1>7. g.app = w.app /\ g.typ = w.typ /\ Len(g.rid) = Len(w.rid)
  BY <1>2, <1>3, <1>6
<1>8. g.rid = w.rid
  <2>1. \A i \in 1 .. Len(g.rid) : g.rid[i] = w.rid[i]
    BY <1>2, <1>3, <1>6, <1>7
  <2> QED
    BY <1>1, <1>7, <2>1, SeqEqual DEF Segments
<1> QED
  BY <1>7, <1>8 DEF MatchesQuery

--------------------------------------------------------------------------------
(* The rows of Postgres are an enumeration of the grants, and stay one.    *)
LEMMA PlaceIs ==
  ASSUME IsFiniteSet(DOMAIN grants), rowids \in SetToSeqs(DOMAIN grants),
         NEW id \in DOMAIN grants
  PROVE  Place(id) \in 1 .. Len(rowids) /\ rowids[Place(id)] = id
<1>1. DOMAIN rowids = 1 .. Len(rowids) /\ \E i \in 1 .. Len(rowids) : rowids[i] = id
  BY EnumerationIs
<1> QED
  BY <1>1 DEF Place

LEMMA OneMoreRow ==
  ASSUME NEW S, IsFiniteSet(S), NEW s \in SetToSeqs(S), NEW x, x \notin S
  PROVE  Append(s, x) \in SetToSeqs(S \cup {x})
<1> DEFINE T == S \cup {x}
<1>1. /\ s \in Seq(S) /\ Len(s) \in Nat /\ Len(s) = Cardinality(S)
      /\ \A i, j \in 1 .. Len(s) : s[i] = s[j] => i = j
      /\ \A i \in 1 .. Len(s) : s[i] \in S
  BY EnumerationIs, ElementOfSeq
<1>2. IsFiniteSet(T) /\ Cardinality(T) = Len(s) + 1
  BY <1>1, FS_AddElement
<1>3. s \in Seq(T) /\ x \in T
  BY <1>1
<1> HIDE DEF T
<1>4. /\ Append(s, x) \in Seq(T) /\ Len(Append(s, x)) = Len(s) + 1
      /\ \A i \in 1 .. Len(s) : Append(s, x)[i] = s[i]
      /\ Append(s, x)[Len(s) + 1] = x
  BY <1>3, AppendProperties
<1>5. ASSUME NEW i \in 1 .. Len(s) + 1, NEW j \in 1 .. Len(s) + 1,
             Append(s, x)[i] = Append(s, x)[j]
      PROVE  i = j
  <2>1. \A k \in 1 .. Len(s) : Append(s, x)[k] # x
    BY <1>1, <1>4
  <2>2. \A k \in 1 .. Len(s) + 1 : k \in 1 .. Len(s) \/ k = Len(s) + 1
    BY <1>1
  <2> QED
    BY <1>1, <1>4, <1>5, <2>1, <2>2
<1>6. Append(s, x) \in SetToSeqs(T)
  BY <1>2, <1>4, <1>5, IsEnumeration
<1> QED
  BY <1>6 DEF T

LEMMA OneRowLess ==
  ASSUME NEW S, IsFiniteSet(S), NEW s \in SetToSeqs(S), NEW k \in 1 .. Len(s)
  PROVE  RemoveAt(s, k) \in SetToSeqs(S \ {s[k]})
<1> DEFINE T == S \ {s[k]}
           t == RemoveAt(s, k)
           a == SubSeq(s, 1, k - 1)
           b == SubSeq(s, k + 1, Len(s))
<1>1. /\ s \in Seq(S) /\ Len(s) \in Nat /\ Len(s) = Cardinality(S)
      /\ \A i, j \in 1 .. Len(s) : s[i] = s[j] => i = j
      /\ \A i \in 1 .. Len(s) : s[i] \in S
  BY EnumerationIs, ElementOfSeq
<1>2. IsFiniteSet(T) /\ Cardinality(T) = Len(s) - 1
  <2>1. s[k] \in S
    BY <1>1
  <2> QED
    BY <1>1, <2>1, FS_RemoveElement
<1>3. k \in Nat /\ k - 1 \in Int /\ k + 1 \in Int /\ Len(s) \in Int /\ k >= 1 /\ k <= Len(s)
      /\ 1 \in Int
  BY <1>1
<1>4. \A i \in 1 .. Len(s) : i # k => s[i] \in T
  BY <1>1
<1>5. (\A i \in 1 .. k - 1 : s[i] \in T) /\ \A i \in k + 1 .. Len(s) : s[i] \in T
  <2>1. \A i \in 1 .. k - 1 : i \in 1 .. Len(s) /\ i # k
    BY <1>3
  <2>2. \A i \in k + 1 .. Len(s) : i \in 1 .. Len(s) /\ i # k
    BY <1>3
  <2> QED
    BY <1>4, <2>1, <2>2
<1> HIDE DEF T
<1>6. /\ a \in Seq(T) /\ Len(a) = k - 1
      /\ \A i \in 1 .. k - 1 : a[i] = s[i]
  <2>1. /\ a \in Seq(T)
        /\ Len(a) = IF 1 <= k - 1 THEN k - 1 - 1 + 1 ELSE 0
        /\ \A i \in 1 .. k - 1 - 1 + 1 : a[i] = s[1 + i - 1]
    BY <1>3, <1>5, SubSeqProperties
  <2>2. Len(a) = k - 1 /\ k - 1 - 1 + 1 = k - 1 /\ \A i \in Int : 1 + i - 1 = i
    BY <1>3, <2>1
  <2> QED
    BY <2>1, <2>2
<1>7. /\ b \in Seq(T) /\ Len(b) = Len(s) - k
      /\ \A i \in 1 .. Len(s) - k : b[i] = s[i + k]
  <2>1. /\ b \in Seq(T)
        /\ Len(b) = IF k + 1 <= Len(s) THEN Len(s) - (k + 1) + 1 ELSE 0
        /\ \A i \in 1 .. Len(s) - (k + 1) + 1 : b[i] = s[(k + 1) + i - 1]
    BY <1>3, <1>5, SubSeqProperties
  <2>2. Len(b) = Len(s) - k /\ Len(s) - (k + 1) + 1 = Len(s) - k
        /\ \A i \in Int : (k + 1) + i - 1 = i + k
    BY <1>3, <2>1
  <2>3. ASSUME NEW i \in 1 .. Len(s) - k PROVE b[i] = s[i + k]
    <3>1. i \in 1 .. Len(s) - (k + 1) + 1 /\ i \in Int
      BY <1>3
    <3>2. b[i] = s[(k + 1) + i - 1] /\ (k + 1) + i - 1 = i + k
      BY <1>3, <2>1, <3>1
    <3> QED
      BY <3>2
  <2> QED
    BY <2>1, <2>2, <2>3
<1>8. t = a \o b
  BY DEF RemoveAt
<1> HIDE DEF a, b, t
<1>9. /\ t \in Seq(T) /\ Len(t) = Len(s) - 1
      /\ \A i \in 1 .. Len(s) - 1 : t[i] = IF i <= k - 1 THEN s[i] ELSE s[i + 1]
  <2>1. /\ t \in Seq(T) /\ Len(t) = Len(a) + Len(b)
        /\ \A i \in 1 .. Len(a) + Len(b) :
             t[i] = IF i <= Len(a) THEN a[i] ELSE b[i - Len(a)]
    BY <1>6, <1>7, <1>8, ConcatProperties
  <2>2. Len(t) = Len(s) - 1
    BY <1>1, <1>3, <1>6, <1>7, <2>1
  <2>3. ASSUME NEW i \in 1 .. Len(s) - 1
        PROVE  t[i] = IF i <= k - 1 THEN s[i] ELSE s[i + 1]
    <3>1. CASE i <= k - 1
      BY <1>3, <1>6, <2>1, <2>2, <3>1
    <3>2. CASE ~(i <= k - 1)
      <4>1. i - (k - 1) \in 1 .. Len(s) - k /\ (i - (k - 1)) + k = i + 1
        BY <1>3, <3>2
      <4>2. b[i - (k - 1)] = s[i + 1]
        BY <1>7, <4>1
      <4> QED
        BY <1>6, <2>1, <2>2, <3>2, <4>2
    <3> QED
      BY <3>1, <3>2
  <2> QED
    BY <2>1, <2>2, <2>3
<1>10. ASSUME NEW i \in 1 .. Len(s) - 1, NEW j \in 1 .. Len(s) - 1, t[i] = t[j]
       PROVE  i = j
  <2>1. /\ i \in 1 .. Len(s) /\ i + 1 \in 1 .. Len(s)
        /\ j \in 1 .. Len(s) /\ j + 1 \in 1 .. Len(s)
    BY <1>3
  <2>2. (i <= k - 1 => t[i] = s[i]) /\ (~(i <= k - 1) => t[i] = s[i + 1])
    BY <1>9
  <2>3. (j <= k - 1 => t[j] = s[j]) /\ (~(j <= k - 1) => t[j] = s[j + 1])
    BY <1>9
  <2> QED
    BY <1>1, <1>3, <1>10, <2>1, <2>2, <2>3
<1>11. t \in SetToSeqs(T)
  BY <1>2, <1>9, <1>10, IsEnumeration
<1> QED
  BY <1>11 DEF t, T

--------------------------------------------------------------------------------
(* A step of somebody else leaves a request as it is, except that it may   *)
(* take ids out of its calm.                                               *)
SameRequest(p) ==
  /\ call'[p].pc = call[p].pc /\ call'[p].q = call[p].q
  /\ call'[p].row = call[p].row /\ call'[p].rows = call[p].rows
  /\ call'[p].cut = call[p].cut /\ call'[p].since = call[p].since
  /\ call'[p].calm \subseteq call[p].calm
  /\ call'[p].total = call[p].total /\ call'[p].offset = call[p].offset
  /\ call'[p].met = call[p].met /\ call'[p].ans = call[p].ans

(* What a request counts on from the steps of others: the grants in its    *)
(* calm are as they were; while the memory store judges, and while it is   *)
(* true that nobody has written since it began, all grants are.            *)
Undisturbed(p) ==
  /\ \A id \in call'[p].calm :
       /\ id \in DOMAIN grants' <=> id \in DOMAIN grants
       /\ id \in DOMAIN grants => grants'[id] = grants[id]
  /\ Memory /\ At(p, "judge") => UNCHANGED grants
  /\ call'[p].calm = GrantIds => UNCHANGED <<grants, rowids>>

LEMMA StandingShrinks ==
  ASSUME NEW p \in Procs, TypeOK, now' \in Nat, now <= now',
         SameRequest(p), Undisturbed(p), NEW id \in Standing(p)'
  PROVE  /\ id \in Standing(p) /\ id \in DOMAIN grants
         /\ grants'[id] = grants[id] /\ Row(id)' = Row(id)
<1>1. /\ id \in call'[p].calm /\ id \in DOMAIN grants'
      /\ Lives(grants'[id].body, now') /\ Concerns(grants'[id].body, call'[p].q)
  BY DEF Standing
<1>2. id \in call[p].calm /\ id \in DOMAIN grants /\ grants'[id] = grants[id]
  BY <1>1 DEF SameRequest, Undisturbed
<1>3. Lives(grants[id].body, now)
  <2>1. grants[id] \in Stored
    BY <1>2 DEF TypeOK
  <2>2. PICK draft \in Drafts : grants[id].body = Prepared(draft)
    BY <2>1 DEF Stored
  <2>3. Prepared(draft) \in ResourceGrant
    BY PreparedType, DraftsAssumption
  <2>4. grants[id].body.exp \in Nat
    BY <2>2, <2>3 DEF ResourceGrant
  <2> QED
    BY <1>1, <1>2, <2>4 DEF Lives, TypeOK
<1>4. Concerns(grants[id].body, call[p].q)
  BY <1>1, <1>2 DEF SameRequest
<1> QED
  BY <1>2, <1>3, <1>4 DEF Standing, Row

LEMMA OthersAreServed ==
  ASSUME NEW p \in Procs, TypeOK, Served(p), provider' = provider,
         now' \in Nat, now <= now', SameRequest(p),
         call[p].pc \in {"idle", "save"} \/ Undisturbed(p)
  PROVE  Served(p)'
<1>0. call[p] \in Call /\ now \in Nat
  BY DEF TypeOK
<1>1. InHand(p)'
  <2>1. call[p].since \in Nat
    BY <1>0 DEF Call
  <2>2. ASSUME At(p, "save") PROVE call[p].row.g.updated <= now'
    <3>1. call[p].row \in Shown /\ call[p].row.g.updated <= now
      BY <2>2 DEF Served, InHand
    <3>2. call[p].row.g.updated \in Nat
      BY <3>1 DEF Shown, Stored
    <3> QED
      BY <1>0, <3>1, <3>2
  <2>3. At(p, "save") => call[p].row \in Shown
    BY DEF Served, InHand
  <2>4. call[p].since <= now'
    BY <1>0, <2>1 DEF Served, InHand
  <2>5. /\ At(p, "save")' = At(p, "save") /\ At(p, "done")' = At(p, "done")
        /\ Decided(p)' = Decided(p) /\ At(p, "judge")' = At(p, "judge")
    BY DEF SameRequest, At, Decided
  <2>6. Shown' = Shown
    OBVIOUS
  <2> QED
    BY <2>2, <2>3, <2>4, <2>5 DEF Served, InHand, SameRequest
<1>2. CASE call[p].pc \in {"idle", "save"}
  <2>1. call'[p].pc \in {"idle", "save"}
    BY <1>2 DEF SameRequest
  <2> QED
    BY <1>1, <2>1 DEF Served, JudgesWhatIsStored, PassesOverNothing, LatestFirst,
                      PagesFollow, Paging, Decided, At
<1>3. CASE Undisturbed(p)
  <2> DEFINE Same(id) ==
               /\ id \in Standing(p) /\ id \in DOMAIN grants
               /\ grants'[id] = grants[id] /\ Row(id)' = Row(id)
  <2>1. \A id \in Standing(p)' : Same(id)
    BY <1>0, <1>3, StandingShrinks
  <2>2. /\ At(p, "judge")' = At(p, "judge") /\ At(p, "done")' = At(p, "done")
        /\ Decided(p)' = Decided(p) /\ Memory' = Memory /\ Postgres' = Postgres
        /\ Paging(p)' = Paging(p) /\ At(p, "page")' = At(p, "page")
    BY DEF SameRequest, At, Decided, Memory, Postgres, Paging
  <2>3. \A id \in Standing(p)' : Ahead(p, id)' = Ahead(p, id) /\ Excused(p, id)' = Excused(p, id)
    BY <2>1, <2>2 DEF Ahead, Excused, SameRequest
  <2>4. JudgesWhatIsStored(p)'
    BY <1>3, <2>2 DEF Served, JudgesWhatIsStored, Undisturbed, SameRequest
  <2>5. PassesOverNothing(p)'
    BY <2>1, <2>2, <2>3 DEF Served, PassesOverNothing, SameRequest
  <2>6. LatestFirst(p)'
    BY <2>1, <2>2, <2>3 DEF Served, LatestFirst, SameRequest
  <2>7. PagesFollow(p)'
    <3> SUFFICES ASSUME Paging(p)', call'[p].calm = GrantIds, (Memory => Distinct)'
                 PROVE  PagesFollow(p)'
      BY DEF PagesFollow
    <3>1. UNCHANGED <<grants, rowids>>
      BY <1>3 DEF Undisturbed
    <3>2. call[p].calm = GrantIds
      BY <1>0 DEF SameRequest, Call
    <3>3. Distinct' = Distinct
      BY <3>1 DEF Distinct
    <3>4. List' = List
      BY <2>2, <3>1 DEF List, InOrder, CreatedLater, NewerRow, Place
    <3>5. /\ IF call[p].offset = 0 THEN call[p].met = << >>
             ELSE \E s \in List : call[p].met = Truncated(s, call[p].offset)
          /\ At(p, "page") /\ Postgres => call[p].total = Cardinality(DOMAIN grants)
          /\ At(p, "done") => Cardinality(DOMAIN grants) <= call[p].offset
      BY <2>2, <3>2, <3>3 DEF Served, PagesFollow
    <3> QED
      BY <2>2, <3>1, <3>4, <3>5 DEF PagesFollow, SameRequest
  <2> QED
    BY <1>1, <2>4, <2>5, <2>6, <2>7 DEF Served
<1> QED
  BY <1>2, <1>3

(* Most steps only take the request of p further.                          *)
LEMMA StepIsServed ==
  ASSUME IInv, NEW p \in Procs, NEW new \in Call, call' = [call EXCEPT ![p] = new],
         UNCHANGED <<provider, now, grants, rowids>>, Served(p)'
  PROVE  IInv'
<1>1. /\ call \in [Procs -> Call] /\ now \in Nat /\ TypeOK
  BY DEF IInv, TypeOK
<1>2. TypeOK'
  <2>1. call' \in [Procs -> Call]
    BY <1>1
  <2>2. rowids' \in SetToSeqs(DOMAIN grants') <=> rowids \in SetToSeqs(DOMAIN grants)
    OBVIOUS
  <2>3. Postgres' = Postgres
    BY DEF Postgres
  <2> QED
    BY <1>1, <2>1, <2>2, <2>3 DEF TypeOK
<1>3. ASSUME NEW other \in Procs, other # p PROVE Served(other)'
  <2>1. call'[other] = call[other]
    BY <1>1, <1>3
  <2>2. SameRequest(other) /\ Undisturbed(other)
    BY <2>1 DEF SameRequest, Undisturbed
  <2>3. now' \in Nat /\ now <= now'
    BY <1>1
  <2> QED
    BY <1>1, <2>2, <2>3, OthersAreServed DEF IInv
<1> QED
  BY <1>2, <1>3 DEF IInv

--------------------------------------------------------------------------------
LEMMA FreshType ==
  ASSUME NEW pc \in {"idle", "save", "read", "judge", "count", "page", "done"},
         NEW q \in Questions \cup {Nothing}, NEW row \in Shown \cup {Nothing},
         NEW since \in Nat
  PROVE  Fresh(pc, q, row, since) \in Call
<1>1. << >> \in Seq(Shown) /\ << >> \in Seq(GrantIds) /\ GrantIds \in SUBSET GrantIds
  OBVIOUS
<1>2. FALSE \in BOOLEAN /\ 0 \in Nat
  OBVIOUS
<1> QED
  BY <1>1, <1>2 DEF Fresh, Call

LEMMA IdleIsFresh == Idle = Fresh("idle", Nothing, Nothing, 0) /\ Idle \in Call
BY FreshType DEF Idle, Begun

LEMMA BodyOfDraft == \A draft \in Drafts : Prepared(draft) \in ResourceGrant
BY PreparedType, DraftsAssumption

(* One lemma for each step.                                                *)
LEMMA BeginSaveKeeps == ASSUME IInv, NEW p \in Procs, BeginSave(p) PROVE IInv'
<1>1. PICK id \in GrantIds, draft \in Drafts, given \in GivenTimes :
        LET g == [body |-> Prepared(draft), updated |-> now,
                  created |-> IF given = 0 THEN now ELSE given] IN
        call' = [call EXCEPT ![p] = Fresh("save", Nothing, [id |-> id, g |-> g], 0)]
  BY DEF BeginSave
<1> DEFINE row == [id |-> id, g |-> [body |-> Prepared(draft), updated |-> now,
                                    created |-> IF given = 0 THEN now ELSE given]]
           new == Fresh("save", Nothing, row, 0)
<1>2. now \in Nat /\ call \in [Procs -> Call] /\ row \in Shown
  BY GivenTimesAssumption DEF IInv, TypeOK, Shown, Stored
<1>3. row.g.updated = now
  OBVIOUS
<1> HIDE DEF row
<1>4. /\ new \in Call /\ new.pc = "save" /\ new.q = Nothing /\ new.row = row
      /\ new.since = 0 /\ new.ans = "none" /\ new.rows = << >>
  BY <1>2, FreshType DEF Fresh
<1>5. call' = [call EXCEPT ![p] = new]
  BY <1>1 DEF row
<1> HIDE DEF new
<1>6. call'[p] = new /\ UNCHANGED <<provider, now, grants, rowids>>
  BY <1>2, <1>5 DEF BeginSave
<1>7. Served(p)'
  BY <1>2, <1>3, <1>4, <1>6 DEF Served, InHand, JudgesWhatIsStored, PassesOverNothing, LatestFirst,
                    PagesFollow, Paging, Decided, At
<1> QED
  BY <1>4, <1>5, <1>6, <1>7, StepIsServed

LEMMA BeginCheckKeeps == ASSUME IInv, NEW p \in Procs, BeginCheck(p) PROVE IInv'
<1>1. PICK q \in Questions :
        LET pc == IF q.action = << >> THEN "done" ELSE "read" IN
        call' = [call EXCEPT ![p] = Fresh(pc, q, Nothing, now)]
  BY DEF BeginCheck
<1> DEFINE pc == IF q.action = << >> THEN "done" ELSE "read"
           new == Fresh(pc, q, Nothing, now)
<1>2. now \in Nat /\ call \in [Procs -> Call]
  BY DEF IInv, TypeOK
<1>3. pc \in {"done", "read"} /\ (pc = "done" => q.action = << >>)
  OBVIOUS
<1> HIDE DEF pc
<1>4. /\ new \in Call /\ new.pc = pc /\ new.q = q /\ new.rows = << >>
      /\ new.since = now /\ new.ans = "none" /\ new.offset = 0
      /\ new.rows = << >>
  BY <1>2, <1>3, FreshType DEF Fresh
<1>5. call' = [call EXCEPT ![p] = new]
  BY <1>1 DEF pc
<1> HIDE DEF new
<1>6. call'[p] = new /\ UNCHANGED <<provider, now, grants, rowids>>
  BY <1>2, <1>5 DEF BeginCheck
<1>7. ASSUME pc = "done" PROVE Standing(p)' = {}
  BY <1>3, <1>4, <1>6, <1>7 DEF Standing, Concerns, AllowsAction
<1>8. Served(p)'
  BY <1>2, <1>3, <1>4, <1>6, <1>7 DEF Served, InHand, JudgesWhatIsStored, PassesOverNothing,
                    LatestFirst, PagesFollow, Paging, Decided, At
<1> QED
  BY <1>4, <1>5, <1>6, <1>8, StepIsServed

LEMMA BeginListKeeps == ASSUME IInv, NEW p \in Procs, BeginList(p) PROVE IInv'
<1> DEFINE pc == IF Memory THEN "page" ELSE "count"
           new == Fresh(pc, Nothing, Nothing, 0)
<1>2. now \in Nat /\ call \in [Procs -> Call]
  BY DEF IInv, TypeOK
<1>3. pc \in {"count", "page"} /\ (pc = "page" => Memory)
  OBVIOUS
<1>5. call' = [call EXCEPT ![p] = new]
  BY DEF BeginList, Begun
<1> HIDE DEF pc
<1>4. /\ new \in Call /\ new.pc = pc /\ new.q = Nothing /\ new.met = << >>
      /\ new.since = 0 /\ new.ans = "none" /\ new.offset = 0
      /\ new.rows = << >>
  BY <1>2, <1>3, FreshType DEF Fresh
<1> HIDE DEF new
<1>6. call'[p] = new /\ UNCHANGED <<provider, now, grants, rowids>>
  BY <1>2, <1>5 DEF BeginList
<1>7. pc = "page" => ~Postgres'
  BY <1>3, <1>6 DEF Memory, Postgres
<1>8. Served(p)'
  BY <1>2, <1>3, <1>4, <1>6, <1>7 DEF Served, InHand, JudgesWhatIsStored, PassesOverNothing,
                    LatestFirst, PagesFollow, Paging, Decided, At
<1> QED
  BY <1>4, <1>5, <1>6, <1>8, StepIsServed

LEMMA RespondKeeps == ASSUME IInv, NEW p \in Procs, Respond(p) PROVE IInv'
<1>1. call' = [call EXCEPT ![p] = Idle] /\ UNCHANGED <<provider, now, grants, rowids>>
  BY DEF Respond
<1>2. now \in Nat /\ call \in [Procs -> Call]
  BY DEF IInv, TypeOK
<1>3. call'[p] = Idle /\ Idle.pc = "idle" /\ Idle.since = 0 /\ Idle.ans = "none"
      /\ Idle.rows = << >>
  BY <1>1, <1>2, IdleIsFresh DEF Fresh
<1>4. Served(p)'
  BY <1>1, <1>2, <1>3 DEF Served, InHand, JudgesWhatIsStored, PassesOverNothing,
                    LatestFirst, PagesFollow, Paging, Decided, At
<1> QED
  BY <1>1, <1>4, IdleIsFresh, StepIsServed

LEMMA FailKeeps == ASSUME IInv, NEW p \in Procs, Fail(p) PROVE IInv'
<1> DEFINE new == [call[p] EXCEPT !.pc = "done", !.rows = << >>, !.ans = "error"]
<1>1. now \in Nat /\ call \in [Procs -> Call] /\ call[p] \in Call /\ Served(p)
  BY DEF IInv, TypeOK
<1>2. call' = [call EXCEPT ![p] = new] /\ UNCHANGED <<provider, now, grants, rowids>>
  BY <1>1 DEF Fail, Answer
<1>3. /\ new \in Call /\ new.pc = "done" /\ new.rows = << >> /\ new.ans = "error"
      /\ new.since = call[p].since
  <2>1. ASSUME NEW rows \in Seq(Shown) PROVE [call[p] EXCEPT !.pc = "done", !.rows = rows, !.ans = "error"] \in Call
    BY <1>1 DEF Call
  <2>2. << >> \in Seq(Shown)
    OBVIOUS
  <2>3. new.pc = "done" /\ new.rows = << >> /\ new.ans = "error" /\ new.since = call[p].since
    BY <1>1 DEF Call
  <2> QED
    BY <2>1, <2>2, <2>3
<1> HIDE DEF new
<1>4. call'[p] = new
  BY <1>1, <1>2
<1>5. Served(p)'
  BY <1>1, <1>2, <1>3, <1>4 DEF Served, InHand, JudgesWhatIsStored, PassesOverNothing,
                    LatestFirst, PagesFollow, Paging, Decided, At
<1> QED
  BY <1>2, <1>3, <1>5, StepIsServed

--------------------------------------------------------------------------------
(* What a write of the grant under id must do, and what it means to the    *)
(* requests of others.                                                     *)
Written(id) ==
  /\ IsFiniteSet(DOMAIN grants') /\ DOMAIN grants' \subseteq GrantIds
  /\ \A x \in DOMAIN grants' :
       grants'[x] \in Stored /\ grants'[x].updated <= now
  /\ Postgres => rowids' \in SetToSeqs(DOMAIN grants')
  /\ \A x \in GrantIds \ {id} :
       /\ x \in DOMAIN grants' <=> x \in DOMAIN grants
       /\ x \in DOMAIN grants => grants'[x] = grants[x]

LEMMA WriteKeeps ==
  ASSUME IInv, NEW p \in Procs, NEW id \in GrantIds, Unlocked, Written(id),
         call' = [Touched(id) EXCEPT ![p] = Begun("done")], UNCHANGED <<provider, now>>
  PROVE  IInv'
<1>1. TypeOK /\ call \in [Procs -> Call] /\ now \in Nat /\ now' \in Nat /\ now <= now'
  BY DEF IInv, TypeOK
<1>2. Begun("done") \in Call
  BY FreshType DEF Begun
<1>3. ASSUME NEW other \in Procs, call[other].pc \notin {"idle", "save"}
      PROVE  /\ Touched(id)[other] = [call[other] EXCEPT !.calm = call[other].calm \ {id}]
             /\ Touched(id)[other] \in Call
  <2>1. Touched(id)[other] = [call[other] EXCEPT !.calm = call[other].calm \ {id}]
    BY <1>3 DEF Touched
  <2>2. call[other].calm \ {id} \in SUBSET GrantIds /\ call[other] \in Call
    BY <1>1 DEF Call
  <2>3. ASSUME NEW calm \in SUBSET GrantIds PROVE [call[other] EXCEPT !.calm = calm] \in Call
    BY <2>2 DEF Call
  <2> QED
    BY <2>1, <2>2, <2>3
<1>4. \A other \in Procs : call[other].pc \in {"idle", "save"} => Touched(id)[other] = call[other]
  BY DEF Touched
<1>5. \A other \in Procs : Touched(id)[other] \in Call
  BY <1>1, <1>3, <1>4
<1>6. call' \in [Procs -> Call]
  <2>1. Touched(id) \in [Procs -> Call]
    <3>1. Touched(id) = [other \in Procs |-> Touched(id)[other]]
      BY DEF Touched
    <3> HIDE DEF Touched
    <3> QED
      BY <1>5, <3>1
  <2> QED
    BY <1>2, <2>1
<1>7. call'[p] = Begun("done") /\ \A other \in Procs \ {p} : call'[other] = Touched(id)[other]
  BY DEF Touched
<1>8. TypeOK'
  <2>1. Postgres' = Postgres
    BY DEF Postgres
  <2> QED
    BY <1>1, <1>6, <2>1 DEF TypeOK, Written
<1>9. Served(p)'
  BY <1>1, <1>7 DEF Begun, Fresh, Served, InHand, JudgesWhatIsStored, PassesOverNothing, LatestFirst,
                    PagesFollow, Paging, Decided, At
<1>10. ASSUME NEW other \in Procs, other # p PROVE Served(other)'
  <2>1. Served(other)
    BY DEF IInv
  <2>2. CASE call[other].pc \in {"idle", "save"}
    <3>1. SameRequest(other)
      BY <1>4, <1>7, <1>10, <2>2 DEF SameRequest
    <3> QED
      BY <1>1, <2>1, <2>2, <3>1, OthersAreServed
  <2>3. CASE call[other].pc \notin {"idle", "save"}
    <3>1. call'[other] = [call[other] EXCEPT !.calm = call[other].calm \ {id}]
      BY <1>3, <1>7, <1>10, <2>3
    <3>2. call[other] \in Call
      BY <1>1
    <3>3. SameRequest(other) /\ call'[other].calm = call[other].calm \ {id}
      BY <3>1, <3>2 DEF SameRequest, Call
    <3>4. call'[other].calm \subseteq GrantIds \ {id}
      BY <3>2, <3>3 DEF Call
    <3>5. Undisturbed(other)
      BY <3>4 DEF Undisturbed, Written, Unlocked
    <3> QED
      BY <1>1, <2>1, <3>3, <3>5, OthersAreServed
  <2> QED
    BY <2>2, <2>3
<1> QED
  BY <1>8, <1>9, <1>10 DEF IInv

LEMMA SaveKeeps == ASSUME IInv, NEW p \in Procs, Save(p) PROVE IInv'
<1> DEFINE id == call[p].row.id
           known == id \in DOMAIN grants
           g == IF Postgres /\ known THEN [call[p].row.g EXCEPT !.created = grants[id].created]
                ELSE call[p].row.g
<1>1. /\ Unlocked /\ UNCHANGED <<provider, now>> /\ rowids' = Inserted(id)
      /\ grants' = [x \in DOMAIN grants \cup {id} |-> IF x = id THEN g ELSE grants[x]]
      /\ call' = [Touched(id) EXCEPT ![p] = Begun("done")]
  BY DEF Save
<1>2. /\ call[p].row \in Shown
      /\ call[p].row.g.updated <= now
  BY DEF IInv, Served, InHand, Save
<1>3. id \in GrantIds /\ call[p].row.g \in Stored
  BY <1>2 DEF Shown
<1>4. TypeOK
  BY DEF IInv
<1>5. g \in Stored /\ g.updated <= now
  <2>1. CASE Postgres /\ known
    <3>1. grants[id].created \in Int
      BY <1>4, <2>1 DEF TypeOK, Stored
    <3>2. g = [call[p].row.g EXCEPT !.created = grants[id].created]
      BY <2>1
    <3>3. g \in Stored /\ g.created = grants[id].created /\ g.updated = call[p].row.g.updated
      BY <1>3, <3>1, <3>2 DEF Stored
    <3> QED
      BY <1>2, <3>1, <3>3
  <2>2. CASE ~(Postgres /\ known)
    BY <1>2, <1>3, <2>2
  <2> QED
    BY <2>1, <2>2
<1> HIDE DEF id, g
<1>6. /\ IsFiniteSet(DOMAIN grants') /\ DOMAIN grants' \subseteq GrantIds
      /\ DOMAIN grants' = DOMAIN grants \cup {id}
  <2>1. DOMAIN grants' = DOMAIN grants \cup {id}
    BY <1>1
  <2> QED
    BY <1>3, <1>4, <2>1, FS_AddElement DEF TypeOK
<1>7. \A x \in DOMAIN grants' :
        grants'[x] \in Stored /\ grants'[x].updated <= now
  <2>1. grants'[id] = g /\ \A x \in DOMAIN grants' : x # id => x \in DOMAIN grants /\ grants'[x] = grants[x]
    BY <1>1, <1>6
  <2>2. \A x \in DOMAIN grants :
          grants[x] \in Stored /\ grants[x].updated <= now
    BY <1>4 DEF TypeOK
  <2> QED
    BY <1>5, <2>1, <2>2
<1>8. Postgres => rowids' \in SetToSeqs(DOMAIN grants')
  <2> SUFFICES ASSUME Postgres PROVE rowids' \in SetToSeqs(DOMAIN grants')
    OBVIOUS
  <2>1. IsFiniteSet(DOMAIN grants) /\ rowids \in SetToSeqs(DOMAIN grants)
    BY <1>4 DEF TypeOK
  <2>2. CASE id \in DOMAIN grants
    <3>1. rowids' = rowids /\ DOMAIN grants' = DOMAIN grants
      BY <1>1, <1>6, <2>2 DEF Inserted
    <3> QED
      BY <2>1, <3>1
  <2>3. CASE id \notin DOMAIN grants
    <3>1. rowids' = Append(rowids, id)
      BY <1>1, <2>3 DEF Inserted
    <3> QED
      BY <1>6, <2>1, <2>3, <3>1, OneMoreRow
  <2> QED
    BY <2>2, <2>3
<1>9. \A x \in GrantIds \ {id} :
        /\ x \in DOMAIN grants' <=> x \in DOMAIN grants
        /\ x \in DOMAIN grants => grants'[x] = grants[x]
  BY <1>1, <1>6
<1>10. Written(id)
  BY <1>6, <1>7, <1>8, <1>9 DEF Written
<1> QED
  BY <1>1, <1>3, <1>10, WriteKeeps

LEMMA DeleteKeeps == ASSUME IInv, NEW p \in Procs, Delete(p) PROVE IInv'
<1>1. PICK id \in GrantIds :
        /\ grants' = [x \in DOMAIN grants \ {id} |-> grants[x]]
        /\ rowids' = Removed(id)
        /\ call' = [Touched(id) EXCEPT ![p] = Begun("done")]
  BY DEF Delete
<1>2. Unlocked /\ UNCHANGED <<provider, now>> /\ TypeOK
  BY DEF Delete, IInv
<1>3. /\ IsFiniteSet(DOMAIN grants') /\ DOMAIN grants' \subseteq GrantIds
      /\ DOMAIN grants' = DOMAIN grants \ {id}
  <2>1. DOMAIN grants' = DOMAIN grants \ {id}
    BY <1>1
  <2>2. IsFiniteSet(DOMAIN grants) /\ DOMAIN grants \subseteq GrantIds
    BY <1>2 DEF TypeOK
  <2> QED
    BY <2>1, <2>2, FS_Subset
<1>4. \A x \in DOMAIN grants' :
        grants'[x] \in Stored /\ grants'[x].updated <= now
  <2>1. \A x \in DOMAIN grants' : x \in DOMAIN grants /\ grants'[x] = grants[x]
    BY <1>1, <1>3
  <2> QED
    BY <1>2, <2>1 DEF TypeOK
<1>5. Postgres => rowids' \in SetToSeqs(DOMAIN grants')
  <2> SUFFICES ASSUME Postgres PROVE rowids' \in SetToSeqs(DOMAIN grants')
    OBVIOUS
  <2>1. IsFiniteSet(DOMAIN grants) /\ rowids \in SetToSeqs(DOMAIN grants)
    BY <1>2 DEF TypeOK
  <2>2. CASE id \notin DOMAIN grants
    <3>1. rowids' = rowids /\ DOMAIN grants' = DOMAIN grants
      BY <1>1, <1>3, <2>2 DEF Removed
    <3> QED
      BY <2>1, <3>1
  <2>3. CASE id \in DOMAIN grants
    <3>1. rowids' = RemoveAt(rowids, Place(id))
      BY <1>1, <2>3 DEF Removed
    <3>2. Place(id) \in 1 .. Len(rowids) /\ rowids[Place(id)] = id
      BY <2>1, <2>3, PlaceIs
    <3>3. RemoveAt(rowids, Place(id)) \in SetToSeqs(DOMAIN grants \ {rowids[Place(id)]})
      BY <2>1, <3>2, OneRowLess
    <3> QED
      BY <1>3, <3>1, <3>2, <3>3
  <2> QED
    BY <2>2, <2>3
<1>6. \A x \in GrantIds \ {id} :
        /\ x \in DOMAIN grants' <=> x \in DOMAIN grants
        /\ x \in DOMAIN grants => grants'[x] = grants[x]
  BY <1>1, <1>3
<1>7. Written(id)
  BY <1>3, <1>4, <1>5, <1>6 DEF Written
<1> QED
  BY <1>1, <1>2, <1>7, WriteKeeps

LEMMA TickKeeps == ASSUME IInv, Tick PROVE IInv'
<1>1. /\ TypeOK /\ now \in Nat /\ now' = now + 1 /\ UNCHANGED <<provider, grants, rowids, call>>
      /\ now' \in Nat /\ now <= now'
  BY DEF IInv, TypeOK, Tick
<1>2. TypeOK'
  <2>1. \A id \in DOMAIN grants :
          grants[id].updated <= now'
    BY <1>1 DEF TypeOK, Stored
  <2>2. Postgres' = Postgres
    BY <1>1 DEF Postgres
  <2> QED
    BY <1>1, <2>1, <2>2 DEF TypeOK
<1>3. ASSUME NEW p \in Procs PROVE Served(p)'
  <2>1. SameRequest(p) /\ Undisturbed(p)
    BY <1>1 DEF SameRequest, Undisturbed
  <2> QED
    BY <1>1, <2>1, OthersAreServed DEF IInv
<1> QED
  BY <1>2, <1>3 DEF IInv

--------------------------------------------------------------------------------
LEMMA RowsShown ==
  ASSUME TypeOK, NEW s \in Seq(DOMAIN grants)
  PROVE  /\ [i \in DOMAIN s |-> Row(s[i])] \in Seq(Shown)
         /\ DOMAIN [i \in DOMAIN s |-> Row(s[i])] = 1 .. Len(s)
<1> DEFINE rows == [i \in DOMAIN s |-> Row(s[i])]
<1>1. Len(s) \in Nat /\ DOMAIN s = 1 .. Len(s) /\ \A i \in 1 .. Len(s) : s[i] \in DOMAIN grants
  BY LenProperties, ElementOfSeq
<1>2. \A id \in DOMAIN grants : Row(id) \in Shown
  BY DEF TypeOK, Row, Shown
<1>3. rows \in [1 .. Len(s) -> Shown]
  BY <1>1, <1>2
<1> QED
  BY <1>1, <1>3, SeqDef

(* What Read must make sure of: the rows come in the order of their last   *)
(* saves, none is missing without an excuse, and none that is missing      *)
(* would come first.                                                       *)
Descending(s) ==
  \A i, j \in 1 .. Len(s) : i < j => grants[s[i]].updated >= grants[s[j]].updated

Given(p, s, cut) ==
  \A id \in Standing(p) :
    \/ \E i \in 1 .. Len(s) : s[i] = id
    \/ Postgres /\ (cut \/ ~Plain(grants[id].body) \/ ~Plain(Resolved(call[p].q)))

GivenLatest(p, s) ==
  \A id \in Standing(p) : Plain(grants[id].body) /\ Plain(Resolved(call[p].q)) =>
    \/ \E i \in 1 .. Len(s) : s[i] = id
    \/ \A i \in 1 .. Len(s) : grants[s[i]].updated >= grants[id].updated

LEMMA ReadIsServed ==
  ASSUME IInv, NEW p \in Procs, At(p, "read"), NEW s \in Seq(DOMAIN grants),
         NEW cut \in BOOLEAN,
         NEW new \in Call, call' = [call EXCEPT ![p] = new],
         UNCHANGED <<provider, now, grants, rowids>>,
         new.pc = "judge", new.rows = [i \in DOMAIN s |-> Row(s[i])], new.cut = cut,
         new.q = call[p].q, new.since = call[p].since, new.calm = call[p].calm,
         new.offset = call[p].offset, new.ans = call[p].ans,
         Postgres => Descending(s), Given(p, s, cut), Postgres => GivenLatest(p, s)
  PROVE  IInv'
<1> DEFINE rows == [i \in DOMAIN s |-> Row(s[i])]
<1>1. TypeOK /\ call \in [Procs -> Call] /\ Served(p)
  BY DEF IInv, TypeOK
<1>2. call'[p] = new
  BY <1>1
<1>3. DOMAIN rows = 1 .. Len(s) /\ DOMAIN s = 1 .. Len(s) /\ \A i \in 1 .. Len(s) : s[i] \in DOMAIN grants
  BY <1>1, RowsShown, LenProperties, ElementOfSeq
<1>4. \A i \in 1 .. Len(s) : rows[i] = Row(s[i])
  BY <1>3
<1>5. \A i \in 1 .. Len(s) : rows[i].id = s[i] /\ rows[i].g = grants[s[i]]
  BY <1>4 DEF Row
<1> HIDE DEF rows
<1>6. new.rows = rows
  BY DEF rows
<1>7. /\ At(p, "judge")' /\ ~At(p, "save")' /\ ~At(p, "done")' /\ ~Decided(p)' /\ ~Paging(p)'
      /\ Postgres' = Postgres /\ Memory' = Memory
      /\ Standing(p)' = Standing(p)
  BY <1>2 DEF At, Decided, Paging, Postgres, Memory, Standing
<1>8. InHand(p)'
  BY <1>1, <1>2, <1>7 DEF Served, InHand, At
<1>9. JudgesWhatIsStored(p)'
  BY <1>2, <1>3, <1>5, <1>6 DEF JudgesWhatIsStored
<1>10. \A id \in Standing(p) : (\E i \in 1 .. Len(s) : s[i] = id) => Ahead(p, id)'
  <2> SUFFICES ASSUME NEW id \in Standing(p), NEW i \in 1 .. Len(s), s[i] = id
               PROVE  Ahead(p, id)'
    OBVIOUS
  <2>1. i \in DOMAIN call'[p].rows /\ call'[p].rows[i] = Row(id)
    BY <1>2, <1>3, <1>4, <1>6
  <2>2. Row(id)' = Row(id)
    BY DEF Row
  <2> QED
    BY <2>1, <2>2 DEF Ahead
<1>11. PassesOverNothing(p)'
  <2>1. \A id \in Standing(p) :
          Postgres /\ (cut \/ ~Plain(grants[id].body) \/ ~Plain(Resolved(call[p].q)))
            => Excused(p, id)'
    BY <1>2, <1>7 DEF Excused
  <2> QED
    BY <1>7, <1>10, <2>1 DEF PassesOverNothing, Given
<1>12. LatestFirst(p)'
  BY <1>2, <1>3, <1>5, <1>6, <1>7, <1>10 DEF LatestFirst, Descending, GivenLatest
<1>13. PagesFollow(p)'
  BY <1>7 DEF PagesFollow
<1> QED
  BY <1>8, <1>9, <1>11, <1>12, <1>13, StepIsServed DEF Served

LEMMA ReadKeeps == ASSUME IInv, NEW p \in Procs, Read(p) PROVE IInv'
<1> DEFINE c == call[p]
<1>1. /\ TypeOK /\ IsFiniteSet(DOMAIN grants) /\ call \in [Procs -> Call] /\ c \in Call
      /\ At(p, "read") /\ UNCHANGED <<provider, now, grants, rowids>>
  BY DEF IInv, TypeOK, Read
<1>2. CASE Memory
  <2>1. ~Postgres
    BY <1>2 DEF Memory, Postgres
  <2>2. PICK s \in SetToSeqs(DOMAIN grants) :
          call' = [call EXCEPT ![p].pc = "judge", ![p].rows = [i \in DOMAIN s |-> Row(s[i])]]
    BY <2>1 DEF Read
  <2> DEFINE rows == [i \in DOMAIN s |-> Row(s[i])]
             new == [c EXCEPT !.pc = "judge", !.rows = rows]
  <2>3. s \in Seq(DOMAIN grants) /\ \A x \in DOMAIN grants : \E i \in 1 .. Len(s) : s[i] = x
    BY <1>1, EnumerationIs
  <2>4. rows \in Seq(Shown)
    BY <1>1, <2>3, RowsShown
  <2>5. call' = [call EXCEPT ![p] = new]
    BY <1>1, <2>2
  <2> HIDE DEF rows
  <2>6. /\ new \in Call /\ new.pc = "judge" /\ new.rows = rows /\ new.cut = c.cut
        /\ new.q = c.q /\ new.since = c.since /\ new.calm = c.calm
        /\ new.offset = c.offset /\ new.ans = c.ans
    BY <1>1, <2>4 DEF Call
  <2>7. Given(p, s, c.cut)
    BY <2>3 DEF Standing, Given
  <2>8. c.cut \in BOOLEAN
    BY <1>1 DEF Call
  <2> HIDE DEF new
  <2> QED
    BY <1>1, <2>1, <2>3, <2>5, <2>6, <2>7, <2>8, ReadIsServed DEF rows
<1>3. CASE Postgres
  <2> DEFINE w == Resolved(c.q)
  <2>1. ~Memory
    BY <1>3 DEF Memory, Postgres
  <2>2. PICK s \in InOrder(Selected(w), NewerRow) :
          LET top == Truncated(s, RowLimit) IN
          call' = [call EXCEPT ![p].pc = "judge", ![p].cut = top # s,
                               ![p].rows = [i \in DOMAIN top |-> Row(top[i])]]
    BY <2>1 DEF Read
  <2> DEFINE top == Truncated(s, RowLimit)
             rows == [i \in DOMAIN top |-> Row(top[i])]
             cut == top # s
             new == [c EXCEPT !.pc = "judge", !.cut = cut, !.rows = rows]
  <2>3. call' = [call EXCEPT ![p] = new]
    BY <1>1, <2>2
  <2>4. Selected(w) \subseteq DOMAIN grants /\ IsFiniteSet(Selected(w))
    <3>1. Selected(w) \subseteq DOMAIN grants
      BY DEF Selected
    <3> QED
      BY <1>1, <3>1, FS_Subset
  <2>5. /\ s \in SetToSeqs(Selected(w)) /\ s \in Seq(Selected(w)) /\ Len(s) \in Nat
        /\ DOMAIN s = 1 .. Len(s)
        /\ \A x \in Selected(w) : \E i \in 1 .. Len(s) : s[i] = x
        /\ \A i \in 1 .. Len(s) : s[i] \in DOMAIN grants
    <3>1. s \in SetToSeqs(Selected(w))
      BY DEF InOrder
    <3> QED
      BY <2>4, <3>1, EnumerationIs, ElementOfSeq
  <2>6. \A i, j \in 1 .. Len(s) : i < j => grants[s[i]].updated >= grants[s[j]].updated
    <3>1. \A i, j \in 1 .. Len(s) : i < j => NewerRow(s[i], s[j])
      BY <2>5 DEF InOrder
    <3>2. \A i \in 1 .. Len(s) : grants[s[i]].updated \in Nat
      BY <1>1, <2>5 DEF TypeOK, Stored
    <3>3. ASSUME NEW i \in 1 .. Len(s), NEW j \in 1 .. Len(s), i < j
          PROVE  grants[s[i]].updated >= grants[s[j]].updated
      <4>1. PICK a \in Nat : a = grants[s[i]].updated
        BY <3>2
      <4>2. PICK b \in Nat : b = grants[s[j]].updated
        BY <3>2
      <4>3. a > b \/ a = b
        BY <3>1, <3>3, <4>1, <4>2 DEF NewerRow
      <4> QED
        BY <4>1, <4>2, <4>3
    <3> QED
      BY <3>3
  <2>7. /\ top \in Seq(Selected(w)) /\ Len(top) = IF Len(s) > RowLimit THEN RowLimit ELSE Len(s)
        /\ \A i \in 1 .. Len(top) : top[i] = s[i]
    BY <2>5, RowLimitAssumption, TruncatedIs
  <2>8. top \in Seq(DOMAIN grants)
    BY <2>4, <2>7
  <2>9. rows \in Seq(Shown)
    BY <1>1, <2>8, RowsShown
  <2>10. cut \in BOOLEAN /\ (~cut => top = s)
    OBVIOUS
  <2>11. Len(top) <= Len(s) /\ Len(top) \in Nat
    BY <2>5, <2>7, RowLimitAssumption
  <2>12. ASSUME NEW id \in Standing(p), Plain(grants[id].body), Plain(w)
         PROVE  \E i \in 1 .. Len(s) : s[i] = id
    <3>1. id \in DOMAIN grants /\ Concerns(grants[id].body, c.q)
      BY DEF Standing
    <3>2. c.q \in Questions
      BY <1>1 DEF IInv, Served, InHand, At
    <3>3. w \in CheckRequest
      BY <3>2, QuestionsAssumption, ResolvedType
    <3>4. grants[id].body \in ResourceGrant
      BY <1>1, <3>1, BodyOfDraft DEF TypeOK, Stored
    <3>5. MatchesQuery(grants[id].body, w)
      BY <2>12, <3>1, <3>3, <3>4, PlainIsSelected DEF Concerns
    <3>6. id \in Selected(w)
      BY <3>1, <3>5 DEF Selected
    <3> QED
      BY <2>5, <3>6
  <2>13. ASSUME NEW id \in Standing(p)
         PROVE  \/ \E i \in 1 .. Len(top) : top[i] = id
                \/ Postgres /\ (cut \/ ~Plain(grants[id].body) \/ ~Plain(w))
    <3> HIDE DEF top
    <3> QED
      BY <1>3, <2>10, <2>12
  <2>14. ASSUME NEW id \in Standing(p), Plain(grants[id].body), Plain(w)
         PROVE  \/ \E i \in 1 .. Len(top) : top[i] = id
                \/ \A i \in 1 .. Len(top) : grants[top[i]].updated >= grants[id].updated
    <3>1. PICK k \in 1 .. Len(s) : s[k] = id
      BY <2>12, <2>14
    <3>2. CASE k <= Len(top)
      <4>1. k \in 1 .. Len(top)
        BY <2>11, <3>2
      <4> QED
        BY <2>7, <3>1, <4>1
    <3>3. CASE ~(k <= Len(top))
      <4>1. \A i \in 1 .. Len(top) : i \in 1 .. Len(s) /\ i < k
        BY <2>5, <2>11, <3>3
      <4> QED
        BY <2>6, <2>7, <3>1, <4>1
    <3> QED
      BY <3>2, <3>3
  <2>15. \A i, j \in 1 .. Len(top) : i < j => grants[top[i]].updated >= grants[top[j]].updated
    <3>1. \A i \in 1 .. Len(top) : i \in 1 .. Len(s)
      BY <2>5, <2>11
    <3> QED
      BY <2>6, <2>7, <3>1
  <2>16. ASSUME NEW k \in BOOLEAN, NEW r \in Seq(Shown)
         PROVE  LET n == [c EXCEPT !.pc = "judge", !.cut = k, !.rows = r] IN
                /\ n \in Call /\ n.pc = "judge" /\ n.rows = r /\ n.cut = k
                /\ n.q = c.q /\ n.since = c.since /\ n.calm = c.calm
                /\ n.offset = c.offset /\ n.ans = c.ans
    BY <1>1 DEF Call
  <2>17. Descending(top) /\ Given(p, top, cut) /\ GivenLatest(p, top)
    <3> HIDE DEF top, cut
    <3> QED
      BY <2>13, <2>14, <2>15 DEF Descending, Given, GivenLatest
  <2> HIDE DEF top, cut
  <2>18. /\ new \in Call /\ new.pc = "judge" /\ new.rows = rows /\ new.cut = cut
         /\ new.q = c.q /\ new.since = c.since /\ new.calm = c.calm
         /\ new.offset = c.offset /\ new.ans = c.ans
    BY <2>9, <2>10, <2>16
  <2> HIDE DEF new
  <2> QED
    BY <1>1, <2>3, <2>8, <2>10, <2>17, <2>18, ReadIsServed
<1> QED
  BY <1>1, <1>2, <1>3 DEF Read

--------------------------------------------------------------------------------
LEMMA JudgeKeeps == ASSUME IInv, NEW p \in Procs, Judge(p) PROVE IInv'
<1> DEFINE c == call[p]
           row == Head(c.rows)
           decisive == Lives(row.g.body, now) /\ Concerns(row.g.body, c.q)
<1>1. /\ TypeOK /\ call \in [Procs -> Call] /\ c \in Call /\ Served(p) /\ now \in Nat
      /\ At(p, "judge") /\ UNCHANGED <<provider, now, grants, rowids>>
  BY DEF IInv, TypeOK, Judge
<1>2. /\ c.pc = "judge" /\ c.q \in Questions /\ c.offset = 0 /\ c.ans = "none" /\ c.since <= now
      /\ c.rows \in Seq(Shown) /\ c.since \in Nat
      /\ ~At(p, "done") /\ ~Decided(p)
  BY <1>1 DEF Served, InHand, At, Decided, Call
<1>3. DOMAIN c.rows = 1 .. Len(c.rows) /\ Len(c.rows) \in Nat
      /\ \A i \in 1 .. Len(c.rows) : c.rows[i] \in Shown
  BY <1>2, LenProperties, ElementOfSeq
<1>4. /\ \A id \in Standing(p) : Ahead(p, id) \/ Excused(p, id)
      /\ Postgres =>
           /\ \A i, j \in DOMAIN c.rows : i < j => c.rows[i].g.updated >= c.rows[j].g.updated
           /\ \A id \in Standing(p) : Plain(grants[id].body) /\ Plain(Resolved(c.q)) =>
                \/ Ahead(p, id)
                \/ \A i \in DOMAIN c.rows : c.rows[i].g.updated >= grants[id].updated
      /\ Memory => \A i \in DOMAIN c.rows :
           c.rows[i].id \in DOMAIN grants /\ c.rows[i].g = grants[c.rows[i].id]
  BY <1>1 DEF Served, PassesOverNothing, LatestFirst, JudgesWhatIsStored
<1>5. Postgres' = Postgres /\ Memory' = Memory
  BY <1>1 DEF Postgres, Memory
<1>6. CASE c.rows = << >> /\ Answer(p, "none")
  <2> DEFINE new == [c EXCEPT !.pc = "done", !.rows = << >>, !.ans = "none"]
  <2>1. call' = [call EXCEPT ![p] = new]
    BY <1>1, <1>6 DEF Answer
  <2>2. /\ new \in Call /\ new.rows = << >> /\ new.pc = "done" /\ new.q = c.q
        /\ new.since = c.since /\ new.calm = c.calm /\ new.cut = c.cut
        /\ new.offset = 0 /\ new.ans = "none"
    <3>1. << >> \in Seq(Shown)
      OBVIOUS
    <3>2. [c EXCEPT !.pc = "done", !.rows = << >>, !.ans = "none"] \in Call
      BY <1>1, <3>1 DEF Call
    <3> QED
      BY <1>1, <1>2, <3>2 DEF Call
  <2> HIDE DEF new
  <2>3. call'[p] = new
    BY <1>1, <2>1
  <2>4. /\ Standing(p)' = Standing(p) /\ ~Decided(p)' /\ ~Paging(p)' /\ ~At(p, "judge")'
        /\ \A id : Excused(p, id)' = Excused(p, id)
    BY <1>1, <1>5, <2>2, <2>3 DEF Standing, Decided, Paging, At, Excused
  <2>5. \A id \in Standing(p) : ~Ahead(p, id)
    BY <1>3, <1>6 DEF Ahead
  <2>6. InHand(p)'
    BY <1>1, <1>2, <2>2, <2>3, <2>4 DEF InHand, At
  <2>7. PassesOverNothing(p)'
    BY <1>4, <2>4, <2>5 DEF PassesOverNothing
  <2>8. Served(p)'
    BY <2>4, <2>6, <2>7 DEF Served, JudgesWhatIsStored, LatestFirst, PagesFollow
  <2> QED
    BY <1>1, <2>1, <2>2, <2>8, StepIsServed
<1>7. CASE c.rows # << >> /\ ~decisive /\ call' = [call EXCEPT ![p].rows = Tail(@)]
  <2> DEFINE rest == Tail(c.rows)
             new == [c EXCEPT !.rows = rest]
  <2>1. call' = [call EXCEPT ![p] = new]
    BY <1>1, <1>7
  <2>2. /\ rest \in Seq(Shown) /\ Len(rest) = Len(c.rows) - 1
        /\ \A i \in 1 .. Len(rest) : rest[i] = c.rows[i + 1]
    BY <1>2, <1>7, HeadTailProperties
  <2>3. DOMAIN rest = 1 .. Len(rest) /\ \A i \in 1 .. Len(rest) : i + 1 \in 1 .. Len(c.rows)
    BY <1>3, <2>2, LenProperties
  <2> HIDE DEF rest
  <2>4. /\ new \in Call /\ new.rows = rest /\ new.pc = "judge" /\ new.q = c.q
        /\ new.since = c.since /\ new.calm = c.calm /\ new.cut = c.cut
        /\ new.offset = 0 /\ new.ans = "none"
    <3>1. [c EXCEPT !.rows = rest] \in Call
      BY <1>1, <2>2 DEF Call
    <3> QED
      BY <1>1, <1>2, <3>1 DEF Call
  <2> HIDE DEF new
  <2>5. call'[p] = new
    BY <1>1, <2>1
  <2>6. /\ Standing(p)' = Standing(p) /\ ~Decided(p)' /\ ~Paging(p)' /\ At(p, "judge")'
        /\ \A id : Excused(p, id)' = Excused(p, id)
    BY <1>1, <1>5, <2>4, <2>5 DEF Standing, Decided, Paging, At, Excused
  <2>7. ASSUME NEW id \in Standing(p), Ahead(p, id) PROVE Ahead(p, id)'
    <3>1. PICK i \in 1 .. Len(c.rows) : c.rows[i] = Row(id)
      BY <1>3, <2>7 DEF Ahead
    <3>2. i # 1
      <4>1. ASSUME i = 1 PROVE FALSE
        <5>1. row = Row(id) /\ row.g = grants[id]
          BY <3>1, <4>1 DEF Row
        <5>2. decisive
          BY <5>1 DEF Standing
        <5> QED
          BY <1>7, <5>2
      <4> QED
        BY <4>1
    <3>3. i - 1 \in 1 .. Len(rest) /\ (i - 1) + 1 = i
      BY <1>3, <2>2, <3>2
    <3>4. rest[i - 1] = Row(id)
      BY <2>2, <3>1, <3>3
    <3>5. Row(id)' = Row(id)
      BY <1>1 DEF Row
    <3> QED
      BY <2>3, <2>4, <2>5, <3>3, <3>4, <3>5 DEF Ahead
  <2>8. InHand(p)'
    BY <1>1, <1>2, <2>4, <2>5, <2>6 DEF InHand, At
  <2>9. PassesOverNothing(p)'
    BY <1>4, <2>6, <2>7 DEF PassesOverNothing
  <2>10. JudgesWhatIsStored(p)'
    <3> SUFFICES ASSUME Memory, NEW i \in 1 .. Len(rest)
                 PROVE  rest[i].id \in DOMAIN grants' /\ rest[i].g = grants'[rest[i].id]
      BY <1>5, <2>3, <2>4, <2>5 DEF JudgesWhatIsStored
    <3>1. rest[i] = c.rows[i + 1] /\ i + 1 \in DOMAIN c.rows
      BY <1>3, <2>2, <2>3
    <3> QED
      BY <1>1, <1>4, <3>1
  <2>11. LatestFirst(p)'
    <3> SUFFICES ASSUME Postgres PROVE LatestFirst(p)'
      BY <1>5 DEF LatestFirst
    <3>1. \A i, j \in 1 .. Len(rest) : i < j => rest[i].g.updated >= rest[j].g.updated
      <4>1. \A i, j \in 1 .. Len(rest) : i < j => i + 1 < j + 1
        BY <1>3, <2>2
      <4> QED
        BY <1>3, <1>4, <2>2, <2>3, <4>1
    <3>2. \A id \in Standing(p) : Plain(grants[id].body) /\ Plain(Resolved(c.q)) =>
            \/ Ahead(p, id)'
            \/ \A i \in 1 .. Len(rest) : rest[i].g.updated >= grants[id].updated
      BY <1>3, <1>4, <2>2, <2>3, <2>7
    <3> QED
      BY <1>1, <2>3, <2>4, <2>5, <2>6, <3>1, <3>2 DEF LatestFirst
  <2>12. Served(p)'
    BY <2>6, <2>8, <2>9, <2>10, <2>11 DEF Served, PagesFollow
  <2> QED
    BY <1>1, <2>1, <2>4, <2>12, StepIsServed
<1>8. CASE /\ c.rows # << >> /\ decisive
           /\ call' = [call EXCEPT ![p].pc = "done", ![p].rows = << >>, ![p].row = row,
                         ![p].ans = IF row.g.body.effect = "deny" THEN "deny" ELSE "allow"]
  <2> DEFINE ans == IF row.g.body.effect = "deny" THEN "deny" ELSE "allow"
             new == [c EXCEPT !.pc = "done", !.rows = << >>, !.row = row, !.ans = ans]
  <2>1. call' = [call EXCEPT ![p] = new]
    BY <1>1, <1>8
  <2>2. row \in Shown /\ 1 \in 1 .. Len(c.rows) /\ row = c.rows[1]
    BY <1>2, <1>3, <1>8, HeadTailProperties, EmptySeq
  <2>3. ans \in {"allow", "deny"}
    OBVIOUS
  <2>4. decisive
    BY <1>8
  <2> HIDE DEF row, ans
  <2>5. /\ new \in Call /\ new.rows = << >> /\ new.pc = "done" /\ new.row = row /\ new.q = c.q
        /\ new.since = c.since /\ new.calm = c.calm /\ new.cut = c.cut
        /\ new.offset = 0 /\ new.ans = ans
    <3>1. << >> \in Seq(Shown) /\ ans \in {"none", "allow", "deny", "error"}
      BY <2>3
    <3>2. new \in Call
      BY <1>1, <2>2, <3>1 DEF Call
    <3> QED
      BY <1>1, <1>2, <3>2 DEF Call
  <2> HIDE DEF new
  <2>6. call'[p] = new
    BY <1>1, <2>1
  <2>7. /\ Standing(p)' = Standing(p) /\ Decided(p)' /\ ~Paging(p)' /\ ~At(p, "judge")'
    BY <1>1, <1>5, <2>3, <2>5, <2>6 DEF Standing, Decided, Paging, At
  <2>8. Lives(row.g.body, c.since)
    <3>1. row.g.body.exp \in Nat
      <4>1. PICK draft \in Drafts : row.g.body = Prepared(draft)
        BY <2>2 DEF Shown, Stored
      <4> QED
        BY <4>1, BodyOfDraft DEF ResourceGrant
    <3> QED
      BY <1>1, <1>2, <2>4, <3>1 DEF Lives
  <2>9. InHand(p)'
    BY <1>1, <1>2, <2>2, <2>3, <2>5, <2>6, <2>7, <2>8 DEF InHand, At
  <2>10. ASSUME Postgres, NEW id \in Standing(p), Plain(grants[id].body), Plain(Resolved(c.q))
         PROVE  grants[id].updated <= row.g.updated
    <3>1. grants[id].updated \in Nat
      BY <1>1 DEF Standing, TypeOK, Stored
    <3>2. row.g.updated \in Nat
      BY <2>2 DEF Shown, Stored
    <3>3. CASE Ahead(p, id)
      <4>1. PICK i \in 1 .. Len(c.rows) : c.rows[i] = Row(id)
        BY <1>3, <3>3 DEF Ahead
      <4>2. c.rows[i].g.updated = grants[id].updated
        BY <4>1 DEF Row
      <4>3. i = 1 \/ 1 < i
        BY <1>3
      <4>4. row.g.updated >= grants[id].updated
        BY <1>3, <1>4, <2>2, <2>10, <3>1, <4>2, <4>3
      <4> QED
        BY <3>1, <3>2, <4>4
    <3>4. CASE ~Ahead(p, id)
      <4>1. row.g.updated >= grants[id].updated
        BY <1>3, <1>4, <2>2, <2>10, <3>4
      <4> QED
        BY <3>1, <3>2, <4>1
    <3> QED
      BY <3>3, <3>4
  <2>11. LatestFirst(p)'
    BY <1>1, <1>5, <2>5, <2>6, <2>7, <2>10 DEF LatestFirst
  <2>12. PassesOverNothing(p)'
    BY <2>3, <2>5, <2>6, <2>7 DEF PassesOverNothing
  <2>13. Served(p)'
    BY <2>7, <2>9, <2>11, <2>12 DEF Served, PagesFollow, JudgesWhatIsStored
  <2> QED
    BY <1>1, <2>1, <2>5, <2>13, StepIsServed
<1> QED
  BY <1>6, <1>7, <1>8 DEF Judge

--------------------------------------------------------------------------------
LEMMA EverythingIsSelected ==
  ASSUME TypeOK
  PROVE  /\ Selected(Everything) = DOMAIN grants
         /\ Cardinality(DOMAIN grants) \in Nat
BY FS_CardinalityType DEF TypeOK, Selected, MatchesQuery, Everything

LEMMA CountKeeps == ASSUME IInv, NEW p \in Procs, Count(p) PROVE IInv'
<1> DEFINE c == call[p]
           total == Cardinality(Selected(Everything))
           new == [c EXCEPT !.pc = "page", !.total = total]
<1>1. /\ TypeOK /\ call \in [Procs -> Call] /\ c \in Call /\ Served(p) /\ now \in Nat
      /\ c.pc = "count" /\ UNCHANGED <<provider, now, grants, rowids>>
  BY DEF IInv, TypeOK, Count, At
<1>2. total \in Nat /\ total = Cardinality(DOMAIN grants)
  BY <1>1, EverythingIsSelected
<1>3. call' = [call EXCEPT ![p] = new]
  BY <1>1 DEF Count
<1> HIDE DEF total
<1>4. /\ new \in Call /\ new.pc = "page" /\ new.total = total /\ new.q = c.q
      /\ new.since = c.since /\ new.calm = c.calm /\ new.met = c.met
      /\ new.offset = c.offset /\ new.ans = c.ans /\ new.rows = c.rows
  <2>1. new \in Call
    BY <1>1, <1>2 DEF Call
  <2> QED
    BY <1>1, <2>1 DEF Call
<1> HIDE DEF new
<1>5. call'[p] = new
  BY <1>1, <1>3
<1>6. InHand(p)'
  BY <1>1, <1>4, <1>5 DEF Served, InHand, At, Decided
<1>7. PagesFollow(p)'
  <2>1. Distinct' = Distinct /\ Memory' = Memory
    BY <1>1 DEF Distinct, Memory
  <2>2. List' = List
    BY <1>1, <2>1 DEF List, InOrder, CreatedLater, NewerRow, Place
  <2>3. Paging(p) /\ PagesFollow(p)
    BY <1>1 DEF Paging, Served
  <2> QED
    BY <1>1, <1>2, <1>4, <1>5, <2>1, <2>2, <2>3 DEF PagesFollow, At
<1>8. Served(p)'
  BY <1>4, <1>5, <1>6, <1>7 DEF Served, JudgesWhatIsStored, PassesOverNothing, LatestFirst, Decided, At
<1> QED
  BY <1>1, <1>3, <1>4, <1>8, StepIsServed

(* The list has one order only.                                            *)
LEMMA OneList ==
  ASSUME TypeOK, Memory => Distinct, NEW s \in List, NEW t \in List
  PROVE  s = t
<1> DEFINE D == DOMAIN grants
           earlier(x, y) == IF Memory THEN CreatedLater(x, y) ELSE NewerRow(x, y)
           R == {xy \in D \X D : earlier(xy[1], xy[2])}
<1>1. IsFiniteSet(D) /\ \A x \in D : grants[x].created \in Int /\ grants[x].updated \in Nat
  BY DEF TypeOK, Stored
<1>2. \A l \in List : l \in SetToSeqs(D) /\ \A i, j \in DOMAIN l : i < j => earlier(l[i], l[j])
  BY DEF List, InOrder
<1>3. \A x, y \in D : <<x, y>> \in R <=> earlier(x, y)
  OBVIOUS
<1>4. ASSUME NEW l \in List PROVE SortedBy(l, R)
  <2>1. DOMAIN l = 1 .. Len(l) /\ \A i \in 1 .. Len(l) : l[i] \in D
    BY <1>1, <1>2, EnumerationIs, ElementOfSeq
  <2> HIDE DEF R, earlier
  <2> QED
    BY <1>2, <1>3, <2>1 DEF SortedBy
<1>5. OneWay(D, R)
  <2> SUFFICES ASSUME NEW x \in D, NEW y \in D, x # y, earlier(x, y), earlier(y, x) PROVE FALSE
    BY <1>3 DEF OneWay
  <2>1. CASE Memory
    <3>1. grants[x].created >= grants[y].created /\ grants[y].created >= grants[x].created
      BY <2>1 DEF CreatedLater
    <3>2. grants[x].created = grants[y].created
      BY <1>1, <3>1
    <3> QED
      BY <2>1, <3>2 DEF Distinct
  <2>2. CASE ~Memory
    <3>1. NewerRow(x, y) /\ NewerRow(y, x)
      BY <2>2
    <3>2. rowids \in SetToSeqs(D)
      BY <2>2, ProvidersAssumption DEF TypeOK, Memory, Postgres
    <3>3. Place(x) \in Int /\ Place(y) \in Int
      BY <1>1, <3>2, PlaceIs
    <3>4. PICK a \in Nat, b \in Nat : a = grants[x].updated /\ b = grants[y].updated
      BY <1>1
    <3>5. PICK k \in Int, l \in Int : k = Place(x) /\ l = Place(y)
      BY <3>3
    <3>6. (a > b \/ (a = b /\ k > l)) /\ (b > a \/ (b = a /\ l > k))
      BY <3>1, <3>4, <3>5 DEF NewerRow
    <3> QED
      BY <3>6
  <2> QED
    BY <2>1, <2>2
<1> HIDE DEF D, R
<1> QED
  BY <1>1, <1>2, <1>4, <1>5, SortedIsUnique

LEMMA PageKeeps == ASSUME IInv, NEW p \in Procs, Page(p) PROVE IInv'
<1> DEFINE c == call[p]
           D == DOMAIN grants
           total == IF Memory THEN Cardinality(D) ELSE c.total
           next == c.offset + PageLimit
           pc == IF next >= total THEN "done" ELSE IF Memory THEN "page" ELSE "count"
<1>1. /\ TypeOK /\ call \in [Procs -> Call] /\ c \in Call /\ Served(p) /\ now \in Nat
      /\ c.pc = "page" /\ UNCHANGED <<provider, now, grants, rowids>>
  BY DEF IInv, TypeOK, Page, At
<1>2. Selected(Everything) = D /\ Cardinality(D) \in Nat /\ IsFiniteSet(D) /\ D \subseteq GrantIds
  BY <1>1, EverythingIsSelected DEF TypeOK
<1>3. PICK s \in List :
        call' = [call EXCEPT ![p].met = @ \o PageOf(s, c.offset), ![p].offset = next,
                             ![p].total = total, ![p].pc = pc]
  <2>1. CASE Memory
    <3>1. ~Postgres
      BY <2>1 DEF Memory, Postgres
    <3> QED
      BY <1>2, <2>1, <3>1 DEF Page, List
  <2>2. CASE Postgres
    <3>1. ~Memory
      BY <2>2 DEF Memory, Postgres
    <3> QED
      BY <1>2, <2>2, <3>1 DEF Page, List
  <2> QED
    BY <2>1, <2>2 DEF Page
<1> DEFINE met == c.met \o PageOf(s, c.offset)
           new == [c EXCEPT !.met = met, !.offset = next, !.total = total, !.pc = pc]
<1>4. call' = [call EXCEPT ![p] = new]
  BY <1>1, <1>3
<1>5. /\ c.offset \in Nat /\ c.total \in Nat /\ c.met \in Seq(GrantIds)
      /\ PageLimit \in Nat /\ PageLimit > 0
  BY <1>1, PageLimitAssumption DEF Call
<1>6. total \in Nat /\ next \in Nat /\ next > 0
  BY <1>2, <1>5
<1>7. /\ pc \in {"done", "page", "count"} /\ (pc = "done" => total <= next)
      /\ (pc = "page" => Memory)
  BY <1>6
<1>8. s \in SetToSeqs(D) /\ s \in Seq(GrantIds) /\ Len(s) \in Nat /\ Len(s) = Cardinality(D)
  <2>1. s \in SetToSeqs(D)
    BY DEF List, InOrder
  <2>2. s \in Seq(D) /\ Len(s) \in Nat /\ Len(s) = Cardinality(D)
    BY <1>2, <2>1, EnumerationIs
  <2>3. s \in Seq(GrantIds)
    BY <1>2, <2>2
  <2> QED
    BY <2>1, <2>2, <2>3
<1>9. PageOf(s, c.offset) \in Seq(GrantIds)
      /\ Truncated(s, c.offset) \o PageOf(s, c.offset) = Truncated(s, next)
  BY <1>5, <1>8, NextPage
<1>10. met \in Seq(GrantIds)
  BY <1>5, <1>9, ConcatProperties
<1> HIDE DEF total, next, pc, met
<1>11. /\ new \in Call /\ new.pc = pc /\ new.total = total /\ new.offset = next /\ new.met = met
       /\ new.q = c.q /\ new.since = c.since /\ new.calm = c.calm
       /\ new.ans = c.ans /\ new.rows = c.rows
  <2>1. new \in Call
    BY <1>1, <1>6, <1>7, <1>10 DEF Call
  <2> QED
    BY <1>1, <2>1 DEF Call
<1> HIDE DEF new
<1>12. call'[p] = new
  BY <1>1, <1>4
<1>13. c.q = Nothing /\ c.ans = "none" /\ c.since <= now /\ c.rows = << >>
  BY <1>1 DEF Served, InHand, At
<1>14. ~Decided(p)' /\ ~At(p, "judge")' /\ ~At(p, "save")'
  BY <1>7, <1>11, <1>12, <1>13 DEF Decided, At
<1>15. InHand(p)'
  <2>1. call'[p].since <= now' /\ call'[p].q = Nothing /\ call'[p].ans = "none"
        /\ call'[p].rows = << >>
    BY <1>1, <1>11, <1>12, <1>13
  <2>2. call'[p].pc \in {"done", "page", "count"}
    BY <1>7, <1>11, <1>12
  <2> QED
    BY <1>14, <2>1, <2>2 DEF InHand, At
<1>16. PagesFollow(p)'
  <2> SUFFICES ASSUME call'[p].calm = GrantIds, (Memory => Distinct)'
               PROVE  /\ \E l \in List' : call'[p].met = Truncated(l, call'[p].offset)
                      /\ call'[p].offset # 0
                      /\ (At(p, "page") /\ Postgres)' =>
                           call'[p].total = Cardinality(DOMAIN grants')
                      /\ At(p, "done")' => Cardinality(DOMAIN grants') <= call'[p].offset
    BY DEF PagesFollow
  <2>1. Distinct' = Distinct /\ Memory' = Memory
    BY <1>1 DEF Distinct, Memory
  <2>2. List' = List
    BY <1>1, <2>1 DEF List, InOrder, CreatedLater, NewerRow, Place
  <2>3. /\ IF c.offset = 0 THEN c.met = << >>
           ELSE \E l \in List : c.met = Truncated(l, c.offset)
        /\ Postgres => c.total = Cardinality(D)
    BY <1>1, <1>11, <1>12, <2>1 DEF Served, PagesFollow, Paging, At
  <2>4. c.met = Truncated(s, c.offset)
    <3>1. CASE c.offset = 0
      <4>1. Truncated(s, 0) \in Seq(GrantIds) /\ Len(Truncated(s, 0)) = 0
        BY <1>8, TruncatedIs
      <4> QED
        BY <2>3, <3>1, <4>1, EmptySeq
    <3>2. CASE c.offset # 0
      <4>1. PICK l \in List : c.met = Truncated(l, c.offset)
        BY <2>3, <3>2
      <4> QED
        BY <1>1, <2>1, <4>1, OneList
    <3> QED
      BY <3>1, <3>2
  <2>5. met = Truncated(s, next)
    BY <1>9, <2>4 DEF met
  <2>6. total = Cardinality(D)
    <3>1. Memory \/ Postgres
      BY <1>1, ProvidersAssumption DEF TypeOK, Memory, Postgres
    <3> QED
      BY <2>3, <3>1 DEF total
  <2>7. (At(p, "page") /\ Postgres)' => FALSE
    BY <1>1, <1>7, <1>11, <1>12 DEF At, Memory, Postgres
  <2>8. At(p, "done")' => Cardinality(DOMAIN grants') <= call'[p].offset
    BY <1>1, <1>7, <1>11, <1>12, <2>6 DEF At
  <2> QED
    BY <1>6, <1>11, <1>12, <2>2, <2>5, <2>7, <2>8
<1>17. Served(p)'
  BY <1>11, <1>12, <1>13, <1>14, <1>15, <1>16
     DEF Served, JudgesWhatIsStored, PassesOverNothing, LatestFirst, At
<1> QED
  BY <1>1, <1>4, <1>11, <1>17, StepIsServed

--------------------------------------------------------------------------------
LEMMA InitIsServed == ASSUME Init PROVE IInv
<1>1. DOMAIN grants = {} /\ now = 1 /\ rowids = << >> /\ provider \in Providers
  BY DEF Init
<1>2. << >> \in SetToSeqs({})
  <2>1. IsFiniteSet({}) /\ Cardinality({}) = 0
    BY FS_EmptySet
  <2>2. << >> \in Seq({}) /\ Len(<< >>) = 0 /\ 1 .. 0 = {}
    OBVIOUS
  <2> QED
    BY <2>1, <2>2 DEF SetToSeqs
<1>3. \A p \in Procs : call[p] = Fresh("idle", Nothing, Nothing, 0)
  BY IdleIsFresh DEF Init
<1>4. TypeOK
  <2>1. call \in [Procs -> Call]
    BY IdleIsFresh DEF Init
  <2>2. IsFiniteSet(DOMAIN grants)
    BY <1>1, FS_EmptySet
  <2> QED
    BY <1>1, <1>2, <2>1, <2>2 DEF TypeOK
<1>5. ASSUME NEW p \in Procs PROVE Served(p)
  BY <1>1, <1>3 DEF Fresh, Served, InHand, JudgesWhatIsStored, PassesOverNothing, LatestFirst,
                    PagesFollow, Paging, Decided, At
<1> QED
  BY <1>4, <1>5 DEF IInv

LEMMA NextKeeps == ASSUME IInv, [Next]_vars PROVE IInv'
<1>1. ASSUME NEW p \in Procs, Serve(p) PROVE IInv'
  BY <1>1, BeginSaveKeeps, SaveKeeps, DeleteKeeps, BeginCheckKeeps, ReadKeeps, JudgeKeeps,
     BeginListKeeps, CountKeeps, PageKeeps, FailKeeps, RespondKeeps DEF Serve
<1>2. CASE Tick
  BY <1>2, TickKeeps
<1>3. CASE UNCHANGED vars
  <2>1. UNCHANGED <<provider, now, grants, rowids, call>>
    BY <1>3 DEF vars
  <2>2. TypeOK /\ now \in Nat /\ now' \in Nat /\ now <= now'
    BY <2>1 DEF IInv, TypeOK
  <2>3. TypeOK'
    <3>1. Postgres' = Postgres
      BY <2>1 DEF Postgres
    <3> QED
      BY <2>1, <2>2, <3>1 DEF TypeOK
  <2>4. ASSUME NEW p \in Procs PROVE Served(p)'
    <3>1. SameRequest(p) /\ Undisturbed(p)
      BY <2>1 DEF SameRequest, Undisturbed
    <3> QED
      BY <2>1, <2>2, <3>1, OthersAreServed DEF IInv
  <2> QED
    BY <2>3, <2>4 DEF IInv
<1> QED
  BY <1>1, <1>2, <1>3 DEF Next

(* Every request, whatever the others do meanwhile, has in hand what its   *)
(* next step needs, passes over no standing grant without an excuse, and   *)
(* fetches pages that follow one another (service.go:92-138,               *)
(* postgres.go:196,230-283).                                               *)
THEOREM GrantsInvariant == Spec => []IInv
<1>1. Init => IInv
  BY InitIsServed
<1>2. IInv /\ [Next]_vars => IInv'
  BY NextKeeps
<1> QED
  BY <1>1, <1>2, PTL DEF Spec

(* A request is told that no grant matches only if none in force did       *)
(* throughout, but for what the query of Postgres leaves out               *)
(* (service.go:109-138, postgres.go:237-283).                              *)
THEOREM NoGrantOverlooked == Spec => []NothingOverlooked
<1>1. IInv => NothingOverlooked
  <2> SUFFICES ASSUME IInv, NEW p \in Procs, At(p, "done"), call[p].q # Nothing,
                      call[p].ans = "none", NEW id \in Standing(p)
               PROVE  Excused(p, id)
    BY DEF NothingOverlooked
  <2>1. call[p].rows = << >>
    BY DEF IInv, Served, InHand, At
  <2>2. ~Ahead(p, id)
    BY <2>1 DEF Ahead
  <2> QED
    BY <2>2 DEF IInv, Served, PassesOverNothing
<1> QED
  BY <1>1, GrantsInvariant, PTL

(* With Postgres no grant decides a request against a later word about the *)
(* same resource that has stood throughout (postgres.go:196,237-256).      *)
THEOREM LatestWordDecides == Spec => []LatestDecides
<1>1. IInv => LatestDecides
  BY DEF IInv, Served, LatestFirst, LatestDecides
<1> QED
  BY <1>1, GrantsInvariant, PTL

(* No request is decided by a grant that had expired before it began       *)
(* (service.go:112, postgres.go:238).                                      *)
THEOREM LivingGrantsDecide == Spec => []DecidedByLiving
<1>1. IInv => DecidedByLiving
  BY DEF IInv, Served, InHand, DecidedByLiving
<1> QED
  BY <1>1, GrantsInvariant, PTL

(* Pages fetched while nobody writes show every grant once, provided, in   *)
(* the memory store, that no two were created in the same millisecond      *)
(* (service.go:55-73, postgres.go:184-208).                                *)
THEOREM PagesShowEveryGrantOnce == Spec => []PagesComplete
<1>1. IInv => PagesComplete
  <2> SUFFICES ASSUME IInv, NEW p \in Procs, At(p, "done"), call[p].offset > 0,
                      call[p].ans # "error", call[p].calm = GrantIds, Memory => Distinct
               PROVE  call[p].met \in SetToSeqs(DOMAIN grants)
    BY DEF PagesComplete
  <2>1. TypeOK /\ IsFiniteSet(DOMAIN grants) /\ call[p].offset \in Nat
    BY DEF IInv, TypeOK, Call
  <2>2. Paging(p) /\ PagesFollow(p) /\ call[p].offset # 0
    BY <2>1 DEF IInv, Served, Paging
  <2>3. PICK s \in List : call[p].met = Truncated(s, call[p].offset)
    BY <2>2 DEF PagesFollow
  <2>4. Cardinality(DOMAIN grants) <= call[p].offset
    BY <2>2 DEF PagesFollow
  <2>5. s \in SetToSeqs(DOMAIN grants)
    BY DEF List, InOrder
  <2>6. s \in Seq(DOMAIN grants) /\ Len(s) = Cardinality(DOMAIN grants)
    BY <2>1, <2>5, EnumerationIs
  <2>7. Truncated(s, call[p].offset) = s
    BY <2>1, <2>4, <2>6, TruncatedIs
  <2> QED
    BY <2>3, <2>5, <2>7
<1> QED
  BY <1>1, GrantsInvariant, PTL
================================================================================
