---------------------------- MODULE DriverProofs ----------------------------
(***************************************************************************)
(* The drivers that talk to the outside: the invariants of the HTTP        *)
(* server (module Http), of its client (module Cttp) and of the control    *)
(* socket (module Conn), for every number of servers, connections,         *)
(* requests and channels.                                                  *)
(***************************************************************************)
EXTENDS Http, Cttp, Conn, TLAPS, FiniteSetTheorems, WellFoundedInduction

-----------------------------------------------------------------------------
(* Sequences.                                                              *)

\* The least of a set of numbers.
LEMMA LeastOf ==
  ASSUME NEW S \in SUBSET Nat, S # {}
  PROVE  Min(S) \in S
<1>1. PICK m \in S : \A d \in S : ~ (<<d, m>> \in OpToRel(<, Nat))
  BY NatLessThanWellFounded, WFMin
<1>2. \A d \in S : ~ (d < m)
  BY <1>1 DEF OpToRel
<1>3. \A d \in S : m <= d
  BY <1>2
<1> QED
  BY <1>3 DEF Min

\* One list after another.
LEMMA ConcatFacts ==
  ASSUME NEW S, NEW a \in Seq(S), NEW b \in Seq(S)
  PROVE  /\ a \o b \in Seq(S) /\ Len(a \o b) = Len(a) + Len(b)
         /\ \A i \in 1 .. Len(a) + Len(b) :
              (a \o b)[i] = IF i <= Len(a) THEN a[i] ELSE b[i - Len(a)]
OBVIOUS

\* A list without one of its elements.
LEMMA RemoveAtFacts ==
  ASSUME NEW S, NEW s \in Seq(S), NEW k \in 1 .. Len(s)
  PROVE  /\ RemoveAt(s, k) \in Seq(S) /\ DOMAIN RemoveAt(s, k) = 1 .. Len(s) - 1
         /\ \A i \in 1 .. Len(s) - 1 : RemoveAt(s, k)[i] = s[IF i < k THEN i ELSE i + 1]
<1> DEFINE a == SubSeq(s, 1, k - 1)
           b == SubSeq(s, k + 1, Len(s))
           t == a \o b
<1>1. a \in Seq(S) /\ Len(a) = k - 1 /\ \A i \in 1 .. k - 1 : a[i] = s[i]
  OBVIOUS
<1>2. b \in Seq(S) /\ Len(b) = Len(s) - k /\ \A i \in 1 .. Len(s) - k : b[i] = s[i + k]
  OBVIOUS
<1>3. Len(s) \in Nat /\ k \in Nat /\ k >= 1 /\ k <= Len(s)
  OBVIOUS
<1> HIDE DEF a, b
<1>4. t \in Seq(S) /\ Len(t) = Len(a) + Len(b)
      /\ \A i \in 1 .. Len(a) + Len(b) : t[i] = IF i <= Len(a) THEN a[i] ELSE b[i - Len(a)]
  BY ONLY <1>1, <1>2, ConcatFacts
<1> HIDE DEF t
<1>5. Len(t) = Len(s) - 1 /\ DOMAIN t = 1 .. Len(s) - 1
  BY ONLY <1>1, <1>2, <1>3, <1>4
<1>6. ASSUME NEW i \in 1 .. Len(s) - 1 PROVE t[i] = s[IF i < k THEN i ELSE i + 1]
  <2>1. CASE i < k
    <3>1. i <= Len(a) /\ i \in 1 .. k - 1 /\ i \in 1 .. Len(a) + Len(b)
      BY ONLY <1>1, <1>2, <1>3, <1>6, <2>1
    <3> QED
      BY <1>1, <1>4, <2>1, <3>1
  <2>2. CASE ~(i < k)
    <3>1. t[i] = b[i - (k - 1)]
      BY ONLY <1>1, <1>2, <1>3, <1>4, <1>6, <2>2
    <3>2. PICK j \in 1 .. Len(s) - k : j = i - (k - 1)
      BY ONLY <1>3, <1>6, <2>2
    <3>3. b[j] = s[j + k] /\ j + k = i + 1
      BY <1>2, <1>3, <3>2
    <3> QED
      BY <2>2, <3>1, <3>2, <3>3
  <2> QED
    BY <2>1, <2>2
<1> QED
  BY <1>4, <1>5, <1>6 DEF RemoveAt, t, a, b

\* What is in a list behind a new first element.
LEMMA AfterFirst ==
  ASSUME NEW n \in Nat, NEW i \in 1 .. n + 1, i # 1
  PROVE  \E k \in 1 .. n : i = k + 1
<1>1. i - 1 \in 1 .. n /\ i = (i - 1) + 1
  OBVIOUS
<1> QED
  BY <1>1

\* t is s without its k-th element.
Without(t, s, k) ==
  /\ t \in Seq(Nat) /\ k \in DOMAIN s /\ Len(t) = Len(s) - 1
  /\ \A i \in 1 .. Len(t) : t[i] = s[IF i < k THEN i ELSE i + 1]

\* An element of a list is removed at one place.
LEMMA RemoveFirstFacts ==
  ASSUME NEW s \in Seq(Nat), NEW x \in Range(s)
  PROVE  \E k \in DOMAIN s : s[k] = x /\ Without(RemoveFirst(s, x), s, k)
<1> DEFINE I == {i \in 1 .. Len(s) : s[i] = x}
           k == Min(I)
<1>1. I # {} /\ I \in SUBSET Nat
  BY DEF Range
<1>2. k \in 1 .. Len(s) /\ s[k] = x
  BY <1>1, LeastOf
<1>3. RemoveFirst(s, x) = RemoveAt(s, k)
  BY <1>1 DEF RemoveFirst, SelectInSeq
<1> HIDE DEF k
<1>4. /\ RemoveAt(s, k) \in Seq(Nat) /\ DOMAIN RemoveAt(s, k) = 1 .. Len(s) - 1
      /\ \A i \in 1 .. Len(s) - 1 : RemoveAt(s, k)[i] = s[IF i < k THEN i ELSE i + 1]
  BY <1>2, RemoveAtFacts
<1>5. Len(RemoveAt(s, k)) = Len(s) - 1
  BY <1>2, <1>4
<1> DEFINE t == RemoveAt(s, k)
<1> HIDE DEF t
<1>6. /\ t \in Seq(Nat) /\ Len(t) = Len(s) - 1 /\ Len(s) \in Nat
      /\ \A i \in 1 .. Len(s) - 1 : t[i] = s[IF i < k THEN i ELSE i + 1]
  BY ONLY <1>4, <1>5, s \in Seq(Nat) DEF t
<1>7. Without(t, s, k)
  BY ONLY <1>2, <1>6, s \in Seq(Nat) DEF Without
<1> QED
  BY <1>2, <1>3, <1>7 DEF t

\* Nothing else is removed.
LEMMA RemoveRange ==
  ASSUME NEW s \in Seq(Nat), NEW x \in Range(s)
  PROVE  /\ RemoveFirst(s, x) \in Seq(Nat)
         /\ Range(RemoveFirst(s, x)) \subseteq Range(s)
         /\ Range(s) \subseteq Range(RemoveFirst(s, x)) \cup {x}
<1> DEFINE t == RemoveFirst(s, x)
<1>1. PICK k \in DOMAIN s : s[k] = x /\ Without(t, s, k)
  BY RemoveFirstFacts
<1> HIDE DEF t
<1>2. /\ t \in Seq(Nat) /\ Len(s) \in Nat /\ k \in 1 .. Len(s) /\ DOMAIN t = 1 .. Len(s) - 1
      /\ DOMAIN s = 1 .. Len(s)
      /\ \A i \in 1 .. Len(s) - 1 : t[i] = s[IF i < k THEN i ELSE i + 1]
  BY <1>1 DEF Without
<1>3. ASSUME NEW i \in DOMAIN t PROVE t[i] \in Range(s)
  <2>1. (IF i < k THEN i ELSE i + 1) \in DOMAIN s
    BY <1>2
  <2> QED
    BY <1>2, <2>1 DEF Range
<1>4. ASSUME NEW j \in DOMAIN s, j # k PROVE s[j] \in Range(t)
  <2>1. CASE j < k
    <3>1. j \in DOMAIN t /\ t[j] = s[j]
      BY <1>2, <2>1
    <3> QED
      BY <3>1 DEF Range
  <2>2. CASE ~(j < k)
    <3>1. PICK i \in 1 .. Len(s) - 1 : j = i + 1 /\ ~(i < k)
      <4>1. j - 1 \in 1 .. Len(s) - 1 /\ j = (j - 1) + 1 /\ ~(j - 1 < k)
        BY <1>2, <1>4, <2>2
      <4> QED
        BY <4>1
    <3>2. i \in DOMAIN t /\ t[i] = s[j]
      BY <1>2, <3>1
    <3> QED
      BY <3>2 DEF Range
  <2> QED
    BY <2>1, <2>2
<1>5. Range(t) \subseteq Range(s)
  BY <1>3 DEF Range
<1>6. Range(s) \subseteq Range(t) \cup {x}
  BY <1>1, <1>4 DEF Range
<1> QED
  BY <1>2, <1>5, <1>6 DEF t

\* A list in descending order loses an element for good.
LEMMA RemoveDescending ==
  ASSUME NEW s \in Seq(Nat), NEW x \in Range(s), \A i, j \in DOMAIN s : i < j => s[i] > s[j]
  PROVE  /\ Range(RemoveFirst(s, x)) = Range(s) \ {x}
         /\ \A i, j \in DOMAIN RemoveFirst(s, x) :
              i < j => RemoveFirst(s, x)[i] > RemoveFirst(s, x)[j]
<1> DEFINE t == RemoveFirst(s, x)
<1>1. PICK k \in DOMAIN s : s[k] = x /\ Without(t, s, k)
  BY RemoveFirstFacts
<1>3. Range(t) \subseteq Range(s) /\ Range(s) \subseteq Range(t) \cup {x}
  BY RemoveRange
<1> HIDE DEF t
<1>2. /\ t \in Seq(Nat) /\ Len(s) \in Nat /\ k \in 1 .. Len(s) /\ DOMAIN t = 1 .. Len(s) - 1
      /\ DOMAIN s = 1 .. Len(s)
      /\ \A i \in 1 .. Len(s) - 1 : t[i] = s[IF i < k THEN i ELSE i + 1]
  BY <1>1 DEF Without
<1>4. ASSUME NEW i \in DOMAIN t PROVE t[i] # x
  <2> DEFINE l == IF i < k THEN i ELSE i + 1
  <2>1. l \in DOMAIN s /\ (l < k \/ k < l)
    BY <1>2
  <2>2. s[l] > s[k] \/ s[k] > s[l]
    BY <1>2, <2>1
  <2>3. t[i] = s[l]
    BY <1>2
  <2> HIDE DEF l
  <2>4. s[l] \in Nat /\ s[k] \in Nat
    BY <1>2, <2>1
  <2> QED
    BY <1>1, <2>2, <2>3, <2>4
<1>5. x \notin Range(t)
  BY <1>4 DEF Range
<1>6. ASSUME NEW i \in DOMAIN t, NEW j \in DOMAIN t, i < j PROVE t[i] > t[j]
  <2> DEFINE l == IF i < k THEN i ELSE i + 1
             m == IF j < k THEN j ELSE j + 1
  <2>1. l \in DOMAIN s /\ m \in DOMAIN s /\ l < m
    <3>1. i \in 1 .. Len(s) - 1 /\ j \in 1 .. Len(s) - 1 /\ i < j /\ k \in Nat /\ Len(s) \in Nat
      BY <1>2, <1>6
    <3>2. l \in 1 .. Len(s) /\ m \in 1 .. Len(s)
      BY ONLY <3>1
    <3>3. l < m
      BY ONLY <3>1
    <3> QED
      BY <1>2, <3>2, <3>3
  <2>2. t[i] = s[l] /\ t[j] = s[m]
    BY <1>2
  <2> QED
    BY <2>1, <2>2
<1>7. Range(t) = Range(s) \ {x}
  BY <1>3, <1>5
<1> QED
  BY <1>6, <1>7 DEF t

\* How often a value is in a list that grows,
LEMMA CountAppend ==
  ASSUME NEW s \in Seq(Nat), NEW x, NEW y \in Nat
  PROVE  /\ Count(s, x) \in Nat
         /\ Count(Append(s, y), x) = IF x = y THEN Count(s, x) + 1 ELSE Count(s, x)
<1> DEFINE I == {i \in DOMAIN s : s[i] = x}
           J == {i \in DOMAIN Append(s, y) : Append(s, y)[i] = x}
           n == Len(s) + 1
<1>1. I \subseteq 1 .. Len(s) /\ Len(s) \in Nat
  OBVIOUS
<1>2. IsFiniteSet(I) /\ Cardinality(I) \in Nat
  <2>1. IsFiniteSet(1 .. Len(s)) /\ I \in SUBSET (1 .. Len(s))
    BY <1>1, FS_Interval
  <2>2. IsFiniteSet(I)
    BY ONLY <2>1, FS_Subset
  <2> QED
    BY ONLY <2>2, FS_CardinalityType
<1>3. n \notin I
  BY <1>1
<1>4. DOMAIN Append(s, y) = 1 .. n /\ Append(s, y)[n] = y /\ \A i \in 1 .. Len(s) : Append(s, y)[i] = s[i]
  OBVIOUS
<1>5. J = IF x = y THEN I \cup {n} ELSE I
  BY <1>1, <1>4
<1>6. Cardinality(I \cup {n}) = Cardinality(I) + 1
  BY <1>2, <1>3, FS_AddElement
<1> QED
  BY <1>2, <1>5, <1>6 DEF Count

\* and in one that it is not in.
LEMMA CountNone ==
  ASSUME NEW s, NEW x, \A i \in DOMAIN s : s[i] # x
  PROVE  Count(s, x) = 0
<1>1. {i \in DOMAIN s : s[i] = x} = {}
  OBVIOUS
<1> QED
  BY <1>1, FS_EmptySet DEF Count


\* Three lists, one after another.
LEMMA ConcatAssoc ==
  ASSUME NEW a \in Seq(Nat), NEW b \in Seq(Nat), NEW c \in Seq(Nat)
  PROVE  a \o (b \o c) = (a \o b) \o c
OBVIOUS

\* Two lists of the same length that agree everywhere.
LEMMA SameSeq ==
  ASSUME NEW n \in Nat, NEW v \in Seq(Nat), NEW w \in Seq(Nat), Len(v) = n, Len(w) = n,
         \A i \in 1 .. n : v[i] = w[i]
  PROVE  v = w
OBVIOUS

-----------------------------------------------------------------------------
(* The HTTP server: the books of requests.                                 *)

HReq == [slog : BOOLEAN, sat : {"plan", "ripe"}, ans : BOOLEAN, red : BOOLEAN, dun : BOOLEAN,
         bod : Seq(Nat), fin : BOOLEAN, sent : Seq(Nat), said : Seq(Nat)]
HEyre == [asked : BOOLEAN, cancels : Nat, all : BOOLEAN, tells : {"nothing", "start", "all"}]

\* What was said is sent or waits, and h2o does not wait with it; one that is planned
\* was not answered; a stream of slogs is answered as it is made.
RequestOK(r) ==
  /\ r \in HReq
  /\ r.sent \o r.bod = r.said
  /\ r.red = TRUE => r.bod = << >> /\ r.dun = FALSE
  /\ r.ans = FALSE => r.sent = << >> /\ r.bod = << >> /\ r.slog = FALSE
  /\ r.sat = "plan" => r.ans = FALSE

\* %eyre says nothing more once it has said all.
HeardOK(e) == e \in HEyre /\ (e.asked = TRUE /\ e.all = TRUE => e.tells = "all")

\* A request is answered to the end when %eyre has said all, and %eyre heard of its end
\* only if h2o answered it at the timer.
PairOK(r, e) ==
  /\ r.slog = TRUE => e.asked = FALSE
  /\ e.asked = TRUE =>
       /\ r.ans = TRUE => e.cancels = 0 /\ r.dun = e.all /\ (r.fin = TRUE => r.dun = TRUE)
       /\ r.ans = FALSE => e.all = FALSE /\ e.cancels = (IF r.sat = "plan" THEN 0 ELSE 1)

\* When it has ended %eyre has said all, or heard of it.
EndOK(e) == e.asked = TRUE => e.cancels = (IF e.all = TRUE THEN 0 ELSE 1)

BooksInv ==
  /\ DOMAIN hreq \subseteq DOMAIN eyre
  /\ hreq = [k \in DOMAIN hreq |-> hreq[k]] /\ eyre = [k \in DOMAIN eyre |-> eyre[k]]
  /\ \A k \in DOMAIN hreq : RequestOK(hreq[k]) /\ PairOK(hreq[k], eyre[k])
  /\ \A k \in DOMAIN eyre : HeardOK(eyre[k])
  /\ \A k \in DOMAIN eyre : k \notin DOMAIN hreq => EndOK(eyre[k])

\* What waits is sent.
LEMMA SendFacts ==
  ASSUME NEW r \in HReq, r.sent \o r.bod = r.said
  PROVE  LET t == HgenSend(r) IN
         /\ t \in HReq /\ t.sent \o t.bod = t.said /\ t.red = FALSE /\ t.bod = << >> /\ t.fin = r.dun
         /\ t.dun = r.dun /\ t.ans = r.ans /\ t.slog = r.slog /\ t.sat = r.sat
<1> DEFINE x == r.sent \o r.bod
           d == r.dun
           t == [r EXCEPT !.red = FALSE, !.bod = << >>, !.sent = x, !.fin = d]
<1>1. r.sent \in Seq(Nat) /\ r.bod \in Seq(Nat) /\ x \in Seq(Nat) /\ d \in BOOLEAN /\ << >> \in Seq(Nat)
  BY DEF HReq
<1>5. HgenSend(r) = t
  BY DEF HgenSend
<1>6. x = r.said /\ d = r.dun
  OBVIOUS
<1> HIDE DEF x, d
<1>2. t \in HReq
  BY <1>1 DEF HReq
<1>3. /\ t.sent = x /\ t.bod = << >> /\ t.red = FALSE /\ t.fin = d
      /\ t.dun = r.dun /\ t.ans = r.ans /\ t.slog = r.slog /\ t.sat = r.sat /\ t.said = r.said
  BY DEF HReq
<1> HIDE DEF t
<1>4. t.sent \o t.bod = t.sent
  BY <1>1, <1>3
<1> QED
  BY <1>2, <1>3, <1>4, <1>5, <1>6

\* A request is answered,
LEMMA StartFacts ==
  ASSUME NEW r \in HReq, r.sent = << >>, NEW data \in Seq(Nat), NEW complete \in BOOLEAN
  PROVE  LET t == StartRespond(r, data, complete) IN
         /\ t \in HReq /\ t.sent \o t.bod = t.said /\ t.red = FALSE
         /\ t.ans = TRUE /\ t.sat = "ripe" /\ t.dun = complete /\ t.fin = complete /\ t.slog = r.slog
<1> DEFINE u == [r EXCEPT !.sat = "ripe", !.ans = TRUE, !.red = TRUE, !.dun = complete,
                          !.bod = data, !.said = data]
<1>1. r \in HReq /\ r.sent = << >>
  OBVIOUS
<1>2. u \in HReq
  BY <1>1 DEF HReq
<1>3. /\ u.sent = << >> /\ u.bod = data /\ u.said = data /\ u.dun = complete /\ u.ans = TRUE
      /\ u.sat = "ripe" /\ u.slog = r.slog
  BY <1>1 DEF HReq
<1>4. StartRespond(r, data, complete) = HgenSend(u)
  BY DEF StartRespond
<1> HIDE DEF u
<1>5. u.sent \o u.bod = u.said
  BY <1>3
<1> QED
  BY <1>2, <1>3, <1>4, <1>5, SendFacts

\* and answered further.
LEMMA ContinueFacts ==
  ASSUME NEW r, RequestOK(r), NEW data \in Seq(Nat), NEW complete \in BOOLEAN
  PROVE  LET t == ContinueRespond(r, data, complete) IN
         /\ t \in HReq /\ t.sent \o t.bod = t.said /\ t.red = FALSE
         /\ t.ans = r.ans /\ t.sat = r.sat /\ t.dun = complete /\ t.slog = r.slog
         /\ t.fin = IF r.red = TRUE THEN complete ELSE r.fin
<1> DEFINE u == [r EXCEPT !.dun = complete, !.bod = @ \o data, !.said = @ \o data]
<1>1. /\ r \in HReq /\ r.sent \o r.bod = r.said /\ r.sent \in Seq(Nat) /\ r.bod \in Seq(Nat)
      /\ r.said \in Seq(Nat) /\ r.red \in BOOLEAN
  BY DEF RequestOK, HReq
<1>2. r.bod \o data \in Seq(Nat) /\ r.said \o data \in Seq(Nat)
  BY <1>1
<1>3. u \in HReq
  BY <1>1, <1>2 DEF HReq
<1>4. /\ u.sent = r.sent /\ u.bod = r.bod \o data /\ u.said = r.said \o data /\ u.dun = complete
      /\ u.ans = r.ans /\ u.sat = r.sat /\ u.slog = r.slog /\ u.red = r.red /\ u.fin = r.fin
  BY <1>1 DEF HReq
<1>5. ContinueRespond(r, data, complete) = IF u.red THEN HgenSend(u) ELSE u
  BY DEF ContinueRespond
<1> HIDE DEF u
<1>6. r.sent \o (r.bod \o data) = (r.sent \o r.bod) \o data
  <2>1. r.sent \in Seq(Nat) /\ r.bod \in Seq(Nat) /\ data \in Seq(Nat)
    BY <1>1
  <2> QED
    BY ONLY <2>1, ConcatAssoc
<1>7. u.sent \o u.bod = u.said
  BY <1>1, <1>4, <1>6
<1>8. CASE r.red = TRUE
  BY <1>3, <1>4, <1>5, <1>7, <1>8, SendFacts
<1>9. CASE r.red = FALSE
  BY <1>3, <1>4, <1>5, <1>7, <1>9
<1> QED
  BY <1>1, <1>8, <1>9

\* One request changes, or begins, or ends.
LEMMA BooksAt ==
  ASSUME BooksInv, NEW k, k \in DOMAIN eyre',
         hreq' = [j \in DOMAIN hreq' |-> hreq'[j]], eyre' = [j \in DOMAIN eyre' |-> eyre'[j]],
         \A j \in DOMAIN eyre' : j # k => j \in DOMAIN eyre /\ eyre'[j] = eyre[j],
         \A j \in DOMAIN hreq' : j # k => j \in DOMAIN hreq /\ hreq'[j] = hreq[j],
         \A j \in DOMAIN eyre : j \in DOMAIN eyre', \A j \in DOMAIN hreq : j # k => j \in DOMAIN hreq',
         HeardOK(eyre'[k]),
         k \in DOMAIN hreq' => RequestOK(hreq'[k]) /\ PairOK(hreq'[k], eyre'[k]),
         k \notin DOMAIN hreq' => EndOK(eyre'[k])
  PROVE  BooksInv'
<1>1. DOMAIN hreq' \subseteq DOMAIN eyre'
  BY DEF BooksInv
<1>2. ASSUME NEW j \in DOMAIN hreq' PROVE RequestOK(hreq'[j]) /\ PairOK(hreq'[j], eyre'[j])
  <2>1. CASE j = k
    BY <2>1
  <2>2. CASE j # k
    BY <1>1, <2>2 DEF BooksInv
  <2> QED
    BY <2>1, <2>2
<1>3. ASSUME NEW j \in DOMAIN eyre' PROVE HeardOK(eyre'[j])
  <2>1. CASE j = k
    BY <2>1
  <2>2. CASE j # k
    BY <2>2 DEF BooksInv
  <2> QED
    BY <2>1, <2>2
<1>4. ASSUME NEW j \in DOMAIN eyre', j \notin DOMAIN hreq' PROVE EndOK(eyre'[j])
  <2>1. CASE j = k
    BY <1>4, <2>1
  <2>2. CASE j # k
    BY <1>4, <2>2 DEF BooksInv
  <2> QED
    BY <2>1, <2>2
<1> QED
  BY <1>1, <1>2, <1>3, <1>4 DEF BooksInv

\* A request that is new.
LEMMA LinkBooks ==
  ASSUME BooksInv, NEW k, k \notin DOMAIN eyre, NEW r, RequestOK(r), NEW asked \in BOOLEAN,
         asked = TRUE => r.slog = FALSE /\ r.ans = FALSE /\ r.sat = "plan",
         hreq' = Added(hreq, k, r), eyre' = Added(eyre, k, Heard(asked))
  PROVE  BooksInv'
<1> DEFINE e == Heard(asked)
<1>1. /\ e \in HEyre /\ e.asked = asked /\ e.cancels = 0 /\ e.all = FALSE
  BY DEF Heard, HEyre
<1>2. /\ hreq' = [j \in DOMAIN hreq \cup {k} |-> IF j = k THEN r ELSE hreq[j]]
      /\ eyre' = [j \in DOMAIN eyre \cup {k} |-> IF j = k THEN e ELSE eyre[j]]
  BY DEF Added
<1> HIDE DEF e
<1>3. /\ hreq' = [j \in DOMAIN hreq' |-> hreq'[j]] /\ eyre' = [j \in DOMAIN eyre' |-> eyre'[j]]
      /\ DOMAIN hreq' = DOMAIN hreq \cup {k} /\ DOMAIN eyre' = DOMAIN eyre \cup {k}
      /\ hreq'[k] = r /\ eyre'[k] = e
      /\ \A j \in DOMAIN eyre' : j # k => j \in DOMAIN eyre /\ eyre'[j] = eyre[j]
      /\ \A j \in DOMAIN hreq' : j # k => j \in DOMAIN hreq /\ hreq'[j] = hreq[j]
  BY <1>2
<1>4. HeardOK(e) /\ PairOK(r, e)
  BY <1>1 DEF HeardOK, PairOK
<1> QED
  BY <1>3, <1>4, BooksAt

\* A request that there is changes, and so may what %eyre was told of it.
LEMMA ChangeBooks ==
  ASSUME BooksInv, NEW k \in DOMAIN hreq, NEW t, NEW e, RequestOK(t), HeardOK(e), PairOK(t, e),
         hreq' = [hreq EXCEPT ![k] = t], eyre' = [eyre EXCEPT ![k] = e]
  PROVE  BooksInv'
<1>1. k \in DOMAIN eyre
  BY DEF BooksInv
<1>2. /\ hreq' = [j \in DOMAIN hreq |-> IF j = k THEN t ELSE hreq[j]]
      /\ eyre' = [j \in DOMAIN eyre |-> IF j = k THEN e ELSE eyre[j]]
  OBVIOUS
<1>3. /\ hreq' = [j \in DOMAIN hreq' |-> hreq'[j]] /\ eyre' = [j \in DOMAIN eyre' |-> eyre'[j]]
      /\ DOMAIN hreq' = DOMAIN hreq /\ DOMAIN eyre' = DOMAIN eyre
      /\ hreq'[k] = t /\ eyre'[k] = e
      /\ \A j \in DOMAIN eyre' : j # k => j \in DOMAIN eyre /\ eyre'[j] = eyre[j]
      /\ \A j \in DOMAIN hreq' : j # k => j \in DOMAIN hreq /\ hreq'[j] = hreq[j]
  BY <1>1, <1>2
<1> QED
  BY <1>1, <1>3, BooksAt

\* What %eyre was told changes, of a request that ended.
LEMMA ToldBooks ==
  ASSUME BooksInv, NEW k \in DOMAIN eyre, NEW e, HeardOK(e),
         k \in DOMAIN hreq => PairOK(hreq[k], e), k \notin DOMAIN hreq => EndOK(e),
         UNCHANGED hreq, eyre' = [eyre EXCEPT ![k] = e]
  PROVE  BooksInv'
<1>1. /\ eyre' = [j \in DOMAIN eyre |-> IF j = k THEN e ELSE eyre[j]]
      /\ hreq' = [j \in DOMAIN hreq' |-> hreq'[j]]
      /\ k \in DOMAIN hreq => RequestOK(hreq[k])
  BY DEF BooksInv
<1>2. /\ eyre' = [j \in DOMAIN eyre' |-> eyre'[j]]
      /\ DOMAIN hreq' = DOMAIN hreq /\ DOMAIN eyre' = DOMAIN eyre
      /\ eyre'[k] = e
      /\ \A j \in DOMAIN eyre' : j # k => j \in DOMAIN eyre /\ eyre'[j] = eyre[j]
      /\ \A j \in DOMAIN hreq' : j # k => j \in DOMAIN hreq /\ hreq'[j] = hreq[j]
  BY <1>1
<1> QED
  BY <1>1, <1>2, BooksAt

\* Of a request in the books.
LEMMA InBooks ==
  ASSUME BooksInv, NEW k \in DOMAIN hreq
  PROVE  /\ k \in DOMAIN eyre /\ RequestOK(hreq[k]) /\ PairOK(hreq[k], eyre[k]) /\ HeardOK(eyre[k])
         /\ hreq[k] \in HReq /\ eyre[k] \in HEyre
BY DEF BooksInv, RequestOK, HeardOK

\* h2o is ready for more.
LEMMA ProceedBooks == BooksInv /\ Proceed => BooksInv'
<1> SUFFICES ASSUME BooksInv, Proceed PROVE BooksInv'
  OBVIOUS
<1>1. PICK k \in DOMAIN hreq :
        LET r == [hreq[k] EXCEPT !.red = TRUE] IN
        /\ hreq[k].ans /\ ~hreq[k].red /\ ~hreq[k].fin
        /\ hreq' = [hreq EXCEPT ![k] = IF r.bod # << >> \/ r.dun THEN HgenSend(r) ELSE r]
        /\ UNCHANGED eyre
  BY DEF Proceed
<1> DEFINE q == hreq[k]
           r == [q EXCEPT !.red = TRUE]
           t == IF r.bod # << >> \/ r.dun THEN HgenSend(r) ELSE r
<1>2. k \in DOMAIN eyre /\ RequestOK(q) /\ PairOK(q, eyre[k]) /\ HeardOK(eyre[k]) /\ q \in HReq
  BY InBooks
<1>3. hreq' = [hreq EXCEPT ![k] = t] /\ q.ans = TRUE /\ q.fin = FALSE
  BY <1>1, <1>2 DEF HReq
<1>4. eyre' = [eyre EXCEPT ![k] = eyre[k]]
  BY <1>1, <1>2 DEF BooksInv
<1> HIDE DEF q
<1>5. /\ r \in HReq /\ r.sent = q.sent /\ r.bod = q.bod /\ r.said = q.said /\ r.dun = q.dun /\ r.ans = q.ans
      /\ r.sat = q.sat /\ r.slog = q.slog /\ r.fin = q.fin /\ r.red = TRUE
  BY <1>2 DEF HReq
<1> HIDE DEF r
<1>6. r.sent \o r.bod = r.said /\ q.sat # "plan" /\ r.dun \in BOOLEAN
  BY <1>2, <1>3, <1>5 DEF RequestOK, HReq
<1>7. CASE r.bod # << >> \/ r.dun = TRUE
  <2>1. t = HgenSend(r)
    BY <1>7
  <2> HIDE DEF t
  <2>2. /\ t \in HReq /\ t.sent \o t.bod = t.said /\ t.red = FALSE /\ t.fin = r.dun
        /\ t.dun = r.dun /\ t.ans = r.ans /\ t.slog = r.slog /\ t.sat = r.sat
    BY <1>5, <1>6, <2>1, SendFacts
  <2>3. RequestOK(t)
    BY <1>3, <1>5, <1>6, <2>2 DEF RequestOK
  <2>4. PairOK(t, eyre[k])
    BY <1>2, <1>3, <1>5, <2>2 DEF PairOK
  <2> QED
    BY <1>2, <1>3, <1>4, <2>3, <2>4, ChangeBooks
<1>8. CASE r.bod = << >> /\ r.dun = FALSE
  <2>1. t = r
    BY <1>8
  <2> HIDE DEF t
  <2>2. RequestOK(t)
    BY <1>3, <1>5, <1>6, <1>8, <2>1 DEF RequestOK
  <2>3. PairOK(t, eyre[k])
    BY <1>2, <1>3, <1>5, <2>1 DEF PairOK
  <2> QED
    BY <1>2, <1>3, <1>4, <2>2, <2>3, ChangeBooks
<1> QED
  BY <1>6, <1>7, <1>8

\* The timer goes off.
LEMMA ReqTimerBooks == BooksInv /\ ReqTimer => BooksInv'
<1> SUFFICES ASSUME BooksInv, ReqTimer PROVE BooksInv'
  OBVIOUS
<1>1. PICK k \in DOMAIN hreq :
        /\ hreq[k].sat = "plan" /\ eyre' = [eyre EXCEPT ![k].cancels = @ + 1]
        /\ hreq' = [hreq EXCEPT ![k].sat = "ripe"]
  BY DEF ReqTimer, Kill
<1> DEFINE r == hreq[k]
           e == eyre[k]
           t == [r EXCEPT !.sat = "ripe"]
           f == [e EXCEPT !.cancels = @ + 1]
<1>2. k \in DOMAIN eyre /\ RequestOK(r) /\ PairOK(r, e) /\ HeardOK(e) /\ r \in HReq /\ e \in HEyre
  BY InBooks
<1>3. hreq' = [hreq EXCEPT ![k] = t] /\ eyre' = [eyre EXCEPT ![k] = f] /\ r.sat = "plan"
  BY <1>1
<1> HIDE DEF r, e
<1>4. /\ t \in HReq /\ t.sat = "ripe" /\ t.sent = r.sent /\ t.bod = r.bod /\ t.said = r.said
      /\ t.dun = r.dun /\ t.ans = r.ans /\ t.slog = r.slog /\ t.fin = r.fin /\ t.red = r.red
  BY <1>2 DEF HReq
<1>5. /\ f \in HEyre /\ f.cancels = e.cancels + 1 /\ f.all = e.all /\ f.asked = e.asked /\ f.tells = e.tells
  BY <1>2 DEF HEyre
<1> HIDE DEF t, f
<1>6. RequestOK(t)
  BY <1>2, <1>4 DEF RequestOK
<1>7. r.ans = FALSE
  BY <1>2, <1>3 DEF RequestOK
<1>8. PairOK(t, f)
  BY <1>2, <1>3, <1>4, <1>5, <1>7 DEF PairOK
<1>9. HeardOK(f)
  BY <1>2, <1>5 DEF HeardOK
<1> QED
  BY <1>2, <1>3, <1>6, <1>8, <1>9, ChangeBooks

\* h2o ends a request.
LEMMA ReqDoneBooks == BooksInv /\ ReqDone => BooksInv'
<1> SUFFICES ASSUME BooksInv, ReqDone PROVE BooksInv'
  OBVIOUS
<1>1. PICK k \in DOMAIN hreq :
        LET r == hreq[k] IN
        /\ hreq' = Restrict(hreq, DOMAIN hreq \ {k})
        /\ IF r.sat = "plan" \/ (r.ans /\ ~r.fin /\ ~r.dun) THEN Kill(k) ELSE UNCHANGED eyre
  BY DEF ReqDone
<1> DEFINE r == hreq[k]
           e == eyre[k]
           f == [e EXCEPT !.cancels = @ + 1]
           g == eyre'[k]
<1>2. k \in DOMAIN eyre /\ RequestOK(r) /\ PairOK(r, e) /\ HeardOK(e) /\ r \in HReq /\ e \in HEyre
  BY InBooks
<1>3. r.ans \in BOOLEAN /\ r.fin \in BOOLEAN /\ r.dun \in BOOLEAN /\ e.all \in BOOLEAN
  BY <1>2 DEF HReq, HEyre
<1>4. /\ f \in HEyre /\ f.cancels = e.cancels + 1 /\ f.all = e.all /\ f.asked = e.asked /\ f.tells = e.tells
  BY <1>2 DEF HEyre
<1>5. /\ DOMAIN eyre' = DOMAIN eyre /\ eyre' = [j \in DOMAIN eyre' |-> eyre'[j]]
      /\ \A j \in DOMAIN eyre : j # k => eyre'[j] = eyre[j]
      /\ g = IF r.sat = "plan" \/ (r.ans = TRUE /\ r.fin = FALSE /\ r.dun = FALSE) THEN f ELSE e
  <2>1. CASE r.sat = "plan" \/ (r.ans = TRUE /\ r.fin = FALSE /\ r.dun = FALSE)
    <3>1. eyre' = [eyre EXCEPT ![k].cancels = @ + 1]
      BY <1>1, <2>1 DEF Kill
    <3> QED
      BY <1>2, <2>1, <3>1
  <2>2. CASE ~ (r.sat = "plan" \/ (r.ans = TRUE /\ r.fin = FALSE /\ r.dun = FALSE))
    <3>1. eyre' = eyre
      BY <1>1, <1>3, <2>2
    <3> QED
      BY <1>2, <2>2, <3>1 DEF BooksInv
  <2> QED
    BY <2>1, <2>2
<1>6. /\ DOMAIN hreq' = DOMAIN hreq \ {k} /\ hreq' = [j \in DOMAIN hreq' |-> hreq'[j]]
      /\ \A j \in DOMAIN hreq' : hreq'[j] = hreq[j]
  BY <1>1 DEF Restrict
<1> HIDE DEF r, e, f, g
<1>7. HeardOK(g)
  BY <1>2, <1>4, <1>5 DEF HeardOK
<1>8. EndOK(g)
  <2>1. CASE e.asked = TRUE
    <3>1. CASE r.ans = TRUE
      BY <1>2, <1>3, <1>4, <1>5, <2>1, <3>1 DEF PairOK, EndOK, RequestOK
    <3>2. CASE r.ans = FALSE
      BY <1>2, <1>3, <1>4, <1>5, <2>1, <3>2 DEF PairOK, EndOK
    <3> QED
      BY <1>3, <3>1, <3>2
  <2>2. CASE e.asked # TRUE
    BY <1>4, <1>5, <2>2 DEF EndOK
  <2> QED
    BY <2>1, <2>2
<1> QED
  BY <1>2, <1>5, <1>6, <1>7, <1>8, BooksAt DEF g

\* What may be said next is a part of a body.
LEMMA SaysFacts ==
  ASSUME BooksInv, NEW k \in DOMAIN hreq
  PROVE  Says(k) \subseteq Seq(Nat)
<1>1. hreq[k].said \in Seq(Nat)
  BY InBooks DEF HReq
<1>2. Len(hreq[k].said) + 1 \in Nat
  BY <1>1
<1>3. <<Len(hreq[k].said) + 1>> \in Seq(Nat) /\ << >> \in Seq(Nat)
  BY <1>2
<1> HIDE DEF BooksInv
<1> QED
  BY ONLY <1>3 DEF Says

\* What %eyre says that changes nothing.
LEMMA SpokeBooks ==
  ASSUME BooksInv, NEW k \in DOMAIN eyre, NEW how \in {"nothing", "start", "all"}, NEW complete \in BOOLEAN,
         eyre[k].tells # "all", eyre' = Spoke(k, how, complete), UNCHANGED hreq
  PROVE  BooksInv'
<1> DEFINE e == eyre[k]
           w == IF complete THEN "all" ELSE how
           f == [e EXCEPT !.tells = w]
<1>1. HeardOK(e) /\ e \in HEyre
  BY DEF BooksInv, HeardOK
<1>2. eyre' = [eyre EXCEPT ![k] = f]
  BY DEF Spoke
<1>3. w \in {"nothing", "start", "all"}
  OBVIOUS
<1> HIDE DEF w
<1>4. /\ f \in HEyre /\ f.all = e.all /\ f.asked = e.asked /\ f.cancels = e.cancels
  BY <1>1, <1>3 DEF HEyre
<1>5. e.tells # "all"
  OBVIOUS
<1>6. k \in DOMAIN hreq => PairOK(hreq[k], e)
  BY DEF BooksInv
<1>7. k \notin DOMAIN hreq => EndOK(e)
  BY DEF BooksInv
<1> HIDE DEF e, f
<1>8. HeardOK(f)
  BY <1>1, <1>4, <1>5 DEF HeardOK, HEyre
<1>9. k \in DOMAIN hreq => PairOK(hreq[k], f)
  BY <1>4, <1>6 DEF PairOK
<1>10. k \notin DOMAIN hreq => EndOK(f)
  BY <1>4, <1>7 DEF EndOK
<1> QED
  BY <1>2, <1>8, <1>9, <1>10, ToldBooks

\* What %eyre says that is heard.
LEMMA ToldAll ==
  ASSUME BooksInv, NEW k \in DOMAIN eyre, NEW complete \in BOOLEAN, eyre[k].tells # "all", eyre[k].asked = TRUE
  PROVE  \E f \in HEyre :
           /\ Told(k, "start", complete) = [eyre EXCEPT ![k] = f]
           /\ f.asked = TRUE /\ f.cancels = eyre[k].cancels /\ f.all = complete /\ HeardOK(f)
           /\ eyre[k].all = FALSE
<1> DEFINE e == eyre[k]
           w == IF complete THEN "all" ELSE "start"
           a == e.all \/ complete
           f == [e EXCEPT !.tells = w, !.all = a]
<1>1. HeardOK(e) /\ e \in HEyre /\ e.tells # "all" /\ e.asked = TRUE
  BY DEF BooksInv, HeardOK
<1>2. e.all = FALSE
  BY <1>1 DEF HeardOK, HEyre
<1>3. Told(k, "start", complete) = [eyre EXCEPT ![k] = f]
  BY DEF Told
<1>4. w \in {"nothing", "start", "all"} /\ (complete = TRUE => w = "all") /\ a = complete
  BY <1>2
<1> HIDE DEF w, a, e
<1>5. /\ f \in HEyre /\ f.all = complete /\ f.asked = TRUE /\ f.cancels = e.cancels /\ f.tells = w
  BY <1>1, <1>4 DEF HEyre
<1> HIDE DEF f
<1>6. HeardOK(f)
  BY <1>4, <1>5 DEF HeardOK
<1> QED
  BY <1>2, <1>3, <1>5, <1>6 DEF e

\* %eyre begins an answer,
LEMMA EfStartBooks == BooksInv /\ EfStart => BooksInv'
<1> SUFFICES ASSUME BooksInv, EfStart PROVE BooksInv'
  OBVIOUS
<1>1. PICK k \in DOMAIN eyre, complete \in BOOLEAN :
        /\ eyre[k].asked /\ eyre[k].tells = "nothing"
        /\ IF Dangles THEN UNCHANGED <<hreq, eyre>>
           ELSE IF k \in DOMAIN hreq /\ hreq[k].sat = "plan"
                THEN \E data \in Says(k) : /\ hreq' = [hreq EXCEPT ![k] = StartRespond(@, data, complete)]
                                           /\ eyre' = Told(k, "start", complete)
                ELSE UNCHANGED hreq /\ eyre' = Spoke(k, "start", complete)
  BY DEF EfStart
<1>2. eyre[k].asked = TRUE /\ eyre[k].tells # "all"
  BY <1>1 DEF BooksInv, HeardOK, HEyre
<1>3. CASE UNCHANGED <<hreq, eyre>>
  BY <1>3 DEF BooksInv
<1>4. CASE UNCHANGED hreq /\ eyre' = Spoke(k, "start", complete)
  BY <1>2, <1>4, SpokeBooks
<1>5. ASSUME k \in DOMAIN hreq, hreq[k].sat = "plan", NEW data \in Says(k),
             hreq' = [hreq EXCEPT ![k] = StartRespond(@, data, complete)], eyre' = Told(k, "start", complete)
      PROVE  BooksInv'
  <2> DEFINE r == hreq[k]
             t == StartRespond(r, data, complete)
  <2>1. RequestOK(r) /\ PairOK(r, eyre[k]) /\ r \in HReq /\ r.sat = "plan" /\ data \in Seq(Nat)
    BY <1>5, InBooks, SaysFacts
  <2>2. hreq' = [hreq EXCEPT ![k] = t]
    BY <1>5
  <2> HIDE DEF r
  <2>3. r.sent = << >> /\ r.ans = FALSE
    BY <2>1 DEF RequestOK
  <2>4. /\ t \in HReq /\ t.sent \o t.bod = t.said /\ t.red = FALSE
        /\ t.ans = TRUE /\ t.sat = "ripe" /\ t.dun = complete /\ t.fin = complete /\ t.slog = r.slog
    BY <2>1, <2>3, StartFacts
  <2> HIDE DEF t
  <2>5. PICK f \in HEyre :
           /\ Told(k, "start", complete) = [eyre EXCEPT ![k] = f]
           /\ f.asked = TRUE /\ f.cancels = eyre[k].cancels /\ f.all = complete /\ HeardOK(f)
    BY <1>2, ToldAll
  <2>6. RequestOK(t)
    BY <2>4 DEF RequestOK
  <2>7. eyre[k].cancels = 0 /\ r.slog # TRUE
    BY <1>2, <2>1, <2>3 DEF PairOK
  <2>8. PairOK(t, f)
    BY <2>4, <2>5, <2>7 DEF PairOK
  <2>9. eyre' = [eyre EXCEPT ![k] = f]
    BY <1>5, <2>5
  <2> QED
    BY <1>5, <2>2, <2>5, <2>6, <2>8, <2>9, ChangeBooks
<1> QED
  BY <1>1, <1>3, <1>4, <1>5

\* and goes on with it.
LEMMA EfContinueBooks == BooksInv /\ EfContinue => BooksInv'
<1> SUFFICES ASSUME BooksInv, EfContinue PROVE BooksInv'
  OBVIOUS
<1>1. PICK k \in DOMAIN eyre, complete \in BOOLEAN :
        /\ eyre[k].asked /\ eyre[k].tells = "start"
        /\ IF Dangles THEN UNCHANGED <<hreq, eyre>>
           ELSE IF k \in DOMAIN hreq /\ hreq[k].sat = "ripe"
           THEN IF ~hreq[k].ans THEN UNCHANGED <<hreq, eyre>>
                ELSE \E data \in Says(k) : /\ hreq' = [hreq EXCEPT ![k] = ContinueRespond(@, data, complete)]
                                           /\ eyre' = Told(k, "start", complete)
           ELSE eyre' = Spoke(k, "start", complete) /\ UNCHANGED hreq
  BY DEF EfContinue
<1>2. eyre[k].asked = TRUE /\ eyre[k].tells # "all"
  BY <1>1 DEF BooksInv, HeardOK, HEyre
<1>3. CASE UNCHANGED <<hreq, eyre>>
  BY <1>3 DEF BooksInv
<1>4. CASE UNCHANGED hreq /\ eyre' = Spoke(k, "start", complete)
  BY <1>2, <1>4, SpokeBooks
<1>5. ASSUME k \in DOMAIN hreq, hreq[k].ans, NEW data \in Says(k),
             hreq' = [hreq EXCEPT ![k] = ContinueRespond(@, data, complete)], eyre' = Told(k, "start", complete)
      PROVE  BooksInv'
  <2> DEFINE r == hreq[k]
             t == ContinueRespond(r, data, complete)
  <2>1. RequestOK(r) /\ PairOK(r, eyre[k]) /\ r \in HReq /\ r.ans = TRUE /\ data \in Seq(Nat)
    <3>1. RequestOK(r) /\ PairOK(r, eyre[k]) /\ r \in HReq /\ data \in Seq(Nat)
      BY <1>5, InBooks, SaysFacts
    <3> QED
      BY <1>5, <3>1 DEF HReq
  <2>2. hreq' = [hreq EXCEPT ![k] = t]
    BY <1>5
  <2> HIDE DEF r
  <2>3. /\ t \in HReq /\ t.sent \o t.bod = t.said /\ t.red = FALSE
        /\ t.ans = r.ans /\ t.sat = r.sat /\ t.dun = complete /\ t.slog = r.slog
        /\ t.fin = IF r.red = TRUE THEN complete ELSE r.fin
    BY <2>1, ContinueFacts
  <2> HIDE DEF t
  <2>4. PICK f \in HEyre :
           /\ Told(k, "start", complete) = [eyre EXCEPT ![k] = f]
           /\ f.asked = TRUE /\ f.cancels = eyre[k].cancels /\ f.all = complete /\ HeardOK(f)
           /\ eyre[k].all = FALSE
    BY <1>2, ToldAll
  <2>5. RequestOK(t)
    BY <2>1, <2>3 DEF RequestOK
  <2>6. eyre[k].cancels = 0 /\ r.slog # TRUE /\ r.fin # TRUE
    BY <1>2, <2>1, <2>4 DEF PairOK
  <2>7. PairOK(t, f)
    BY <2>1, <2>3, <2>4, <2>6 DEF PairOK
  <2>8. eyre' = [eyre EXCEPT ![k] = f]
    BY <1>5, <2>4
  <2> QED
    BY <1>5, <2>2, <2>4, <2>5, <2>7, <2>8, ChangeBooks
<1>6. k \in DOMAIN hreq => hreq[k].ans \in BOOLEAN
  BY InBooks DEF HReq
<1> QED
  BY <1>1, <1>3, <1>4, <1>5, <1>6

\* It hears that it need not.
LEMMA HearsCancelBooks == BooksInv /\ HearsCancel => BooksInv'
<1> SUFFICES ASSUME BooksInv, HearsCancel PROVE BooksInv'
  OBVIOUS
<1>1. PICK k \in DOMAIN eyre :
        /\ eyre[k].tells \in {"nothing", "start"}
        /\ eyre' = [eyre EXCEPT ![k].tells = "all"] /\ UNCHANGED hreq
  BY DEF HearsCancel
<1>2. eyre' = Spoke(k, "all", TRUE)
  BY <1>1 DEF Spoke
<1> QED
  BY <1>1, <1>2, SpokeBooks

\* A line for every stream of slogs.
LEMMA SlogBooks ==
  ASSUME BooksInv, NEW complete \in BOOLEAN, SlogAll(complete), UNCHANGED eyre
  PROVE  BooksInv'
<1>1. /\ DOMAIN hreq' = DOMAIN hreq /\ hreq' = [k \in DOMAIN hreq' |-> hreq'[k]]
      /\ \A k \in DOMAIN hreq :
           hreq'[k] = IF hreq[k].slog THEN ContinueRespond(hreq[k], <<Len(hreq[k].said) + 1>>, complete)
                      ELSE hreq[k]
  BY DEF SlogAll
<1>2. ASSUME NEW k \in DOMAIN hreq PROVE RequestOK(hreq'[k]) /\ PairOK(hreq'[k], eyre[k])
  <2> DEFINE r == hreq[k]
             data == <<Len(r.said) + 1>>
             t == ContinueRespond(r, data, complete)
  <2>1. RequestOK(r) /\ PairOK(r, eyre[k]) /\ r \in HReq /\ r.slog \in BOOLEAN /\ r.said \in Seq(Nat)
    BY InBooks DEF HReq
  <2>2. hreq'[k] = IF r.slog THEN t ELSE r
    BY <1>1
  <2> HIDE DEF r
  <2>3. data \in Seq(Nat)
    <3>1. Len(r.said) + 1 \in Nat
      BY <2>1
    <3> QED
      BY <3>1
  <2>4. CASE r.slog = TRUE
    <3> HIDE DEF data
    <3>1. /\ t \in HReq /\ t.sent \o t.bod = t.said /\ t.red = FALSE
          /\ t.ans = r.ans /\ t.sat = r.sat /\ t.dun = complete /\ t.slog = r.slog
          /\ t.fin = IF r.red = TRUE THEN complete ELSE r.fin
      BY <2>1, <2>3, ContinueFacts
    <3>2. hreq'[k] = t
      BY <2>2, <2>4
    <3> HIDE DEF t
    <3>3. r.ans = TRUE
      BY <2>1, <2>4 DEF RequestOK, HReq
    <3>4. RequestOK(t)
      BY <2>1, <3>1, <3>3 DEF RequestOK
    <3>5. PairOK(t, eyre[k])
      BY <2>1, <2>4, <3>1 DEF PairOK
    <3> QED
      BY <3>2, <3>4, <3>5
  <2>5. CASE r.slog = FALSE
    BY <2>1, <2>2, <2>5
  <2> QED
    BY <2>1, <2>4, <2>5
<1> QED
  BY <1>1, <1>2 DEF BooksInv

-----------------------------------------------------------------------------
(* The HTTP server: servers and connections.                               *)

HConns == UNION {[D -> Nat] : D \in SUBSET Nat}
Server == [lst : {"open", "closed"}, liv : BOOLEAN, shut : BOOLEAN, con : HConns, nex : Nat,
           st : {"up", "freeing", "freed"}]

\* Lists, whatever is in them.
ListsOK ==
  /\ htp \in Seq(Nat) /\ bound \in Bounds
  /\ closing \in Seq(Range(closing)) /\ running \in Seq(Range(running))
  /\ \A h \in Range(closing) \cup Range(running) : h = <<h[1]>> \/ h = <<h[1], h[2]>>

\* Connections are numbered as they come, and so are the requests on each.
ServInv ==
  /\ serv \in [DOMAIN serv -> Server]
  /\ \A s \in DOMAIN serv : \A c \in DOMAIN serv[s].con : c < serv[s].nex

FreshInv ==
  \A k \in DOMAIN eyre :
    /\ k[1] \in DOMAIN serv /\ k[2] \in Nat /\ k[3] \in Nat /\ k[2] < serv[k[1]].nex
    /\ k[2] \in DOMAIN serv[k[1]].con => k[3] < serv[k[1]].con[k[2]]

\* A cookie that is looked up is a connection's, as long as its request is there.
PeekInv ==
  \A p \in peeks : p.gone = FALSE =>
    p.srv \in DOMAIN serv /\ p.con \in DOMAIN serv[p.srv].con /\ ~Closed(<<p.srv, p.con>>)

PeeksOK == peeks \subseteq [srv : DOMAIN serv, con : Nat, gone : BOOLEAN]

HttpInv == BooksInv /\ ListsOK /\ ServInv /\ FreshInv /\ PeekInv /\ PeeksOK

\* A list is a list of what is in it.
LEMMA OfItsOwn ==
  ASSUME NEW S, NEW s \in Seq(S)
  PROVE  s \in Seq(Range(s))
<1>1. DOMAIN s = 1 .. Len(s) /\ Len(s) \in Nat /\ s = [i \in 1 .. Len(s) |-> s[i]]
  OBVIOUS
<1>2. \A i \in 1 .. Len(s) : s[i] \in Range(s)
  BY <1>1 DEF Range
<1> QED
  BY <1>1, <1>2

\* Two of them, one after the other.
LEMMA JoinedLists ==
  ASSUME NEW A, NEW B, NEW a \in Seq(A), NEW b \in Seq(B)
  PROVE  a \o b \in Seq(Range(a \o b)) /\ Range(a \o b) = Range(a) \cup Range(b)
<1> DEFINE S == A \cup B
           c == a \o b
<1>1. a \in Seq(S) /\ b \in Seq(S)
  OBVIOUS
<1>2. /\ c \in Seq(S) /\ Len(c) = Len(a) + Len(b)
      /\ \A i \in 1 .. Len(a) + Len(b) : c[i] = IF i <= Len(a) THEN a[i] ELSE b[i - Len(a)]
  BY ONLY <1>1, ConcatFacts
<1>3. /\ DOMAIN a = 1 .. Len(a) /\ DOMAIN b = 1 .. Len(b) /\ Len(a) \in Nat /\ Len(b) \in Nat
      /\ DOMAIN c = 1 .. Len(a) + Len(b)
  BY <1>2
<1> HIDE DEF c, S
<1>4. ASSUME NEW i \in DOMAIN c PROVE c[i] \in Range(a) \cup Range(b)
  <2>1. CASE i <= Len(a)
    <3>1. i \in DOMAIN a /\ c[i] = a[i]
      BY <1>2, <1>3, <2>1
    <3> QED
      BY <3>1 DEF Range
  <2>2. CASE ~(i <= Len(a))
    <3>1. i - Len(a) \in DOMAIN b /\ c[i] = b[i - Len(a)]
      BY <1>2, <1>3, <2>2
    <3> QED
      BY <3>1 DEF Range
  <2> QED
    BY <2>1, <2>2
<1>5. ASSUME NEW i \in DOMAIN a PROVE a[i] \in Range(c)
  <2>1. i \in DOMAIN c /\ c[i] = a[i]
    BY <1>2, <1>3
  <2> QED
    BY <2>1 DEF Range
<1>6. ASSUME NEW i \in DOMAIN b PROVE b[i] \in Range(c)
  <2>1. Len(a) + i \in DOMAIN c /\ ~(Len(a) + i <= Len(a)) /\ (Len(a) + i) - Len(a) = i
    BY <1>3
  <2>2. c[Len(a) + i] = b[i]
    BY <1>2, <1>3, <2>1
  <2> QED
    BY <2>1, <2>2 DEF Range
<1>7. Range(c) = Range(a) \cup Range(b)
  <2>1. Range(a) \subseteq Range(c) /\ Range(b) \subseteq Range(c)
    BY <1>5, <1>6 DEF Range
  <2>2. Range(c) \subseteq Range(a) \cup Range(b)
    BY <1>4 DEF Range
  <2> QED
    BY <2>1, <2>2
<1>8. c \in Seq(Range(c))
  BY <1>2, OfItsOwn
<1> QED
  BY <1>7, <1>8 DEF c

\* The first is taken.
LEMMA TakenFirst ==
  ASSUME NEW S, NEW s \in Seq(S), s # << >>
  PROVE  /\ Tail(s) \in Seq(Range(Tail(s))) /\ Range(Tail(s)) \subseteq Range(s) /\ Head(s) \in Range(s)
<1>1. /\ Tail(s) \in Seq(S) /\ DOMAIN Tail(s) = 1 .. Len(s) - 1 /\ Len(s) \in Nat /\ DOMAIN s = 1 .. Len(s)
      /\ \A i \in DOMAIN Tail(s) : Tail(s)[i] = s[i + 1] /\ i + 1 \in DOMAIN s
      /\ 1 \in DOMAIN s /\ Head(s) = s[1]
  OBVIOUS
<1>2. Range(Tail(s)) \subseteq Range(s) /\ Head(s) \in Range(s)
  BY <1>1 DEF Range
<1>3. Tail(s) \in Seq(Range(Tail(s)))
  BY <1>1, OfItsOwn
<1> QED
  BY <1>2, <1>3

\* Servers may come, and those that there are lose connections, but for one whose
\* request's cookie is being looked up.
LEMMA ServersKept ==
  ASSUME HttpInv, serv' \in [DOMAIN serv' -> Server], DOMAIN eyre' = DOMAIN eyre, peeks' = peeks,
         \A s \in DOMAIN serv :
           /\ s \in DOMAIN serv' /\ serv'[s].nex = serv[s].nex
           /\ \A c \in DOMAIN serv'[s].con : c \in DOMAIN serv[s].con /\ serv'[s].con[c] = serv[s].con[c],
         \A s \in DOMAIN serv' : s \notin DOMAIN serv => DOMAIN serv'[s].con = {},
         \A p \in peeks : p.gone = FALSE =>
           /\ p.con \in DOMAIN serv'[p.srv].con
           /\ <<p.srv, p.con>> \notin Range(closing') \cup Range(running')
  PROVE  ServInv' /\ FreshInv' /\ PeekInv' /\ PeeksOK'
<1>1. ServInv /\ FreshInv /\ PeekInv /\ PeeksOK
  BY DEF HttpInv
<1>2. ServInv'
  <2>1. ASSUME NEW s \in DOMAIN serv', NEW c \in DOMAIN serv'[s].con PROVE c < serv'[s].nex
    <3>1. s \in DOMAIN serv
      BY <2>1
    <3> QED
      BY <1>1, <2>1, <3>1 DEF ServInv
  <2> QED
    BY <2>1 DEF ServInv
<1>3. FreshInv'
  <2>1. ASSUME NEW k \in DOMAIN eyre
        PROVE  /\ k[1] \in DOMAIN serv' /\ k[2] \in Nat /\ k[3] \in Nat /\ k[2] < serv'[k[1]].nex
               /\ k[2] \in DOMAIN serv'[k[1]].con => k[3] < serv'[k[1]].con[k[2]]
    BY <1>1 DEF FreshInv
  <2> QED
    BY <2>1 DEF FreshInv
<1>4. PeekInv'
  BY <1>1 DEF PeekInv, Closed
<1>5. PeeksOK'
  BY <1>1 DEF PeeksOK
<1> QED
  BY <1>2, <1>3, <1>4, <1>5

\* Nothing happens to servers.
LEMMA PlacesKept ==
  ASSUME HttpInv, BooksInv', DOMAIN eyre' = DOMAIN eyre,
         UNCHANGED <<bound, htp, serv, peeks, closing, running>>
  PROVE  HttpInv'
BY DEF HttpInv, ListsOK, ServInv, FreshInv, PeekInv, PeeksOK, Closed

\* Nothing happens to requests.
LEMMA BooksKept ==
  ASSUME HttpInv, UNCHANGED <<hreq, eyre>>
  PROVE  BooksInv'
BY DEF HttpInv, BooksInv

\* What a server is.
LEMMA ServerFacts ==
  ASSUME ServInv, NEW s \in DOMAIN serv
  PROVE  /\ serv[s] \in Server /\ serv[s].nex \in Nat
         /\ serv[s].con = [c \in DOMAIN serv[s].con |-> serv[s].con[c]]
         /\ \A c \in DOMAIN serv[s].con : c \in Nat /\ serv[s].con[c] \in Nat /\ c < serv[s].nex
<1>1. serv[s] \in Server
  BY DEF ServInv
<1>2. serv[s].nex \in Nat /\ serv[s].con \in HConns
  BY <1>1 DEF Server
<1>3. PICK D \in SUBSET Nat : serv[s].con \in [D -> Nat]
  BY <1>2 DEF HConns
<1>4. DOMAIN serv[s].con = D
  BY <1>3
<1> QED
  BY <1>1, <1>2, <1>3, <1>4 DEF ServInv

\* What its connections may be.
LEMMA IsCons ==
  ASSUME NEW f, f = [c \in DOMAIN f |-> f[c]], \A c \in DOMAIN f : c \in Nat /\ f[c] \in Nat
  PROVE  f \in HConns
<1>1. DOMAIN f \in SUBSET Nat /\ f \in [DOMAIN f -> Nat]
  OBVIOUS
<1> QED
  BY <1>1 DEF HConns

\* A connection has a request.
LEMMA LinkStep ==
  ASSUME HttpInv, NEW s \in DOMAIN serv, NEW c \in DOMAIN serv[s].con, NEW r, RequestOK(r),
         NEW asked \in BOOLEAN, asked = TRUE => r.slog = FALSE /\ r.ans = FALSE /\ r.sat = "plan",
         Link(s, c, r, asked), peeks' \subseteq peeks, UNCHANGED <<bound, htp, closing, running>>
  PROVE  HttpInv'
<1> DEFINE con == serv[s].con
           n == con[c]
           k == <<s, c, n>>
           f == [con EXCEPT ![c] = @ + 1]
<1>1. BooksInv /\ ListsOK /\ ServInv /\ FreshInv /\ PeekInv /\ PeeksOK
  BY DEF HttpInv
<1>2. /\ hreq' = Added(hreq, k, r) /\ eyre' = Added(eyre, k, Heard(asked))
      /\ serv' = [serv EXCEPT ![s].con[c] = @ + 1]
  BY DEF Link, Duct
<1>3. /\ serv[s] \in Server /\ con = [d \in DOMAIN con |-> con[d]] /\ n \in Nat /\ c \in Nat
      /\ \A d \in DOMAIN con : d \in Nat /\ con[d] \in Nat /\ d < serv[s].nex
  BY <1>1, ServerFacts
<1>4. k \notin DOMAIN eyre
  <2>1. k[1] = s /\ k[2] = c /\ k[3] = n /\ ~(n < n)
    BY <1>3
  <2> QED
    BY <1>1, <2>1 DEF FreshInv
<1>5. BooksInv'
  BY <1>1, <1>2, <1>4, LinkBooks
<1>6. /\ serv' = [t \in DOMAIN serv |-> IF t = s THEN [serv[s] EXCEPT !.con = f] ELSE serv[t]]
  BY <1>1, <1>2 DEF ServInv
<1>7. f = [d \in DOMAIN con |-> IF d = c THEN n + 1 ELSE con[d]]
  BY <1>3
<1>8. /\ DOMAIN f = DOMAIN con /\ f[c] = n + 1 /\ \A d \in DOMAIN con : d # c => f[d] = con[d]
      /\ f = [d \in DOMAIN f |-> f[d]] /\ \A d \in DOMAIN f : d \in Nat /\ f[d] \in Nat
  BY <1>3, <1>7
<1>9. f \in HConns
  BY <1>8, IsCons
<1> HIDE DEF f
<1> DEFINE v == [serv[s] EXCEPT !.con = f]
<1>10. v \in Server /\ v.con = f /\ v.nex = serv[s].nex
  BY <1>3, <1>9 DEF Server
<1> HIDE DEF v
<1>11. /\ DOMAIN serv' = DOMAIN serv /\ serv'[s] = v /\ \A t \in DOMAIN serv : t # s => serv'[t] = serv[t]
       /\ serv' \in [DOMAIN serv' -> Server]
  BY <1>1, <1>6, <1>10 DEF ServInv, v
<1>12. ServInv'
  <2>1. ASSUME NEW t \in DOMAIN serv', NEW d \in DOMAIN serv'[t].con PROVE d < serv'[t].nex
    <3>1. CASE t = s
      BY <1>3, <1>8, <1>10, <1>11, <2>1, <3>1
    <3>2. CASE t # s
      BY <1>1, <1>11, <2>1, <3>2 DEF ServInv
    <3> QED
      BY <3>1, <3>2
  <2> QED
    BY <1>11, <2>1 DEF ServInv
<1>13. DOMAIN eyre' = DOMAIN eyre \cup {k}
  BY <1>2 DEF Added
<1>14. FreshInv'
  <2>1. ASSUME NEW j \in DOMAIN eyre'
        PROVE  /\ j[1] \in DOMAIN serv' /\ j[2] \in Nat /\ j[3] \in Nat /\ j[2] < serv'[j[1]].nex
               /\ j[2] \in DOMAIN serv'[j[1]].con => j[3] < serv'[j[1]].con[j[2]]
    <3>1. CASE j = k
      <4>1. j[1] = s /\ j[2] = c /\ j[3] = n /\ n < n + 1
        BY <1>3, <3>1
      <4> QED
        BY <1>3, <1>8, <1>10, <1>11, <4>1
    <3>2. CASE j \in DOMAIN eyre
      <4>1. /\ j[1] \in DOMAIN serv /\ j[2] \in Nat /\ j[3] \in Nat /\ j[2] < serv[j[1]].nex
            /\ j[2] \in DOMAIN serv[j[1]].con => j[3] < serv[j[1]].con[j[2]]
        BY <1>1, <3>2 DEF FreshInv
      <4>2. CASE j[1] # s
        BY <1>11, <4>1, <4>2
      <4>3. CASE j[1] = s /\ j[2] # c
        BY <1>8, <1>10, <1>11, <4>1, <4>3
      <4>4. CASE j[1] = s /\ j[2] = c
        <5>1. j[3] < n /\ n < n + 1 /\ j[3] \in Nat
          BY <1>3, <4>1, <4>4
        <5>2. j[3] < n + 1
          BY <1>3, <5>1
        <5> QED
          BY <1>8, <1>10, <1>11, <4>1, <4>4, <5>2
      <4> QED
        BY <4>2, <4>3, <4>4
    <3> QED
      BY <1>13, <3>1, <3>2
  <2> QED
    BY <2>1 DEF FreshInv
<1>15. \A t \in DOMAIN serv : DOMAIN serv'[t].con = DOMAIN serv[t].con
  BY <1>8, <1>10, <1>11
<1>16. PeekInv'
  BY <1>1, <1>11, <1>15 DEF PeekInv, Closed
<1>17. PeeksOK'
  BY <1>1, <1>11 DEF PeeksOK
<1>18. ListsOK'
  BY <1>1 DEF ListsOK
<1> QED
  BY <1>5, <1>12, <1>14, <1>16, <1>17, <1>18 DEF HttpInv

\* What new requests are.
LEMMA NewRequests ==
  ASSUME NEW slog \in BOOLEAN, NEW complete \in BOOLEAN
  PROVE  /\ RequestOK(ReqNew(FALSE, "plan"))
         /\ ReqNew(FALSE, "plan").slog = FALSE /\ ReqNew(FALSE, "plan").ans = FALSE
         /\ ReqNew(FALSE, "plan").sat = "plan"
         /\ RequestOK(StartRespond(ReqNew(slog, "plan"), << >>, complete))
<1> DEFINE r == ReqNew(FALSE, "plan")
           q == ReqNew(slog, "plan")
           t == StartRespond(q, << >>, complete)
<1>1. << >> \in Seq(Nat) /\ << >> \o << >> = << >>
  OBVIOUS
<1>2. /\ r \in HReq /\ r.slog = FALSE /\ r.ans = FALSE /\ r.sat = "plan" /\ r.sent = << >> /\ r.bod = << >>
      /\ r.said = << >> /\ r.red = FALSE
  BY DEF ReqNew, HReq
<1>3. q \in HReq /\ q.sent = << >> /\ q.slog = slog
  BY DEF ReqNew, HReq
<1> HIDE DEF r, q
<1>4. RequestOK(r)
  BY <1>1, <1>2 DEF RequestOK
<1>5. /\ t \in HReq /\ t.sent \o t.bod = t.said /\ t.red = FALSE
      /\ t.ans = TRUE /\ t.sat = "ripe" /\ t.dun = complete
  BY <1>1, <1>3, StartFacts
<1> HIDE DEF t
<1>6. RequestOK(t)
  BY <1>5 DEF RequestOK
<1> QED
  BY <1>2, <1>4, <1>6 DEF r, q, t

\* Requests, and cookies.
LEMMA AcceptsInv ==
  ASSUME HttpInv, RecAccept \/ SeqRefuse \/ SeqPeek \/ SeqContinue \/ PeekGone, UNCHANGED bound
  PROVE  HttpInv'
<1>1. CASE RecAccept
  BY <1>1, NewRequests, LinkStep DEF RecAccept
<1>2. CASE SeqRefuse
  BY <1>2, NewRequests, LinkStep DEF SeqRefuse
<1>3. CASE SeqPeek
  <2>1. PICK s \in DOMAIN serv : \E c \in DOMAIN serv[s].con :
          /\ Open(s, c) /\ peeks' = {[srv |-> s, con |-> c, gone |-> FALSE]}
          /\ UNCHANGED <<htp, serv, hreq, closing, running, eyre>>
    BY <1>3 DEF SeqPeek
  <2>5. PICK c \in DOMAIN serv[s].con :
          /\ Open(s, c) /\ peeks' = {[srv |-> s, con |-> c, gone |-> FALSE]}
          /\ UNCHANGED <<htp, serv, hreq, closing, running, eyre>>
    BY <2>1
  <2>2. ServInv /\ c \in Nat
    BY ServerFacts DEF HttpInv
  <2>3. PeekInv' /\ PeeksOK'
    BY <2>2, <2>5 DEF PeekInv, PeeksOK, Closed, Open
  <2>4. BooksInv'
    BY <2>5, BooksKept
  <2> QED
    BY <2>3, <2>5, <2>4 DEF HttpInv, ListsOK, ServInv, FreshInv
<1>4. CASE SeqContinue
  <2>1. PICK p \in peeks, aut \in BOOLEAN :
          /\ peeks' = peeks \ {p}
          /\ IF p.gone THEN UNCHANGED <<serv, hreq, eyre>>
             ELSE Link(p.srv, p.con, StartRespond(ReqNew(aut, "plan"), << >>, ~aut), FALSE)
          /\ UNCHANGED <<htp, closing, running>>
    BY <1>4 DEF SeqContinue
  <2>2. p.gone \in BOOLEAN
    BY DEF HttpInv, PeeksOK
  <2>3. CASE p.gone = TRUE
    <3>1. UNCHANGED <<serv, hreq, eyre, htp, closing, running, bound>> /\ peeks' \subseteq peeks
      BY <2>1, <2>3
    <3>2. BooksInv'
      BY <3>1, BooksKept
    <3> QED
      BY <3>1, <3>2 DEF HttpInv, ListsOK, ServInv, FreshInv, PeekInv, PeeksOK, Closed
  <2>4. CASE p.gone = FALSE
    <3>1. p.srv \in DOMAIN serv /\ p.con \in DOMAIN serv[p.srv].con
      BY <2>4 DEF HttpInv, PeekInv
    <3>2. Link(p.srv, p.con, StartRespond(ReqNew(aut, "plan"), << >>, ~aut), FALSE)
      BY <2>1, <2>4
    <3>3. RequestOK(StartRespond(ReqNew(aut, "plan"), << >>, ~aut))
      BY NewRequests
    <3> QED
      BY <2>1, <3>1, <3>2, <3>3, LinkStep
  <2> QED
    BY <2>2, <2>3, <2>4
<1>5. CASE PeekGone
  <2>1. PICK p \in peeks :
          /\ peeks' = {[p EXCEPT !.gone = TRUE]}
          /\ UNCHANGED <<htp, serv, hreq, closing, running, eyre>>
    BY <1>5 DEF PeekGone
  <2>2. p \in [srv : DOMAIN serv, con : Nat, gone : BOOLEAN]
    BY DEF HttpInv, PeeksOK
  <2>3. PeekInv' /\ PeeksOK'
    BY <2>1, <2>2 DEF PeekInv, PeeksOK
  <2>4. BooksInv'
    BY <2>1, BooksKept
  <2> QED
    BY <2>1, <2>3, <2>4 DEF HttpInv, ListsOK, ServInv, FreshInv
<1> QED
  BY <1>1, <1>2, <1>3, <1>4, <1>5

\* What is said of requests.
LEMMA AnswersInv ==
  ASSUME HttpInv, UNCHANGED bound,
         Proceed \/ ReqTimer \/ ReqDone \/ EfStart \/ EfContinue \/ HearsCancel \/ Slog \/ HttpExit
  PROVE  HttpInv'
<1>1. BooksInv
  BY DEF HttpInv
<1>2. CASE Proceed
  BY <1>1, <1>2, ProceedBooks, PlacesKept DEF Proceed
<1>3. CASE ReqTimer
  <2>1. DOMAIN eyre' = DOMAIN eyre
    BY <1>3 DEF ReqTimer, Kill
  <2> QED
    BY <1>1, <1>3, <2>1, ReqTimerBooks, PlacesKept DEF ReqTimer
<1>4. CASE ReqDone
  <2>1. DOMAIN eyre' = DOMAIN eyre
    BY <1>4 DEF ReqDone, Kill
  <2> QED
    BY <1>1, <1>4, <2>1, ReqDoneBooks, PlacesKept DEF ReqDone
<1>5. CASE EfStart
  <2>1. DOMAIN eyre' = DOMAIN eyre
    BY <1>5 DEF EfStart, Told, Spoke
  <2> QED
    BY <1>1, <1>5, <2>1, EfStartBooks, PlacesKept DEF EfStart
<1>6. CASE EfContinue
  <2>1. DOMAIN eyre' = DOMAIN eyre
    BY <1>6 DEF EfContinue, Told, Spoke
  <2> QED
    BY <1>1, <1>6, <2>1, EfContinueBooks, PlacesKept DEF EfContinue
<1>7. CASE HearsCancel
  <2>1. DOMAIN eyre' = DOMAIN eyre
    BY <1>7 DEF HearsCancel
  <2> QED
    BY <1>1, <1>7, <2>1, HearsCancelBooks, PlacesKept DEF HearsCancel
<1>8. CASE Slog
  BY <1>1, <1>8, SlogBooks, PlacesKept DEF Slog
<1>9. CASE HttpExit
  BY <1>1, <1>9, SlogBooks, PlacesKept DEF HttpExit
<1> QED
  BY <1>2, <1>3, <1>4, <1>5, <1>6, <1>7, <1>8, <1>9

\* Servers start: those that there are stay, with what they have.
LEMMA StartFactsAll ==
  ASSUME HttpInv, NEW sv \in [DOMAIN serv -> Server], StartAll(sv)
  PROVE  /\ htp' \in Seq(Nat) /\ serv' \in [DOMAIN serv' -> Server]
         /\ \A s \in DOMAIN serv : s \in DOMAIN serv' /\ serv'[s] = sv[s]
         /\ \A s \in DOMAIN serv' : s \notin DOMAIN serv => DOMAIN serv'[s].con = {}
<1> DEFINE old == IF htp = << >> THEN 0 ELSE Head(htp)
           n == bound.servers
           new == old + 1 .. old + n
           a == [i \in 1 .. n |-> old + n + 1 - i]
<1>1. PICK fails :
        /\ htp' = a \o htp
        /\ serv' = [s \in DOMAIN sv \cup new |->
                     IF s \in DOMAIN sv THEN sv[s]
                     ELSE IF s \in fails THEN ServFree([ServNew EXCEPT !.lst = "closed"]) ELSE ServNew]
  BY DEF StartAll
<1>2. htp \in Seq(Nat) /\ n \in Nat /\ old \in Nat
  <2>1. htp \in Seq(Nat) /\ bound \in Bounds
    BY DEF HttpInv, ListsOK
  <2>2. n \in Nat
    BY <2>1, HttpAssumption
  <2> QED
    BY <2>1, <2>2
<1> HIDE DEF n, old
<1>3. a \in Seq(Nat)
  BY <1>2
<1>4. htp' \in Seq(Nat)
  BY <1>1, <1>2, <1>3
<1> DEFINE e == ServNew
           f == ServFree([ServNew EXCEPT !.lst = "closed"])
<1>5. e \in Server /\ e.con = << >> /\ f \in Server /\ f.con = << >>
  <2>1. << >> \in HConns
    <3>1. << >> = [c \in {} |-> << >>[c]] /\ DOMAIN << >> = {}
      OBVIOUS
    <3> QED
      BY <3>1, IsCons
  <2> QED
    BY <2>1 DEF ServNew, ServFree, Server
<1>6. DOMAIN << >> = {}
  OBVIOUS
<1>7. serv' = [s \in DOMAIN sv \cup new |-> IF s \in DOMAIN sv THEN sv[s] ELSE IF s \in fails THEN f ELSE e]
  BY <1>1
<1> HIDE DEF e, f, new
<1>8. serv' \in [DOMAIN serv' -> Server]
  BY <1>5, <1>7
<1>9. DOMAIN sv = DOMAIN serv
  OBVIOUS
<1>10. \A s \in DOMAIN serv : s \in DOMAIN serv' /\ serv'[s] = sv[s]
  BY <1>7, <1>9
<1>11. \A s \in DOMAIN serv' : s \notin DOMAIN serv => DOMAIN serv'[s].con = {}
  BY <1>5, <1>6, <1>7, <1>9
<1> QED
  BY <1>4, <1>8, <1>10, <1>11

\* A configuration comes: servers start, or their listeners are closed.
LEMMA EfFormInv == HttpInv /\ EfForm /\ UNCHANGED bound => HttpInv'
<1> SUFFICES ASSUME HttpInv, EfForm, UNCHANGED bound PROVE HttpInv'
  OBVIOUS
<1> DEFINE live == {s \in Range(htp) : serv[s].liv}
<1>1. /\ UNCHANGED <<hreq, peeks, running, eyre>>
      /\ \/ StartAll(serv) /\ UNCHANGED closing
         \/ /\ UNCHANGED htp
            /\ closing' = [i \in 1 .. Cardinality(live) |-> <<Nth(live, i)>>] \o closing
            /\ serv' = [s \in DOMAIN serv |-> IF s \in live THEN [serv[s] EXCEPT !.shut = TRUE] ELSE serv[s]]
  BY DEF EfForm
<1>2. BooksInv' /\ ListsOK /\ ServInv /\ PeekInv
  BY <1>1, BooksKept DEF HttpInv
<1>3. CASE StartAll(serv) /\ UNCHANGED closing
  <2>1. serv \in [DOMAIN serv -> Server]
    BY <1>2 DEF ServInv
  <2>2. /\ htp' \in Seq(Nat) /\ serv' \in [DOMAIN serv' -> Server]
        /\ \A s \in DOMAIN serv : s \in DOMAIN serv' /\ serv'[s] = serv[s]
        /\ \A s \in DOMAIN serv' : s \notin DOMAIN serv => DOMAIN serv'[s].con = {}
    BY <1>3, <2>1, StartFactsAll
  <2>3. \A p \in peeks : p.gone = FALSE =>
          /\ p.con \in DOMAIN serv'[p.srv].con
          /\ <<p.srv, p.con>> \notin Range(closing') \cup Range(running')
    BY <1>1, <1>2, <1>3, <2>2 DEF PeekInv, Closed
  <2>4. ServInv' /\ FreshInv' /\ PeekInv' /\ PeeksOK'
    BY <1>1, <2>2, <2>3, ServersKept
  <2>5. ListsOK'
    BY <1>1, <1>2, <1>3, <2>2 DEF ListsOK
  <2> QED
    BY <1>2, <2>4, <2>5 DEF HttpInv
<1>4. CASE /\ UNCHANGED htp
           /\ closing' = [i \in 1 .. Cardinality(live) |-> <<Nth(live, i)>>] \o closing
           /\ serv' = [s \in DOMAIN serv |-> IF s \in live THEN [serv[s] EXCEPT !.shut = TRUE] ELSE serv[s]]
  <2> DEFINE n == Cardinality(live)
             H == {<<x>> : x \in {Nth(live, i) : i \in 1 .. n}}
             a == [i \in 1 .. n |-> <<Nth(live, i)>>]
  <2>1. n \in Nat
    <3>1. htp \in Seq(Nat)
      BY <1>2 DEF ListsOK
    <3>2. IsFiniteSet(1 .. Len(htp)) /\ DOMAIN htp = 1 .. Len(htp)
      BY <3>1, FS_Interval
    <3>3. htp \in Surjection(1 .. Len(htp), Range(htp))
      BY <3>1, <3>2 DEF Range, Surjection
    <3>4. IsFiniteSet(Range(htp))
      BY <3>2, <3>3, FS_Surjection
    <3>5. IsFiniteSet(live)
      BY <3>4, FS_Subset
    <3> QED
      BY <3>5, FS_CardinalityType
  <2>2. closing' = a \o closing
    BY <1>4
  <2> HIDE DEF live, n
  <2>3. a \in Seq(H) /\ \A h \in Range(a) : h \in H
    BY <2>1 DEF Range
  <2> HIDE DEF a
  <2>4. closing \in Seq(Range(closing))
    BY <1>2 DEF ListsOK
  <2>5. closing' \in Seq(Range(closing')) /\ Range(closing') = Range(a) \cup Range(closing)
    BY <2>2, <2>3, <2>4, JoinedLists
  <2>6. \A h \in H : \E x : h = <<x>>
    OBVIOUS
  <2>7. ASSUME NEW h \in H PROVE h = <<h[1]>> /\ \A x, y : h # <<x, y>>
    <3>1. PICK x : h = <<x>>
      BY <2>6
    <3> QED
      BY <3>1
  <2> HIDE DEF H
  <2>8. ListsOK'
    BY <1>1, <1>2, <1>4, <2>3, <2>5, <2>7 DEF ListsOK
  <2>9. serv' \in [DOMAIN serv' -> Server]
    BY <1>2, <1>4 DEF ServInv, Server
  <2>10. \A s \in DOMAIN serv : s \in DOMAIN serv' /\ serv'[s].nex = serv[s].nex /\ serv'[s].con = serv[s].con
    BY <1>2, <1>4 DEF ServInv, Server
  <2>11. \A p \in peeks : p.gone = FALSE =>
          /\ p.con \in DOMAIN serv'[p.srv].con
          /\ <<p.srv, p.con>> \notin Range(closing') \cup Range(running')
    BY <1>1, <1>2, <2>3, <2>5, <2>7, <2>10 DEF PeekInv, Closed
  <2>12. DOMAIN serv' = DOMAIN serv
    BY <1>4
  <2>13. ServInv' /\ FreshInv' /\ PeekInv' /\ PeeksOK'
    BY <1>1, <2>9, <2>10, <2>11, <2>12, ServersKept
  <2> QED
    BY <1>2, <2>8, <2>13 DEF HttpInv
<1> QED
  BY <1>1, <1>3, <1>4

\* A connection comes.
LEMMA AcceptInv == HttpInv /\ Accept /\ UNCHANGED bound => HttpInv'
<1> SUFFICES ASSUME HttpInv, Accept, UNCHANGED bound PROVE HttpInv'
  OBVIOUS
<1>1. PICK s \in DOMAIN serv :
        /\ serv' = [serv EXCEPT ![s].con = Added(@, serv[s].nex, 1), ![s].nex = @ + 1]
        /\ UNCHANGED <<htp, hreq, peeks, closing, running, eyre>>
  BY DEF Accept
<1>2. BooksInv' /\ ListsOK /\ ServInv /\ FreshInv /\ PeekInv /\ PeeksOK
  BY <1>1, BooksKept DEF HttpInv
<1> DEFINE con == serv[s].con
           n == serv[s].nex
           f == Added(con, n, 1)
<1>3. /\ serv[s] \in Server /\ con = [d \in DOMAIN con |-> con[d]] /\ n \in Nat
      /\ \A d \in DOMAIN con : d \in Nat /\ con[d] \in Nat /\ d < n
  BY <1>2, ServerFacts
<1> HIDE DEF n
<1>4. f = [d \in DOMAIN con \cup {n} |-> IF d = n THEN 1 ELSE con[d]]
  BY DEF Added
<1> HIDE DEF f
<1>5. /\ DOMAIN f = DOMAIN con \cup {n} /\ n \notin DOMAIN con
      /\ \A d \in DOMAIN con : f[d] = con[d]
      /\ f = [d \in DOMAIN f |-> f[d]] /\ \A d \in DOMAIN f : d \in Nat /\ f[d] \in Nat
  BY <1>3, <1>4
<1>6. f \in HConns
  BY <1>5, IsCons
<1> DEFINE v == [serv[s] EXCEPT !.con = f, !.nex = n + 1]
<1>7. v \in Server /\ v.con = f /\ v.nex = n + 1
  <2>1. serv[s] \in Server /\ n + 1 \in Nat
    BY <1>3
  <2> HIDE DEF con
  <2> QED
    BY ONLY <1>6, <2>1 DEF Server
<1>8. serv' = [t \in DOMAIN serv |-> IF t = s THEN v ELSE serv[t]]
  BY <1>1, <1>2 DEF ServInv, f, n
<1> HIDE DEF v
<1>9. /\ DOMAIN serv' = DOMAIN serv /\ serv'[s] = v /\ \A t \in DOMAIN serv : t # s => serv'[t] = serv[t]
      /\ serv' \in [DOMAIN serv' -> Server]
  BY <1>2, <1>7, <1>8 DEF ServInv
<1>10. ServInv'
  <2>1. ASSUME NEW t \in DOMAIN serv', NEW d \in DOMAIN serv'[t].con PROVE d < serv'[t].nex
    <3>1. CASE t = s
      <4>1. d \in DOMAIN con \/ d = n
        BY <1>5, <1>7, <1>9, <2>1, <3>1
      <4>2. d \in Nat /\ (d < n \/ d = n) /\ serv'[t].nex = n + 1
        BY <1>3, <1>7, <1>9, <3>1, <4>1
      <4> QED
        BY <1>3, <4>2
    <3>2. CASE t # s
      BY <1>2, <1>9, <2>1, <3>2 DEF ServInv
    <3> QED
      BY <3>1, <3>2
  <2> QED
    BY <1>9, <2>1 DEF ServInv
<1>11. FreshInv'
  <2>1. ASSUME NEW j \in DOMAIN eyre
        PROVE  /\ j[1] \in DOMAIN serv' /\ j[2] \in Nat /\ j[3] \in Nat /\ j[2] < serv'[j[1]].nex
               /\ j[2] \in DOMAIN serv'[j[1]].con => j[3] < serv'[j[1]].con[j[2]]
    <3>1. /\ j[1] \in DOMAIN serv /\ j[2] \in Nat /\ j[3] \in Nat /\ j[2] < serv[j[1]].nex
          /\ j[2] \in DOMAIN serv[j[1]].con => j[3] < serv[j[1]].con[j[2]]
      BY <1>2 DEF FreshInv
    <3>2. CASE j[1] = s
      <4>1. j[2] < n /\ j[2] # n /\ j[2] < n + 1
        BY <1>3, <3>1, <3>2 DEF n
      <4> QED
        BY <1>5, <1>7, <1>9, <3>1, <3>2, <4>1
    <3>3. CASE j[1] # s
      BY <1>9, <3>1, <3>3
    <3> QED
      BY <3>2, <3>3
  <2> QED
    BY <1>1, <2>1 DEF FreshInv
<1>12. \A t \in DOMAIN serv : DOMAIN serv[t].con \subseteq DOMAIN serv'[t].con
  BY <1>5, <1>7, <1>9
<1>13. PeekInv'
  BY <1>1, <1>2, <1>9, <1>12 DEF PeekInv, Closed
<1>14. PeeksOK' /\ ListsOK'
  BY <1>1, <1>2, <1>9 DEF PeeksOK, ListsOK
<1> QED
  BY <1>2, <1>10, <1>11, <1>13, <1>14 DEF HttpInv

\* A connection is closed,
LEMMA ConnCloseInv == HttpInv /\ ConnClose /\ UNCHANGED bound => HttpInv'
<1> SUFFICES ASSUME HttpInv, ConnClose, UNCHANGED bound PROVE HttpInv'
  OBVIOUS
<1>1. PICK s \in DOMAIN serv : \E c \in DOMAIN serv[s].con :
        /\ Turn /\ Open(s, c)
        /\ \A k \in DOMAIN hreq : <<k[1], k[2]>> # <<s, c>>
        /\ \A p \in peeks : <<p.srv, p.con>> = <<s, c>> => p.gone
        /\ closing' = <<<<s, c>>>> \o closing
        /\ UNCHANGED <<htp, serv, hreq, peeks, form, running, eyre, exited, fault, forms>>
  BY DEF ConnClose
<1>2. PICK c \in DOMAIN serv[s].con :
        /\ \A p \in peeks : <<p.srv, p.con>> = <<s, c>> => p.gone
        /\ closing' = <<<<s, c>>>> \o closing
        /\ UNCHANGED <<htp, serv, hreq, peeks, running, eyre>>
  BY <1>1
<1> DEFINE h == <<s, c>>
           a == <<h>>
<1>3. BooksInv' /\ ListsOK /\ ServInv /\ FreshInv /\ PeekInv /\ PeeksOK
  BY <1>2, BooksKept DEF HttpInv
<1>4. h = <<h[1], h[2]>>
  OBVIOUS
<1>5. closing' = a \o closing
  BY <1>2
<1>6. \A p \in peeks : <<p.srv, p.con>> = h => p.gone
  BY <1>2
<1> HIDE DEF h
<1>7. a \in Seq({h}) /\ Range(a) = {h}
  BY DEF Range
<1> HIDE DEF a
<1>8. closing' \in Seq(Range(closing')) /\ Range(closing') = {h} \cup Range(closing)
  BY <1>3, <1>5, <1>7, JoinedLists DEF ListsOK
<1>9. ListsOK'
  BY <1>2, <1>3, <1>4, <1>8 DEF ListsOK
<1>10. PeekInv'
  BY <1>2, <1>3, <1>6, <1>8 DEF PeekInv, Closed
<1> QED
  BY <1>2, <1>3, <1>9, <1>10 DEF HttpInv, ServInv, FreshInv, PeeksOK

\* when the turn ends.
LEMMA TurnEndsInv == HttpInv /\ TurnEnds /\ UNCHANGED bound => HttpInv'
<1> SUFFICES ASSUME HttpInv, TurnEnds, UNCHANGED bound PROVE HttpInv'
  OBVIOUS
<1>1. /\ running = << >> /\ running' = closing /\ closing' = << >>
      /\ UNCHANGED <<htp, serv, hreq, peeks, eyre>>
  BY DEF TurnEnds, Turn
<1>2. BooksInv' /\ ListsOK /\ ServInv /\ FreshInv /\ PeekInv /\ PeeksOK
  BY <1>1, BooksKept DEF HttpInv
<1>3. Range(closing') = {} /\ Range(running) = {} /\ Range(running') = Range(closing)
  BY <1>1 DEF Range
<1>4. closing' \in Seq(Range(closing')) /\ running' \in Seq(Range(running'))
  BY <1>1, <1>2, <1>3 DEF ListsOK
<1>5. ListsOK'
  BY <1>1, <1>2, <1>3, <1>4 DEF ListsOK
<1>6. PeekInv'
  BY <1>1, <1>2, <1>3 DEF PeekInv, Closed
<1> QED
  BY <1>1, <1>2, <1>5, <1>6 DEF HttpInv, ServInv, FreshInv, PeeksOK

\* A server changes, but for its connections, of which it may lose one.
LEMMA ServerChanged ==
  ASSUME ServInv, NEW s, NEW v \in Server, NEW sv, sv = [serv EXCEPT ![s] = v],
         s \in DOMAIN serv => /\ v.nex = serv[s].nex
                              /\ \A c \in DOMAIN v.con : c \in DOMAIN serv[s].con /\ v.con[c] = serv[s].con[c]
  PROVE  /\ sv \in [DOMAIN serv -> Server]
         /\ \A t \in DOMAIN serv :
              /\ sv[t].nex = serv[t].nex
              /\ \A c \in DOMAIN sv[t].con : c \in DOMAIN serv[t].con /\ sv[t].con[c] = serv[t].con[c]
              /\ t # s => sv[t] = serv[t]
              /\ t = s => sv[t] = v
<1>1. /\ sv = [t \in DOMAIN serv |-> IF t = s THEN v ELSE serv[t]]
      /\ serv \in [DOMAIN serv -> Server]
  BY DEF ServInv
<1> QED
  BY <1>1

\* What the callback of a closed handle leaves of the lists.
LEMMA CallbackLists ==
  ASSUME ListsOK, running # << >>, running' = Tail(running), UNCHANGED <<closing, bound>>, htp' \in Seq(Nat)
  PROVE  /\ ListsOK' /\ Range(running') \subseteq Range(running)
         /\ Head(running) \in Range(running)
<1>1. /\ running' \in Seq(Range(running')) /\ Range(running') \subseteq Range(running)
      /\ Head(running) \in Range(running)
  BY TakenFirst DEF ListsOK
<1> QED
  BY <1>1 DEF ListsOK

\* A listener is closed,
LEMMA ServClosedInv ==
  ASSUME HttpInv, UNCHANGED <<bound, hreq, peeks, closing, eyre>>,
         running # << >>, running' = Tail(running), NEW s, ServClosed(s)
  PROVE  HttpInv'
<1>1. BooksInv' /\ ListsOK /\ ServInv /\ FreshInv /\ PeekInv /\ PeeksOK
  BY BooksKept DEF HttpInv
<1> DEFINE u == [serv[s] EXCEPT !.liv = FALSE, !.lst = "closed"]
           last == u.con = << >>
           v == IF last THEN ServFree(u) ELSE u
           sv == [serv EXCEPT ![s] = v]
<1>2. StartAll(sv) \/ (serv' = sv /\ UNCHANGED htp)
  BY DEF ServClosed
<1>3. /\ sv \in [DOMAIN serv -> Server]
      /\ \A t \in DOMAIN serv :
           /\ sv[t].nex = serv[t].nex
           /\ \A c \in DOMAIN serv[t].con : c \in DOMAIN sv[t].con
           /\ \A c \in DOMAIN sv[t].con : c \in DOMAIN serv[t].con /\ sv[t].con[c] = serv[t].con[c]
  <2>1. CASE s \in DOMAIN serv
    <3>1. serv[s] \in Server
      BY <1>1, <2>1, ServerFacts
    <3>2. u \in Server /\ u.nex = serv[s].nex /\ u.con = serv[s].con
      BY <3>1 DEF Server
    <3> HIDE DEF u
    <3>3. v \in Server /\ v.nex = serv[s].nex /\ v.con = serv[s].con
      BY <3>2 DEF ServFree, Server
    <3> HIDE DEF v
    <3>4. /\ sv = [t \in DOMAIN serv |-> IF t = s THEN v ELSE serv[t]]
          /\ serv \in [DOMAIN serv -> Server]
      BY <1>1 DEF ServInv
    <3> QED
      BY <3>3, <3>4
  <2>2. CASE s \notin DOMAIN serv
    <3>1. sv = serv
      BY <1>1, <2>2 DEF ServInv
    <3> QED
      BY <1>1, <3>1 DEF ServInv
  <2> QED
    BY <2>1, <2>2
<1> HIDE DEF sv
<1>4. /\ htp' \in Seq(Nat) /\ serv' \in [DOMAIN serv' -> Server]
      /\ \A t \in DOMAIN serv : t \in DOMAIN serv' /\ serv'[t] = sv[t]
      /\ \A t \in DOMAIN serv' : t \notin DOMAIN serv => DOMAIN serv'[t].con = {}
  <2>1. CASE StartAll(sv)
    BY <1>3, <2>1, StartFactsAll
  <2>2. CASE serv' = sv /\ UNCHANGED htp
    BY <1>1, <1>3, <2>2 DEF ListsOK
  <2> QED
    BY <1>2, <2>1, <2>2
<1>5. ListsOK' /\ Range(running') \subseteq Range(running)
  BY <1>1, <1>4, CallbackLists
<1>6. \A t \in DOMAIN serv :
        /\ t \in DOMAIN serv' /\ serv'[t].nex = serv[t].nex
        /\ \A c \in DOMAIN serv'[t].con : c \in DOMAIN serv[t].con /\ serv'[t].con[c] = serv[t].con[c]
  BY <1>3, <1>4
<1>7. \A p \in peeks : p.gone = FALSE =>
        /\ p.con \in DOMAIN serv'[p.srv].con
        /\ <<p.srv, p.con>> \notin Range(closing') \cup Range(running')
  BY <1>1, <1>3, <1>4, <1>5 DEF PeekInv, Closed
<1>8. ServInv' /\ FreshInv' /\ PeekInv' /\ PeeksOK'
  BY <1>4, <1>6, <1>7, ServersKept
<1> QED
  BY <1>1, <1>5, <1>8 DEF HttpInv

\* or a connection, which is not that of a request whose cookie is being looked up.
LEMMA ConnFreedInv ==
  ASSUME HttpInv, UNCHANGED <<bound, hreq, peeks, closing, eyre>>,
         running # << >>, running' = Tail(running), NEW s, NEW c, Head(running) = <<s, c>>, ConnFreed(s, c)
  PROVE  HttpInv'
<1>1. BooksInv' /\ ListsOK /\ ServInv /\ FreshInv /\ PeekInv /\ PeeksOK
  BY BooksKept DEF HttpInv
<1> DEFINE con == serv[s].con
           f == Restrict(con, DOMAIN con \ {c})
           w == [serv[s] EXCEPT !.con = f]
           last == w.con = << >> /\ w.shut
           v == IF last THEN ServFree(w) ELSE w
<1>2. serv' = [serv EXCEPT ![s] = v] /\ UNCHANGED htp
  BY DEF ConnFreed
<1>3. /\ serv' \in [DOMAIN serv -> Server]
      /\ \A t \in DOMAIN serv :
           /\ serv'[t].nex = serv[t].nex
           /\ \A d \in DOMAIN serv[t].con : d \in DOMAIN serv'[t].con \/ (t = s /\ d = c)
           /\ \A d \in DOMAIN serv'[t].con : d \in DOMAIN serv[t].con /\ serv'[t].con[d] = serv[t].con[d]
  <2>1. CASE s \in DOMAIN serv
    <3>1. serv[s] \in Server /\ \A d \in DOMAIN con : d \in Nat /\ con[d] \in Nat
      BY <1>1, <2>1, ServerFacts
    <3>2. f = [d \in DOMAIN con \ {c} |-> con[d]]
      BY DEF Restrict
    <3> HIDE DEF f
    <3>3. /\ f = [d \in DOMAIN f |-> f[d]] /\ DOMAIN f = DOMAIN con \ {c}
          /\ \A d \in DOMAIN f : f[d] = con[d]
      BY <3>2
    <3>4. f \in HConns
      BY <3>1, <3>3, IsCons
    <3>5. w \in Server /\ w.nex = serv[s].nex /\ w.con = f
      BY <3>1, <3>4 DEF Server
    <3> HIDE DEF w
    <3>6. v \in Server /\ v.nex = serv[s].nex /\ v.con = f
      BY <3>5 DEF ServFree, Server
    <3> HIDE DEF v
    <3>7. /\ serv' = [t \in DOMAIN serv |-> IF t = s THEN v ELSE serv[t]]
          /\ serv \in [DOMAIN serv -> Server]
      BY <1>1, <1>2 DEF ServInv
    <3> QED
      BY <3>3, <3>6, <3>7
  <2>2. CASE s \notin DOMAIN serv
    <3>1. serv' = serv
      BY <1>1, <1>2, <2>2 DEF ServInv
    <3> QED
      BY <1>1, <3>1 DEF ServInv
  <2> QED
    BY <2>1, <2>2
<1> HIDE DEF v, w, f, con, last
<1>4. htp' \in Seq(Nat) /\ DOMAIN serv' = DOMAIN serv
  BY <1>1, <1>2, <1>3 DEF ListsOK
<1>5. ListsOK' /\ Range(running') \subseteq Range(running) /\ Head(running) \in Range(running)
  BY <1>1, <1>4, CallbackLists
<1>6. \A p \in peeks : p.gone = FALSE => <<p.srv, p.con>> # <<s, c>>
  BY <1>1, <1>5 DEF PeekInv, Closed
<1>7. \A p \in peeks : p.gone = FALSE =>
        /\ p.con \in DOMAIN serv'[p.srv].con
        /\ <<p.srv, p.con>> \notin Range(closing') \cup Range(running')
  BY <1>1, <1>3, <1>5, <1>6 DEF PeekInv, Closed
<1>8. ServInv' /\ FreshInv' /\ PeekInv' /\ PeeksOK'
  BY <1>3, <1>4, <1>7, ServersKept
<1> QED
  BY <1>1, <1>5, <1>8 DEF HttpInv

\* The callbacks of closed handles.
LEMMA CloseCallbackInv == HttpInv /\ CloseCallback /\ UNCHANGED bound => HttpInv'
<1> SUFFICES ASSUME HttpInv, CloseCallback, UNCHANGED bound PROVE HttpInv'
  OBVIOUS
<1> DEFINE h == Head(running)
<1>1. /\ running # << >> /\ running' = Tail(running)
      /\ IF Len(h) = 1 THEN ServClosed(h[1]) ELSE ConnFreed(h[1], h[2])
      /\ UNCHANGED <<bound, hreq, peeks, closing, eyre>>
  BY DEF CloseCallback
<1>2. h = <<h[1]>> \/ h = <<h[1], h[2]>>
  <2>1. h \in Range(running)
    BY <1>1, TakenFirst DEF HttpInv, ListsOK
  <2> QED
    BY <2>1 DEF HttpInv, ListsOK
<1>3. CASE Len(h) = 1
  BY <1>1, <1>3, ServClosedInv
<1>4. CASE Len(h) # 1
  <2>1. h = <<h[1], h[2]>>
    <3>1. \A x : Len(<<x>>) = 1
      OBVIOUS
    <3> HIDE DEF h
    <3> QED
      BY <1>2, <1>4, <3>1
  <2>2. ConnFreed(h[1], h[2])
    BY <1>1, <1>4
  <2> QED
    BY <1>1, <2>1, <2>2, ConnFreedInv
<1> QED
  BY <1>3, <1>4

\* A server that was let go is freed.
LEMMA ServFreeCbInv == HttpInv /\ ServFreeCb /\ UNCHANGED bound => HttpInv'
<1> SUFFICES ASSUME HttpInv, ServFreeCb, UNCHANGED bound PROVE HttpInv'
  OBVIOUS
<1>1. PICK s \in DOMAIN serv :
        /\ serv' = [serv EXCEPT ![s].st = "freed"]
        /\ htp' = IF Head(htp) = s THEN htp ELSE RemoveFirst(htp, s)
        /\ UNCHANGED <<hreq, peeks, form, closing, running, eyre, exited, fault, forms>>
  BY DEF ServFreeCb
<1>2. BooksInv' /\ ListsOK /\ ServInv /\ FreshInv /\ PeekInv /\ PeeksOK
  BY <1>1, BooksKept DEF HttpInv
<1>3. htp' \in Seq(Nat)
  <2>1. htp \in Seq(Nat)
    BY <1>2 DEF ListsOK
  <2>2. RemoveFirst(htp, s) \in Seq(Nat)
    <3>1. CASE s \in Range(htp)
      BY <2>1, <3>1, RemoveRange
    <3>2. CASE s \notin Range(htp)
      <4>1. ~ \E i \in 1 .. Len(htp) : htp[i] = s
        BY <2>1, <3>2 DEF Range
      <4>2. RemoveFirst(htp, s) = htp
        BY <4>1 DEF RemoveFirst
      <4> QED
        BY <2>1, <4>2
    <3> QED
      BY <3>1, <3>2
  <2> QED
    BY <1>1, <2>1, <2>2
<1> DEFINE v == [serv[s] EXCEPT !.st = "freed"]
<1>4. v \in Server /\ v.con = serv[s].con /\ v.nex = serv[s].nex
  <2>1. serv[s] \in Server
    BY <1>2, ServerFacts
  <2> QED
    BY <2>1 DEF Server
<1>5. serv' = [t \in DOMAIN serv |-> IF t = s THEN v ELSE serv[t]] /\ serv \in [DOMAIN serv -> Server]
  BY <1>1, <1>2 DEF ServInv
<1> HIDE DEF v
<1>6. /\ DOMAIN serv' = DOMAIN serv /\ serv' \in [DOMAIN serv' -> Server]
      /\ \A t \in DOMAIN serv : serv'[t].nex = serv[t].nex /\ serv'[t].con = serv[t].con
  BY <1>4, <1>5
<1>7. ListsOK'
  BY <1>1, <1>2, <1>3 DEF ListsOK
<1>8. \A p \in peeks : p.gone = FALSE =>
        /\ p.con \in DOMAIN serv'[p.srv].con
        /\ <<p.srv, p.con>> \notin Range(closing') \cup Range(running')
  BY <1>1, <1>2, <1>6 DEF PeekInv, Closed
<1>9. ServInv' /\ FreshInv' /\ PeekInv' /\ PeeksOK'
  BY <1>1, <1>6, <1>8, ServersKept
<1> QED
  BY <1>2, <1>7, <1>9 DEF HttpInv

\* There is no server yet.
LEMMA HttpInitInv == HttpInit => HttpInv
<1> SUFFICES ASSUME HttpInit PROVE HttpInv
  OBVIOUS
<1>1. /\ bound \in Bounds /\ htp = << >> /\ serv = << >> /\ hreq = << >> /\ peeks = {}
      /\ closing = << >> /\ running = << >> /\ eyre = << >>
  BY DEF HttpInit
<1>2. DOMAIN << >> = {} /\ \A S : << >> \in Seq(S)
  OBVIOUS
<1>3. DOMAIN serv = {} /\ DOMAIN hreq = {} /\ DOMAIN eyre = {} /\ Range(closing) = {} /\ Range(running) = {}
  BY <1>1, <1>2 DEF Range
<1>4. /\ hreq = [k \in DOMAIN hreq |-> hreq[k]] /\ eyre = [k \in DOMAIN eyre |-> eyre[k]]
      /\ serv \in [DOMAIN serv -> Server]
  BY <1>1, <1>3
<1>5. BooksInv /\ ServInv
  BY <1>3, <1>4 DEF BooksInv, ServInv
<1>6. ListsOK /\ FreshInv /\ PeekInv /\ PeeksOK
  BY <1>1, <1>2, <1>3 DEF ListsOK, FreshInv, PeekInv, PeeksOK
<1> QED
  BY <1>5, <1>6 DEF HttpInv

\* Each step keeps the invariant.
LEMMA HttpNextInv == HttpInv /\ [HttpNext]_httpVars => HttpInv'
<1> SUFFICES ASSUME HttpInv, [HttpNext]_httpVars PROVE HttpInv'
  OBVIOUS
<1>1. CASE UNCHANGED httpVars
  <2>1. UNCHANGED <<hreq, eyre, bound, htp, serv, peeks, closing, running>>
    BY <1>1 DEF httpVars
  <2> QED
    BY <2>1, BooksKept, PlacesKept
<1>2. CASE HttpNext
  <2>1. UNCHANGED bound
    BY <1>2 DEF HttpNext
  <2>2. CASE RecAccept \/ SeqRefuse \/ SeqPeek \/ SeqContinue \/ PeekGone
    BY <2>1, <2>2, AcceptsInv
  <2>3. CASE Proceed \/ ReqTimer \/ ReqDone \/ EfStart \/ EfContinue \/ HearsCancel \/ Slog \/ HttpExit
    BY <2>1, <2>3, AnswersInv
  <2>4. CASE EfForm
    BY <2>1, <2>4, EfFormInv
  <2>5. CASE Accept
    BY <2>1, <2>5, AcceptInv
  <2>6. CASE ConnClose
    BY <2>1, <2>6, ConnCloseInv
  <2>7. CASE TurnEnds
    BY <2>1, <2>7, TurnEndsInv
  <2>8. CASE CloseCallback
    BY <2>1, <2>8, CloseCallbackInv
  <2>9. CASE ServFreeCb
    BY <2>1, <2>9, ServFreeCbInv
  <2> QED
    BY <1>2, <2>2, <2>3, <2>4, <2>5, <2>6, <2>7, <2>8, <2>9 DEF HttpNext
<1> QED
  BY <1>1, <1>2

\* What the books say of requests.
LEMMA HttpInvImplies == HttpInv => EyreIsHeard
<1> SUFFICES ASSUME HttpInv PROVE EyreIsHeard
  OBVIOUS
<1>1. BooksInv
  BY DEF HttpInv
<1>2. ASSUME NEW k \in DOMAIN hreq
      PROVE  /\ hreq[k].sent \o hreq[k].bod = hreq[k].said
             /\ hreq[k].red => hreq[k].bod = << >> /\ ~hreq[k].dun
  <2>1. RequestOK(hreq[k]) /\ hreq[k].red \in BOOLEAN /\ hreq[k].dun \in BOOLEAN
    BY <1>1, InBooks DEF HReq
  <2> QED
    BY <2>1 DEF RequestOK
<1>3. ASSUME NEW k \in DOMAIN eyre, eyre[k].asked
      PROVE  /\ eyre[k].cancels <= 1 /\ ~(eyre[k].all /\ eyre[k].cancels = 1)
             /\ k \notin DOMAIN hreq => eyre[k].all \/ eyre[k].cancels = 1
  <2> DEFINE e == eyre[k]
  <2>1. e \in HEyre /\ e.asked = TRUE /\ e.all \in BOOLEAN /\ e.cancels \in Nat
    <3>1. e \in HEyre
      BY <1>1 DEF BooksInv, HeardOK
    <3> QED
      BY <1>3, <3>1 DEF HEyre
  <2>2. CASE k \in DOMAIN hreq
    <3> DEFINE r == hreq[k]
    <3>1. PairOK(r, e) /\ r.ans \in BOOLEAN
      BY <1>1, <2>2, InBooks DEF HReq
    <3> HIDE DEF r, e
    <3>2. (e.cancels = 0) \/ (e.cancels = 1 /\ e.all = FALSE)
      BY <2>1, <3>1 DEF PairOK
    <3> QED
      BY <2>1, <2>2, <3>2 DEF e
  <2>3. CASE k \notin DOMAIN hreq
    <3>1. EndOK(e)
      BY <1>1, <2>3 DEF BooksInv
    <3> HIDE DEF e
    <3>2. e.cancels = IF e.all = TRUE THEN 0 ELSE 1
      BY <2>1, <3>1 DEF EndOK
    <3> QED
      BY <2>1, <2>3, <3>2 DEF e
  <2> QED
    BY <2>2, <2>3
<1> QED
  BY <1>2, <1>3 DEF EyreIsHeard

\* The books of servers, connections and requests are right (vere/io/http.c).
THEOREM HttpInvariant == HttpSpec => []HttpInv
BY HttpInitInv, HttpNextInv, PTL DEF HttpSpec

\* What is sent is what %eyre said, in order; and %eyre hears of a request's end once,
\* unless it has said all (vere/io/http.c).
THEOREM HttpEyreIsHeard == HttpSpec => []EyreIsHeard
BY HttpInvariant, HttpInvImplies, PTL
-----------------------------------------------------------------------------
(* The HTTP client.                                                        *)

Eff  == [tag : {"request", "cancel"}, num : Nat]
Creq == [num : Nat, sat : {"init", "addr", "quit", "ripe"}, res : Seq(Nat)]
Cres == [num : Nat, sas : {200, 504}, bod : Seq(Nat)]

CttpTypeOK ==
  /\ iris \in Seq({"asked", "answered", "cancelled"})
  /\ came \in Seq(Nat) /\ Len(came) = Len(iris)
  /\ effs \in Seq(Eff) /\ ceq \in Seq(Creq) /\ plan \in Seq(Cres)

\* The numbers of the effects, and of the answers, that are on their way.
Sent(tag) == {effs[i].num : i \in {j \in DOMAIN effs : effs[j].tag = tag}}
Planned == {plan[i].num : i \in DOMAIN plan}

\* A list has a number once.
Distinct(s) == \A i, j \in DOMAIN s : s[i].num = s[j].num => i = j

\* A number is asked for once and cancelled once, in this order.
EffsInv == \A i, j \in DOMAIN effs : effs[i].num = effs[j].num =>
             /\ effs[i].tag = effs[j].tag => i = j
             /\ effs[i].tag = "request" /\ effs[j].tag = "cancel" => i < j

\* A request is in one place only, and in one as long as %iris waits for it.
PlaceInv ==
  /\ Distinct(ceq) /\ Distinct(plan)
  /\ Sent("request") \cap Held = {} /\ Sent("request") \cap Planned = {} /\ Held \cap Planned = {}
  /\ strange \cap (Sent("request") \cup Held \cup Planned) = {}
  /\ Sent("request") \cup Sent("cancel") \cup Held \cup Planned \cup strange \subseteq DOMAIN iris
  /\ \A n \in DOMAIN iris : iris[n] = "asked" =>
       n \in Sent("request") \cup Held \cup Planned \cup strange
  /\ \A n \in DOMAIN iris : iris[n] = "answered" => n \notin Sent("request") \cup Held \cup Planned

\* A request that is held waits for its lookup or for h2o, and nothing else does.
CallInv ==
  /\ \A r \in Range(ceq) : /\ r.sat \in {"addr", "quit"} <=> r.num \in adr
                           /\ r.sat = "ripe" <=> r.num \in DOMAIN cli
                           /\ r.sat # "init"
  /\ adr \subseteq Held /\ DOMAIN cli \subseteq Held

\* A request waits to be freed if its cancellation was seen, and only then.
CancelInv ==
  /\ \A n \in Sent("cancel") : iris[n] = "cancelled"
  /\ \A n \in Sent("request") : iris[n] = "cancelled" => n \in Sent("cancel")
  /\ \A r \in Range(ceq) : r.sat = "quit" <=> iris[r.num] = "cancelled" /\ r.num \notin Sent("cancel")

\* A request has what came of its body, and so has its answer.
Upto(k) == [i \in 1 .. k |-> i]

BodyInv ==
  /\ \A r \in Range(ceq) : r.res = Upto(came[r.num])
  /\ \A n \in Sent("request") : came[n] = 0
  /\ \A a \in Range(plan) : a.bod = IF a.sas = 504 THEN << >> ELSE Upto(came[a.num])

CttpInv == CttpTypeOK /\ EffsInv /\ PlaceInv /\ CallInv /\ CancelInv /\ BodyInv

\* A list of numbers met once, without one of them.
LEMMA UnlinkedFacts ==
  ASSUME NEW s \in Seq(Creq), Distinct(s), NEW n
  PROVE  /\ Unlinked(s, n) \in Seq(Creq) /\ Distinct(Unlinked(s, n))
         /\ Range(Unlinked(s, n)) = {r \in Range(s) : r.num # n}
<1> DEFINE I == {i \in 1 .. Len(s) : s[i].num = n}
<1>1. CASE I = {}
  <2>1. Unlinked(s, n) = s
    BY <1>1 DEF Unlinked, RemoveFirstMatch
  <2> QED
    BY <1>1, <2>1 DEF Range
<1>2. CASE I # {}
  <2> DEFINE k == Min(I)
             t == RemoveAt(s, k)
  <2>1. Unlinked(s, n) = t
    BY <1>2 DEF Unlinked, RemoveFirstMatch, SelectInSeq
  <2>2. k \in 1 .. Len(s) /\ s[k].num = n
    <3>1. I \in SUBSET Nat
      OBVIOUS
    <3>2. k \in I
      BY <1>2, <3>1, LeastOf
    <3> QED
      BY <3>2
  <2> HIDE DEF k
  <2>3. /\ t \in Seq(Creq) /\ DOMAIN t = 1 .. Len(s) - 1
        /\ \A i \in 1 .. Len(s) - 1 : t[i] = s[IF i < k THEN i ELSE i + 1]
    BY <2>2, RemoveAtFacts
  <2> HIDE DEF t
  <2>4. Len(s) \in Nat /\ DOMAIN s = 1 .. Len(s)
    OBVIOUS
  <2>5. ASSUME NEW i \in DOMAIN t
        PROVE  t[i] \in {r \in Range(s) : r.num # n}
    <3> DEFINE l == IF i < k THEN i ELSE i + 1
    <3>1. l \in DOMAIN s /\ l # k /\ t[i] = s[l]
      BY <2>2, <2>3, <2>4
    <3> HIDE DEF l
    <3>2. s[l].num # n
      BY <2>2, <2>4, <3>1 DEF Distinct
    <3> QED
      BY <3>1, <3>2 DEF Range
  <2>6. ASSUME NEW j \in DOMAIN s, s[j].num # n PROVE s[j] \in Range(t)
    <3>1. j # k
      BY <2>2, <2>6
    <3>2. CASE j < k
      <4>1. j \in DOMAIN t /\ t[j] = s[j]
        BY <2>2, <2>3, <2>4, <3>2
      <4> QED
        BY <4>1 DEF Range
    <3>3. CASE ~(j < k)
      <4>1. PICK i \in 1 .. Len(s) - 1 : j = i + 1 /\ ~(i < k)
        <5>1. j - 1 \in 1 .. Len(s) - 1 /\ j = (j - 1) + 1 /\ ~(j - 1 < k)
          BY <2>2, <2>4, <3>1, <3>3
        <5> QED
          BY <5>1
      <4>2. i \in DOMAIN t /\ t[i] = s[j]
        BY <2>3, <4>1
      <4> QED
        BY <4>2 DEF Range
    <3> QED
      BY <3>2, <3>3
  <2>7. ASSUME NEW i \in DOMAIN t, NEW j \in DOMAIN t, t[i].num = t[j].num PROVE i = j
    <3> DEFINE l == IF i < k THEN i ELSE i + 1
               m == IF j < k THEN j ELSE j + 1
    <3>1. l \in DOMAIN s /\ m \in DOMAIN s /\ t[i] = s[l] /\ t[j] = s[m]
      BY <2>2, <2>3, <2>4
    <3>2. (l = m) => i = j
      BY <2>2, <2>3, <2>4
    <3> HIDE DEF l, m
    <3> QED
      BY <2>7, <3>1, <3>2 DEF Distinct
  <2>8. Range(t) = {r \in Range(s) : r.num # n}
    <3>1. Range(t) \subseteq {r \in Range(s) : r.num # n}
      BY <2>5 DEF Range
    <3>2. {r \in Range(s) : r.num # n} \subseteq Range(t)
      BY <2>6 DEF Range
    <3> QED
      BY <3>1, <3>2
  <2> QED
    BY <2>1, <2>3, <2>7, <2>8 DEF Distinct
<1> QED
  BY <1>1, <1>2

\* A request's number finds it.
LEMMA FindFacts ==
  ASSUME Distinct(ceq), NEW r \in Range(ceq)
  PROVE  Find(r.num) = r
<1>1. PICK i \in DOMAIN ceq : ceq[i] = r
  BY DEF Range
<1>2. \A j \in DOMAIN ceq : ceq[j].num = r.num => j = i
  BY <1>1 DEF Distinct
<1> QED
  BY <1>1, <1>2 DEF Find

\* One of them changes, but for its number.
LEMMA ChangedFacts ==
  ASSUME NEW s \in Seq(Creq), Distinct(s), NEW n, NEW r \in Range(s), r.num = n,
         NEW v \in Creq, v.num = n, NEW t \in Seq(Creq), DOMAIN t = DOMAIN s,
         \A i \in DOMAIN s : t[i] = IF s[i].num = n THEN v ELSE s[i]
  PROVE  /\ Distinct(t)
         /\ Range(t) = {q \in Range(s) : q.num # n} \cup {v}
<1>1. DOMAIN s = 1 .. Len(s) /\ Len(s) \in Nat /\ \A i \in DOMAIN s : s[i] \in Creq
  OBVIOUS
<1>2. DOMAIN t = DOMAIN s
  OBVIOUS
<1>3. \A i \in DOMAIN s : t[i].num = s[i].num
  BY <1>1
<1>4. Distinct(t)
  BY <1>2, <1>3 DEF Distinct
<1>5. PICK k \in DOMAIN s : s[k] = r
  BY DEF Range
<1>6. v \in Range(t)
  BY <1>2, <1>5 DEF Range
<1>7. ASSUME NEW q \in Range(s), q.num # n PROVE q \in Range(t)
  <2>1. PICK i \in DOMAIN s : s[i] = q
    BY DEF Range
  <2>2. i \in DOMAIN t /\ t[i] = q
    BY <1>2, <1>7, <2>1
  <2> QED
    BY <2>2 DEF Range
<1>8. ASSUME NEW i \in DOMAIN t PROVE t[i] \in {q \in Range(s) : q.num # n} \cup {v}
  BY <1>2 DEF Range
<1>9. Range(t) \subseteq {q \in Range(s) : q.num # n} \cup {v}
  BY <1>8 DEF Range
<1> QED
  BY <1>2, <1>4, <1>6, <1>7, <1>9

\* A state that is set.
LEMMA SetFacts ==
  ASSUME NEW s \in Seq(Creq), Distinct(s), NEW r \in Range(s), NEW sat \in {"init", "addr", "quit", "ripe"}
  PROVE  /\ Set(s, r.num, sat) \in Seq(Creq) /\ Distinct(Set(s, r.num, sat))
         /\ Range(Set(s, r.num, sat)) =
              {q \in Range(s) : q.num # r.num} \cup {[r EXCEPT !.sat = sat]}
<1>1. r \in Creq
  BY DEF Range
<1> DEFINE v == [r EXCEPT !.sat = sat]
           n == r.num
<1>2. v \in Creq /\ v.num = n
  BY <1>1 DEF Creq
<1>3. \A i \in DOMAIN s : s[i].num = n => s[i] = r
  BY DEF Distinct, Range
<1>4. Set(s, n, sat) = [i \in DOMAIN s |-> IF s[i].num = n THEN v ELSE s[i]]
  BY <1>3 DEF Set
<1> HIDE DEF v, n
<1>5. r.num = n
  BY DEF n
<1> DEFINE t == [i \in DOMAIN s |-> IF s[i].num = n THEN v ELSE s[i]]
<1>6. t \in Seq(Creq) /\ DOMAIN t = DOMAIN s /\ \A i \in DOMAIN s : t[i] = IF s[i].num = n THEN v ELSE s[i]
  BY <1>2
<1> HIDE DEF t
<1>7. Distinct(t) /\ Range(t) = {q \in Range(s) : q.num # n} \cup {v}
  BY <1>2, <1>5, <1>6, ChangedFacts
<1> QED
  BY <1>4, <1>6, <1>7 DEF t, v, n

\* A new one comes first.
LEMMA LinkedFacts ==
  ASSUME NEW n \in Nat, n \notin Held, ceq \in Seq(Creq), Distinct(ceq)
  PROVE  /\ Linked(n) \in Seq(Creq) /\ Distinct(Linked(n))
         /\ Range(Linked(n)) = Range(ceq) \cup {[num |-> n, sat |-> "init", res |-> << >>]}
<1> DEFINE v == [num |-> n, sat |-> "init", res |-> << >>]
           t == <<v>> \o ceq
<1>1. v \in Creq /\ v.num = n
  BY DEF Creq
<1> HIDE DEF v
<1>2. /\ t \in Seq(Creq) /\ DOMAIN t = 1 .. Len(ceq) + 1 /\ t[1] = v /\ Len(ceq) \in Nat
      /\ \A i \in 1 .. Len(ceq) : t[i + 1] = ceq[i]
      /\ DOMAIN ceq = 1 .. Len(ceq)
  BY <1>1
<1> HIDE DEF t
<1>3. ASSUME NEW i \in DOMAIN t
      PROVE  i = 1 \/ \E k \in DOMAIN ceq : i = k + 1 /\ t[i] = ceq[k]
  <2>1. CASE i # 1
    <3>1. PICK k \in 1 .. Len(ceq) : i = k + 1
      BY <1>2, <2>1, AfterFirst
    <3>2. k \in DOMAIN ceq /\ t[i] = ceq[k]
      BY <1>2, <3>1
    <3> QED
      BY <3>1, <3>2
  <2> QED
    BY <2>1
<1>4. \A k \in DOMAIN ceq : ceq[k].num # n
  BY DEF Held
<1>5. ASSUME NEW i \in DOMAIN t, NEW j \in DOMAIN t, t[i].num = t[j].num PROVE i = j
  <2>1. CASE i = 1 /\ j = 1
    BY <2>1
  <2>2. CASE i = 1 /\ j # 1
    <3>1. PICK k \in DOMAIN ceq : t[j] = ceq[k]
      BY <1>3, <2>2
    <3> QED
      BY <1>1, <1>2, <1>4, <1>5, <2>2, <3>1
  <2>3. CASE i # 1 /\ j = 1
    <3>1. PICK k \in DOMAIN ceq : t[i] = ceq[k]
      BY <1>3, <2>3
    <3> QED
      BY <1>1, <1>2, <1>4, <1>5, <2>3, <3>1
  <2>4. CASE i # 1 /\ j # 1
    <3>1. PICK k \in DOMAIN ceq : i = k + 1 /\ t[i] = ceq[k]
      BY <1>3, <2>4
    <3>2. PICK l \in DOMAIN ceq : j = l + 1 /\ t[j] = ceq[l]
      BY <1>3, <2>4
    <3>3. k = l
      BY <1>5, <3>1, <3>2 DEF Distinct
    <3> QED
      BY <3>1, <3>2, <3>3
  <2> QED
    BY <2>1, <2>2, <2>3, <2>4
<1>6. v \in Range(t)
  <2>1. 1 \in DOMAIN t
    BY <1>2
  <2> QED
    BY <1>2, <2>1 DEF Range
<1>7. ASSUME NEW k \in DOMAIN ceq PROVE ceq[k] \in Range(t)
  <2>1. k + 1 \in DOMAIN t /\ t[k + 1] = ceq[k]
    BY <1>2
  <2> QED
    BY <2>1 DEF Range
<1>8. Range(t) = Range(ceq) \cup {v}
  <2>1. Range(ceq) \subseteq Range(t)
    BY <1>7 DEF Range
  <2>2. ASSUME NEW i \in DOMAIN t PROVE t[i] \in Range(ceq) \cup {v}
    BY <1>2, <1>3 DEF Range
  <2>3. Range(t) \subseteq Range(ceq) \cup {v}
    BY <2>2 DEF Range
  <2> QED
    BY <1>6, <2>1, <2>3
<1>9. Linked(n) = t
  BY DEF Linked, t, v
<1> QED
  BY <1>2, <1>5, <1>8, <1>9 DEF Distinct, v

\* The oldest effect is taken.
LEMMA EffsTail ==
  ASSUME effs \in Seq(Eff), EffsInv, effs # << >>, effs' = Tail(effs)
  PROVE  /\ effs' \in Seq(Eff) /\ EffsInv' /\ Head(effs) \in Eff
         /\ Head(effs).num \in Sent(Head(effs).tag)
         /\ Head(effs).num \notin Sent("request")'
         /\ Head(effs).tag = "cancel" => Head(effs).num \notin Sent("cancel")'
         /\ \A tag \in {"request", "cancel"} :
              /\ Sent(tag)' \subseteq Sent(tag)
              /\ \A n \in Sent(tag) : n \in Sent(tag)' \/ (n = Head(effs).num /\ tag = Head(effs).tag)
<1>1. /\ effs' \in Seq(Eff) /\ Len(effs) \in Nat /\ DOMAIN effs = 1 .. Len(effs)
      /\ DOMAIN effs' = 1 .. Len(effs) - 1 /\ 1 \in DOMAIN effs /\ Head(effs) = effs[1]
      /\ \A i \in DOMAIN effs : effs[i] \in Eff
      /\ \A i \in DOMAIN effs' : effs'[i] = effs[i + 1] /\ i + 1 \in DOMAIN effs /\ i + 1 # 1
  OBVIOUS
<1> DEFINE h == Head(effs)
<1>2. h.num \in Sent(h.tag)
  BY <1>1 DEF Sent
<1>3. EffsInv'
  <2>1. ASSUME NEW i \in DOMAIN effs', NEW j \in DOMAIN effs', effs'[i].num = effs'[j].num
        PROVE  /\ effs'[i].tag = effs'[j].tag => i = j
               /\ effs'[i].tag = "request" /\ effs'[j].tag = "cancel" => i < j
    <3>1. /\ effs'[i].tag = effs'[j].tag => i + 1 = j + 1
          /\ effs'[i].tag = "request" /\ effs'[j].tag = "cancel" => i + 1 < j + 1
      BY <1>1, <2>1 DEF EffsInv
    <3>2. i \in Nat /\ j \in Nat
      BY <1>1
    <3>3. effs'[i].tag = effs'[j].tag => i = j
      BY <3>1, <3>2
    <3>4. effs'[i].tag = "request" /\ effs'[j].tag = "cancel" => i < j
      BY <3>1, <3>2
    <3> QED
      BY <3>3, <3>4
  <2> QED
    BY <2>1 DEF EffsInv
<1>4. ASSUME NEW i \in DOMAIN effs', effs'[i].num = h.num
      PROVE  effs'[i].tag # "request" /\ (h.tag = "cancel" => effs'[i].tag # "cancel")
  <2>1. i + 1 \in DOMAIN effs /\ effs[i + 1].num = effs[1].num /\ i + 1 # 1 /\ i \in Nat
    BY <1>1, <1>4
  <2>2. effs[i + 1].tag # effs[1].tag
    BY <1>1, <2>1 DEF EffsInv
  <2>3. ~(i + 1 < 1)
    BY <2>1
  <2>4. ~(effs[i + 1].tag = "request" /\ effs[1].tag = "cancel")
    BY <1>1, <2>1, <2>3 DEF EffsInv
  <2>5. effs[1].tag \in {"request", "cancel"}
    BY <1>1 DEF Eff
  <2> QED
    BY <1>1, <2>2, <2>4, <2>5
<1>5. ASSUME NEW tag PROVE Sent(tag)' \subseteq Sent(tag)
  BY <1>1 DEF Sent
<1>6. ASSUME NEW tag, NEW n \in Sent(tag)
      PROVE  n \in Sent(tag)' \/ (n = h.num /\ tag = h.tag)
  <2>1. PICK j \in DOMAIN effs : effs[j].tag = tag /\ effs[j].num = n
    BY DEF Sent
  <2>2. CASE j = 1
    BY <1>1, <2>1, <2>2
  <2>3. CASE j # 1
    <3>1. PICK i \in DOMAIN effs' : j = i + 1
      <4>1. j - 1 \in DOMAIN effs' /\ j = (j - 1) + 1
        BY <1>1, <2>3
      <4> QED
        BY <4>1
    <3>2. effs'[i].tag = tag /\ effs'[i].num = n
      BY <1>1, <2>1, <3>1
    <3> QED
      BY <3>2 DEF Sent
  <2> QED
    BY <2>2, <2>3
<1>7. h.num \notin Sent("request")' /\ (h.tag = "cancel" => h.num \notin Sent("cancel")')
  BY <1>4 DEF Sent
<1> QED
  BY <1>1, <1>2, <1>3, <1>5, <1>6, <1>7

\* One is added, of a number that it may be sent for.
LEMMA EffsAppend ==
  ASSUME effs \in Seq(Eff), EffsInv, NEW n \in Nat, NEW tag \in {"request", "cancel"},
         n \notin Sent(tag), tag = "request" => n \notin Sent("cancel"),
         effs' = Append(effs, [tag |-> tag, num |-> n])
  PROVE  /\ effs' \in Seq(Eff) /\ EffsInv'
         /\ Sent(tag)' = Sent(tag) \cup {n}
         /\ \A other \in {"request", "cancel"} : other # tag => Sent(other)' = Sent(other)
<1> DEFINE e == [tag |-> tag, num |-> n]
           m == Len(effs) + 1
<1>1. e \in Eff /\ e.tag = tag /\ e.num = n
  BY DEF Eff
<1> HIDE DEF e
<1>2. /\ effs' \in Seq(Eff) /\ DOMAIN effs = 1 .. Len(effs) /\ Len(effs) \in Nat
      /\ DOMAIN effs' = DOMAIN effs \cup {m} /\ m \notin DOMAIN effs /\ effs'[m] = e
      /\ \A i \in DOMAIN effs : effs'[i] = effs[i] /\ i < m
  BY <1>1 DEF e
<1> HIDE DEF m
<1>3. EffsInv'
  <2>1. ASSUME NEW i \in DOMAIN effs', NEW j \in DOMAIN effs', effs'[i].num = effs'[j].num
        PROVE  /\ effs'[i].tag = effs'[j].tag => i = j
               /\ effs'[i].tag = "request" /\ effs'[j].tag = "cancel" => i < j
    <3>1. CASE i = m /\ j = m
      BY <1>1, <1>2, <3>1
    <3>2. CASE i \in DOMAIN effs /\ j \in DOMAIN effs
      BY <1>2, <2>1, <3>2 DEF EffsInv
    <3>3. CASE i \in DOMAIN effs /\ j = m
      BY <1>1, <1>2, <2>1, <3>3 DEF Sent
    <3>4. CASE i = m /\ j \in DOMAIN effs
      BY <1>1, <1>2, <2>1, <3>4 DEF Sent
    <3> QED
      BY <1>2, <3>1, <3>2, <3>3, <3>4
  <2> QED
    BY <2>1 DEF EffsInv
<1>4. ASSUME NEW other, NEW x
      PROVE  x \in Sent(other)' <=> x \in Sent(other) \/ (other = tag /\ x = n)
  BY <1>1, <1>2 DEF Sent
<1>5. Sent(tag)' = Sent(tag) \cup {n}
  BY <1>4
<1>6. ASSUME NEW other, other # tag PROVE Sent(other)' = Sent(other)
  <2>1. \A x : x \in Sent(other)' <=> x \in Sent(other)
    BY <1>4, <1>6
  <2> QED
    BY ONLY <2>1 DEF Sent
<1> QED
  BY <1>2, <1>3, <1>5, <1>6

\* An answer joins the queue,
LEMMA PlanAppend ==
  ASSUME plan \in Seq(Cres), Distinct(plan), NEW a \in Cres, a.num \notin Planned,
         plan' = Append(plan, a)
  PROVE  /\ plan' \in Seq(Cres) /\ Distinct(plan)'
         /\ Planned' = Planned \cup {a.num} /\ Range(plan') = Range(plan) \cup {a}
<1> DEFINE m == Len(plan) + 1
<1>1. /\ plan' \in Seq(Cres) /\ DOMAIN plan' = DOMAIN plan \cup {m} /\ m \notin DOMAIN plan
      /\ plan'[m] = a /\ \A i \in DOMAIN plan : plan'[i] = plan[i]
  OBVIOUS
<1> HIDE DEF m
<1>2. \A i \in DOMAIN plan : plan[i].num # a.num
  BY DEF Planned
<1>3. Distinct(plan)'
  <2>1. ASSUME NEW i \in DOMAIN plan', NEW j \in DOMAIN plan', plan'[i].num = plan'[j].num PROVE i = j
    <3>1. CASE i \in DOMAIN plan /\ j \in DOMAIN plan
      BY <1>1, <2>1, <3>1 DEF Distinct
    <3>2. CASE i = m \/ j = m
      BY <1>1, <1>2, <2>1, <3>2
    <3> QED
      BY <1>1, <3>1, <3>2
  <2> QED
    BY <2>1 DEF Distinct
<1>4. Planned' = Planned \cup {a.num}
  <2>1. \A x : x \in Planned' <=> x \in Planned \cup {a.num}
    BY <1>1 DEF Planned
  <2> QED
    BY ONLY <2>1 DEF Planned
<1>5. Range(plan') = Range(plan) \cup {a}
  BY <1>1 DEF Range
<1> QED
  BY <1>1, <1>3, <1>4, <1>5

\* and leaves it.
LEMMA PlanTail ==
  ASSUME plan \in Seq(Cres), Distinct(plan), plan # << >>, plan' = Tail(plan)
  PROVE  /\ plan' \in Seq(Cres) /\ Distinct(plan)' /\ Range(plan') \subseteq Range(plan)
         /\ Head(plan).num \in Planned /\ Planned' = Planned \ {Head(plan).num}
<1> DEFINE h == Head(plan)
<1>1. /\ plan' \in Seq(Cres) /\ Len(plan) \in Nat /\ DOMAIN plan = 1 .. Len(plan)
      /\ DOMAIN plan' = 1 .. Len(plan) - 1 /\ 1 \in DOMAIN plan /\ h = plan[1]
      /\ \A i \in DOMAIN plan' : plan'[i] = plan[i + 1] /\ i + 1 \in DOMAIN plan /\ i + 1 # 1
  OBVIOUS
<1> HIDE DEF h
<1>2. Distinct(plan)'
  <2>1. ASSUME NEW i \in DOMAIN plan', NEW j \in DOMAIN plan', plan'[i].num = plan'[j].num PROVE i = j
    <3>1. i + 1 = j + 1
      BY <1>1, <2>1 DEF Distinct
    <3> QED
      BY <1>1, <3>1
  <2> QED
    BY <2>1 DEF Distinct
<1>3. ASSUME NEW j \in DOMAIN plan, j # 1 PROVE \E i \in DOMAIN plan' : plan'[i] = plan[j]
  <2>1. PICK i \in DOMAIN plan' : j = i + 1
    <3>1. j - 1 \in DOMAIN plan' /\ j = (j - 1) + 1
      BY <1>1, <1>3
    <3> QED
      BY <3>1
  <2> QED
    BY <1>1, <2>1
<1>4. h.num \in Planned
  BY <1>1 DEF Planned
<1>5. \A i \in DOMAIN plan' : plan'[i].num # h.num /\ plan'[i].num \in Planned
  BY <1>1 DEF Distinct, Planned
<1>6. Planned' = Planned \ {h.num}
  <2>1. \A x \in Planned' : x \in Planned \ {h.num}
    BY <1>5 DEF Planned
  <2>2. \A x \in Planned \ {h.num} : x \in Planned'
    BY <1>1, <1>3 DEF Planned
  <2> QED
    BY <2>1, <2>2
<1>7. Range(plan') \subseteq Range(plan)
  BY <1>1 DEF Range
<1> QED
  BY <1>1, <1>2, <1>4, <1>6, <1>7 DEF h

\* What came, when more comes.
LEMMA UptoFacts ==
  ASSUME NEW c \in Nat
  PROVE  /\ Upto(0) = << >> /\ Upto(c) \in Seq(Nat)
         /\ Upto(c) \o [i \in 1 .. 0 |-> c + i] = Upto(c)
         /\ Upto(c) \o [i \in 1 .. 1 |-> c + i] = Upto(c + 1)
<1>1. /\ Upto(0) = << >> /\ Upto(c) \in Seq(Nat) /\ Upto(c + 1) \in Seq(Nat)
      /\ Len(Upto(c)) = c /\ Len(Upto(c + 1)) = c + 1
      /\ \A i \in 1 .. c : Upto(c)[i] = i
      /\ \A i \in 1 .. c + 1 : Upto(c + 1)[i] = i
  BY DEF Upto
<1> DEFINE e == [i \in 1 .. 0 |-> c + i]
           p == [i \in 1 .. 1 |-> c + i]
<1>2. e = << >> /\ p \in Seq(Nat) /\ Len(p) = 1 /\ p[1] = c + 1
  OBVIOUS
<1> HIDE DEF e, p
<1>3. Upto(c) \o e = Upto(c)
  BY <1>1, <1>2
<1>4. Upto(c) \o p = Upto(c + 1)
  <2> DEFINE u == Upto(c)
             w == Upto(c + 1)
  <2> HIDE DEF u, w
  <2>1. /\ u \in Seq(Nat) /\ w \in Seq(Nat) /\ Len(u) = c /\ Len(w) = c + 1
        /\ \A i \in 1 .. c : u[i] = i
        /\ \A i \in 1 .. c + 1 : w[i] = i
    BY ONLY <1>1 DEF u, w
  <2>4. /\ u \o p \in Seq(Nat) /\ Len(u \o p) = Len(u) + Len(p)
        /\ \A i \in 1 .. Len(u) + Len(p) : (u \o p)[i] = IF i <= Len(u) THEN u[i] ELSE p[i - Len(u)]
    BY ONLY <1>2, <2>1, ConcatFacts
  <2>2. /\ u \o p \in Seq(Nat) /\ Len(u \o p) = c + 1
        /\ \A i \in 1 .. c + 1 : (u \o p)[i] = IF i <= c THEN u[i] ELSE p[i - c]
    BY ONLY <1>2, <2>1, <2>4
  <2>3. ASSUME NEW i \in 1 .. c + 1 PROVE (u \o p)[i] = w[i]
    <3>1. CASE i <= c
      BY <2>1, <2>2, <3>1
    <3>2. CASE ~(i <= c)
      <4>1. i = c + 1 /\ i - c = 1
        BY <3>2
      <4> QED
        BY <1>2, <2>1, <2>2, <3>2, <4>1
    <3> QED
      BY <3>1, <3>2
  <2>5. u \o p = w
    <3> DEFINE v == u \o p
               m == c + 1
    <3>1. m \in Nat
      OBVIOUS
    <3> HIDE DEF v, m
    <3>2. v \in Seq(Nat) /\ w \in Seq(Nat) /\ Len(v) = m /\ Len(w) = m
      BY ONLY <2>1, <2>2 DEF v, m
    <3>3. \A i \in 1 .. m : v[i] = w[i]
      BY ONLY <2>3 DEF v, m
    <3>4. v = w
      BY ONLY <3>1, <3>2, <3>3, SameSeq
    <3> QED
      BY ONLY <3>4 DEF v
  <2> QED
    BY ONLY <2>5 DEF u, w
<1> QED
  BY <1>1, <1>3, <1>4 DEF e, p

\* A request that is held is answered and let go.
LEMMA AnswerStep ==
  ASSUME CttpInv, NEW r \in Range(ceq), NEW a \in Cres, a.num = r.num, plan' = Append(plan, a),
         ceq' = Unlinked(ceq, r.num), adr' = adr \ {r.num}, DOMAIN cli' = DOMAIN cli \ {r.num},
         came' \in Seq(Nat), Len(came') = Len(came), \A m \in DOMAIN came : m # r.num => came'[m] = came[m],
         a.bod = (IF a.sas = 504 THEN << >> ELSE Upto(came'[r.num])), UNCHANGED <<iris, effs, strange>>
  PROVE  CttpInv'
<1> DEFINE n == r.num
<1>1. /\ ceq \in Seq(Creq) /\ plan \in Seq(Cres) /\ Distinct(ceq) /\ Distinct(plan)
      /\ CttpTypeOK /\ EffsInv /\ PlaceInv /\ CallInv /\ CancelInv /\ BodyInv
  BY DEF CttpInv, CttpTypeOK, PlaceInv
<1>2. Held = {q.num : q \in Range(ceq)}
  BY DEF Held, Range
<1>3. n \in Held /\ n \notin Planned /\ n \notin Sent("request") /\ n \notin strange /\ n \in DOMAIN iris
  BY <1>1, <1>2 DEF PlaceInv
<1>4. /\ ceq' \in Seq(Creq) /\ Distinct(ceq)'
      /\ Range(ceq') = {q \in Range(ceq) : q.num # n}
  BY <1>1, UnlinkedFacts
<1>5. Held' = Held \ {n}
  <2>1. Held' = {q.num : q \in Range(ceq')}
    BY DEF Held, Range
  <2> QED
    BY <1>2, <1>4, <2>1
<1>6. /\ plan' \in Seq(Cres) /\ Distinct(plan)'
      /\ Planned' = Planned \cup {n} /\ Range(plan') = Range(plan) \cup {a}
  BY <1>1, <1>3, PlanAppend
<1>7. Sent("request")' = Sent("request") /\ Sent("cancel")' = Sent("cancel")
  BY DEF Sent
<1> HIDE DEF n
<1>8. CttpTypeOK'
  BY <1>1, <1>4, <1>6 DEF CttpTypeOK
<1>9. EffsInv'
  BY <1>1 DEF EffsInv
<1>10. PlaceInv'
  BY ONLY <1>1, <1>3, <1>4, <1>5, <1>6, <1>7, UNCHANGED <<iris, effs, strange>> DEF PlaceInv
<1>11. CallInv'
  BY <1>1, <1>4, <1>5 DEF CallInv, n
<1>12. CancelInv'
  BY <1>1, <1>4, <1>7 DEF CancelInv
<1>13. BodyInv'
  <2>1. DOMAIN came = DOMAIN iris
    BY <1>1 DEF CttpTypeOK
  <2>2. ASSUME NEW q \in Range(ceq') PROVE q.res = Upto(came'[q.num])
    <3>1. q \in Range(ceq) /\ q.num # n /\ q.num \in DOMAIN came
      BY <1>1, <1>2, <1>4, <2>1 DEF PlaceInv
    <3> QED
      BY <1>1, <3>1 DEF BodyInv, n
  <2>3. ASSUME NEW m \in Sent("request")' PROVE came'[m] = 0
    <3>1. m \in Sent("request") /\ m # n /\ m \in DOMAIN came
      BY <1>1, <1>3, <1>7, <2>1, <2>3 DEF PlaceInv
    <3> QED
      BY <1>1, <3>1 DEF BodyInv, n
  <2>4. ASSUME NEW b \in Range(plan') PROVE b.bod = IF b.sas = 504 THEN << >> ELSE Upto(came'[b.num])
    <3>1. CASE b = a
      BY <3>1
    <3>2. CASE b \in Range(plan)
      <4>1. b.num \in Planned
        BY <3>2 DEF Planned, Range
      <4>2. b.num # n /\ b.num \in DOMAIN came
        BY <1>1, <1>3, <2>1, <4>1 DEF PlaceInv
      <4> QED
        BY <1>1, <3>2, <4>2 DEF BodyInv, n
    <3> QED
      BY <1>6, <3>1, <3>2
  <2> QED
    BY <2>2, <2>3, <2>4 DEF BodyInv
<1> QED
  BY <1>8, <1>9, <1>10, <1>11, <1>12, <1>13 DEF CttpInv

\* A request that is held, and was cancelled, is let go.
LEMMA DropStep ==
  ASSUME CttpInv, NEW r \in Range(ceq), iris[r.num] = "cancelled",
         ceq' = Unlinked(ceq, r.num), adr' = adr \ {r.num}, DOMAIN cli' = DOMAIN cli \ {r.num},
         effs' \in Seq(Eff), EffsInv', Sent("request")' = Sent("request"),
         Sent("cancel")' \subseteq Sent("cancel"),
         \A n \in Sent("cancel") : n \in Sent("cancel")' \/ n = r.num,
         UNCHANGED <<iris, came, plan, strange>>
  PROVE  CttpInv'
<1> DEFINE n == r.num
<1>1. /\ ceq \in Seq(Creq) /\ plan \in Seq(Cres) /\ Distinct(ceq) /\ Distinct(plan)
      /\ CttpTypeOK /\ PlaceInv /\ CallInv /\ CancelInv /\ BodyInv
  BY DEF CttpInv, CttpTypeOK, PlaceInv
<1>2. Held = {q.num : q \in Range(ceq)}
  BY DEF Held, Range
<1>3. n \in Held /\ n \notin Sent("request")
  BY <1>1, <1>2 DEF PlaceInv
<1>4. /\ ceq' \in Seq(Creq) /\ Distinct(ceq)'
      /\ Range(ceq') = {q \in Range(ceq) : q.num # n}
  BY <1>1, UnlinkedFacts
<1>5. Held' = Held \ {n}
  <2>1. Held' = {q.num : q \in Range(ceq')}
    BY DEF Held, Range
  <2> QED
    BY <1>2, <1>4, <2>1
<1>6. Planned' = Planned
  BY DEF Planned
<1> HIDE DEF n
<1>7. CttpTypeOK'
  BY <1>1, <1>4 DEF CttpTypeOK
<1>8. PlaceInv'
  <2>1. iris[n] = "cancelled"
    BY DEF n
  <2>2. Sent("request")' = Sent("request") /\ Sent("cancel")' \subseteq Sent("cancel")
    OBVIOUS
  <2> QED
    BY ONLY <1>1, <1>4, <1>5, <1>6, <2>1, <2>2, UNCHANGED <<iris, came, plan, strange>> DEF PlaceInv
<1>9. CallInv'
  BY <1>1, <1>4, <1>5 DEF CallInv, n
<1>10. CancelInv'
  <2>1. \A m \in Sent("cancel")' : iris[m] = "cancelled"
    BY <1>1 DEF CancelInv
  <2>2. ASSUME NEW m \in Sent("request"), iris[m] = "cancelled" PROVE m \in Sent("cancel")'
    BY <1>1, <1>3, <2>2 DEF CancelInv, n
  <2>3. ASSUME NEW q \in Range(ceq')
        PROVE  q.sat = "quit" <=> iris[q.num] = "cancelled" /\ q.num \notin Sent("cancel")'
    <3>1. q \in Range(ceq) /\ q.num # n
      BY <1>4
    <3>2. q.num \in Sent("cancel")' <=> q.num \in Sent("cancel")
      BY <3>1 DEF n
    <3> QED
      BY <1>1, <3>1, <3>2 DEF CancelInv
  <2> QED
    BY <2>1, <2>2, <2>3 DEF CancelInv
<1>11. BodyInv'
  BY <1>1, <1>4 DEF BodyInv
<1> QED
  BY <1>7, <1>8, <1>9, <1>10, <1>11 DEF CttpInv

\* A request that is held changes what it waits for, or has more of its body.
LEMMA ChangeStep ==
  ASSUME CttpInv, NEW r \in Range(ceq), NEW v \in Creq, v.num = r.num,
         ceq' \in Seq(Creq), Distinct(ceq)', Range(ceq') = {q \in Range(ceq) : q.num # r.num} \cup {v},
         v.sat \in {"addr", "quit"} <=> r.num \in adr', v.sat = "ripe" <=> r.num \in DOMAIN cli',
         v.sat # "init",
         adr' \ {r.num} = adr \ {r.num}, DOMAIN cli' \ {r.num} = DOMAIN cli \ {r.num},
         v.sat = "quit" <=> iris[r.num] = "cancelled" /\ r.num \notin Sent("cancel")',
         effs' \in Seq(Eff), EffsInv', Sent("request")' = Sent("request"),
         Sent("cancel")' \subseteq Sent("cancel"),
         \A n \in Sent("cancel") : n \in Sent("cancel")' \/ n = r.num,
         came' \in Seq(Nat), Len(came') = Len(came), \A m \in DOMAIN came : m # r.num => came'[m] = came[m],
         v.res = Upto(came'[r.num]), UNCHANGED <<iris, plan, strange>>
  PROVE  CttpInv'
<1> DEFINE n == r.num
<1>1. /\ CttpTypeOK /\ PlaceInv /\ CallInv /\ CancelInv /\ BodyInv
  BY DEF CttpInv
<1>2. Held = {q.num : q \in Range(ceq)} /\ Held' = {q.num : q \in Range(ceq')}
  BY DEF Held, Range
<1>3. n \in Held /\ n \notin Sent("request") /\ n \notin Planned /\ n \in DOMAIN iris
  BY <1>1, <1>2 DEF PlaceInv
<1>4. v \in Range(ceq')
  OBVIOUS
<1>5. Held' = Held
  BY <1>2, <1>3, <1>4
<1>6. Planned' = Planned
  BY DEF Planned
<1>7. \A q \in Range(ceq') : q = v \/ (q \in Range(ceq) /\ q.num # n)
  OBVIOUS
<1>8. DOMAIN came = DOMAIN iris
  BY <1>1 DEF CttpTypeOK
<1>9. CttpTypeOK'
  BY <1>1 DEF CttpTypeOK
<1>10. PlaceInv'
  <2>1. Distinct(ceq)' /\ Distinct(plan) /\ Sent("request")' = Sent("request") /\ Sent("cancel")' \subseteq Sent("cancel")
    BY <1>1 DEF PlaceInv
  <2> QED
    BY ONLY <1>1, <1>5, <1>6, <2>1, UNCHANGED <<iris, plan, strange>> DEF PlaceInv
<1> HIDE DEF n
<1>11. CallInv'
  <2>1. ASSUME NEW q \in Range(ceq')
        PROVE  /\ q.sat \in {"addr", "quit"} <=> q.num \in adr'
               /\ q.sat = "ripe" <=> q.num \in DOMAIN cli'
               /\ q.sat # "init"
    <3>1. CASE q = v
      BY <3>1
    <3>2. CASE q \in Range(ceq) /\ q.num # n
      <4>1. q.num \in adr' <=> q.num \in adr
        BY <3>2 DEF n
      <4>2. q.num \in DOMAIN cli' <=> q.num \in DOMAIN cli
        BY <3>2 DEF n
      <4> QED
        BY <1>1, <3>2, <4>1, <4>2 DEF CallInv
    <3> QED
      BY <1>7, <3>1, <3>2
  <2>2. adr' \subseteq Held' /\ DOMAIN cli' \subseteq Held'
    BY <1>1, <1>3, <1>5 DEF CallInv, n
  <2> QED
    BY <2>1, <2>2 DEF CallInv
<1>12. CancelInv'
  <2>1. \A m \in Sent("cancel")' : iris[m] = "cancelled"
    BY <1>1 DEF CancelInv
  <2>2. ASSUME NEW m \in Sent("request"), iris[m] = "cancelled" PROVE m \in Sent("cancel")'
    BY <1>1, <1>3, <2>2 DEF CancelInv, n
  <2>3. ASSUME NEW q \in Range(ceq')
        PROVE  q.sat = "quit" <=> iris[q.num] = "cancelled" /\ q.num \notin Sent("cancel")'
    <3>1. CASE q = v
      BY <3>1
    <3>2. CASE q \in Range(ceq) /\ q.num # n
      <4>1. q.num \in Sent("cancel")' <=> q.num \in Sent("cancel")
        BY <3>2 DEF n
      <4> QED
        BY <1>1, <3>2, <4>1 DEF CancelInv
    <3> QED
      BY <1>7, <3>1, <3>2
  <2> QED
    BY <2>1, <2>2, <2>3 DEF CancelInv
<1>13. BodyInv'
  <2>1. ASSUME NEW q \in Range(ceq') PROVE q.res = Upto(came'[q.num])
    <3>1. CASE q = v
      BY <3>1
    <3>2. CASE q \in Range(ceq) /\ q.num # n
      <4>1. q.num \in DOMAIN came
        BY <1>1, <1>2, <1>8, <3>2 DEF PlaceInv
      <4> QED
        BY <1>1, <3>2, <4>1 DEF BodyInv, n
    <3> QED
      BY <1>7, <3>1, <3>2
  <2>2. ASSUME NEW m \in Sent("request")' PROVE came'[m] = 0
    <3>1. m \in Sent("request") /\ m # n /\ m \in DOMAIN came
      BY <1>1, <1>3, <1>8, <2>2 DEF PlaceInv
    <3> QED
      BY <1>1, <3>1 DEF BodyInv, n
  <2>3. ASSUME NEW b \in Range(plan) PROVE b.bod = IF b.sas = 504 THEN << >> ELSE Upto(came'[b.num])
    <3>1. b.num \in Planned
      BY <2>3 DEF Planned, Range
    <3>2. b.num # n /\ b.num \in DOMAIN came
      BY <1>1, <1>3, <1>8, <3>1 DEF PlaceInv
    <3> QED
      BY <1>1, <2>3, <3>2 DEF BodyInv, n
  <2> QED
    BY <2>1, <2>2, <2>3 DEF BodyInv
<1> QED
  BY <1>9, <1>10, <1>11, <1>12, <1>13 DEF CttpInv

\* A request is taken from the effects, to be held, answered or forgotten.
LEMMA RequestStep ==
  ASSUME CttpInv, EfRequest
  PROVE  CttpInv'
<1> DEFINE h == Head(effs)
           n == h.num
           new == [num |-> n, sat |-> "init", res |-> << >>]
<1>1. /\ CttpTypeOK /\ EffsInv /\ PlaceInv /\ CallInv /\ CancelInv /\ BodyInv
      /\ effs \in Seq(Eff) /\ ceq \in Seq(Creq) /\ plan \in Seq(Cres) /\ Distinct(ceq) /\ Distinct(plan)
  BY DEF CttpInv, CttpTypeOK, PlaceInv
<1>2. effs # << >> /\ h.tag = "request" /\ effs' = Tail(effs) /\ UNCHANGED <<iris, came>>
  BY DEF EfRequest
<1>3. /\ effs' \in Seq(Eff) /\ EffsInv' /\ h \in Eff /\ n \in Sent("request")
      /\ n \notin Sent("request")' /\ Sent("request")' \subseteq Sent("request")
      /\ Sent("cancel")' \subseteq Sent("cancel")
      /\ \A m \in Sent("request") : m \in Sent("request")' \/ m = n
      /\ \A m \in Sent("cancel") : m \in Sent("cancel")'
  BY <1>1, <1>2, EffsTail
<1>4. n \in Nat /\ n \notin Held /\ n \notin Planned /\ n \notin strange /\ n \in DOMAIN iris /\ came[n] = 0
  <2>1. n \in Nat
    BY <1>3 DEF Eff
  <2> QED
    BY <1>1, <1>3, <2>1 DEF PlaceInv, BodyInv
<1>5. /\ Linked(n) \in Seq(Creq) /\ Distinct(Linked(n)) /\ Range(Linked(n)) = Range(ceq) \cup {new}
  BY <1>1, <1>4, LinkedFacts
<1>6. new.num = n /\ new.res = << >> /\ new.sat = "init" /\ new \in Creq
  BY <1>4 DEF Creq
<1>7. Held = {q.num : q \in Range(ceq)} /\ Held' = {q.num : q \in Range(ceq')}
  BY DEF Held, Range
<1>8. Upto(0) = << >>
  BY UptoFacts
<1>9. n \notin adr /\ n \notin DOMAIN cli
  BY <1>1, <1>4 DEF CallInv
<1> HIDE DEF n, new, h
<1>10. \A q \in Range(ceq) : q.num # n
  BY <1>4, <1>7
<1>16. /\ Sent("request")' = Sent("request") \ {n} /\ Sent("cancel")' = Sent("cancel")
       /\ PlaceInv /\ UNCHANGED iris
  BY <1>1, <1>2, <1>3
<1>11. CASE /\ strange' = strange \cup {n} /\ UNCHANGED <<ceq, adr, cli, plan>>
  <2>1. CttpTypeOK'
    BY <1>1, <1>2, <1>3, <1>11 DEF CttpTypeOK
  <2>2. Held' = Held /\ Planned' = Planned
    BY <1>11 DEF Held, Planned
  <2>3. PlaceInv'
    BY <1>1, <1>2, <1>3, <1>4, <1>11, <2>2 DEF PlaceInv
  <2>4. CallInv'
    BY <1>1, <1>11, <2>2 DEF CallInv
  <2>5. CancelInv'
    BY <1>1, <1>2, <1>3, <1>11 DEF CancelInv
  <2>6. BodyInv'
    BY <1>1, <1>2, <1>3, <1>11 DEF BodyInv
  <2> QED
    BY <1>3, <2>1, <2>3, <2>4, <2>5, <2>6 DEF CttpInv
<1>12. CASE /\ Fail(Linked(n), n) /\ UNCHANGED <<adr, cli, strange>>
  <2> DEFINE a == [num |-> n, sas |-> 504, bod |-> << >>]
  <2>1. a \in Cres /\ a.num = n /\ a.sas = 504 /\ a.bod = << >>
    BY <1>4 DEF Cres
  <2>2. plan' = Append(plan, a) /\ ceq' = Unlinked(Linked(n), n)
    BY <1>12 DEF Fail, Receive
  <2> HIDE DEF a
  <2>3. /\ plan' \in Seq(Cres) /\ Distinct(plan)' /\ Planned' = Planned \cup {n}
        /\ Range(plan') = Range(plan) \cup {a}
    BY <1>1, <1>4, <2>1, <2>2, PlanAppend
  <2>4. ceq' \in Seq(Creq) /\ Distinct(ceq)' /\ Range(ceq') = {q \in Range(Linked(n)) : q.num # n}
    BY <1>5, <2>2, UnlinkedFacts
  <2>5. Range(ceq') = Range(ceq)
    BY <1>5, <1>6, <1>10, <2>4
  <2>6. Held' = Held
    BY <1>7, <2>5
  <2>7. CttpTypeOK'
    BY <1>1, <1>2, <1>3, <2>3, <2>4 DEF CttpTypeOK
  <2>8. PlaceInv'
    <3>1. strange' = strange /\ Distinct(plan)' /\ Planned' = Planned \cup {n} /\ Distinct(ceq)' /\ Held' = Held
      BY <1>12, <2>3, <2>4, <2>6
    <3>2. Sent("request") \cup Sent("cancel") \cup Held \cup Planned \cup strange \subseteq DOMAIN iris
      BY <1>16 DEF PlaceInv
    <3> QED
      BY ONLY <1>16, <1>3, <1>4, <3>1, <3>2 DEF PlaceInv
  <2>9. CallInv'
    BY <1>1, <1>12, <2>5, <2>6 DEF CallInv
  <2>10. CancelInv'
    BY <1>1, <1>2, <1>3, <2>5 DEF CancelInv
  <2>11. BodyInv'
    BY <1>1, <1>2, <1>3, <2>1, <2>3, <2>5 DEF BodyInv
  <2> QED
    BY <1>3, <2>7, <2>8, <2>9, <2>10, <2>11 DEF CttpInv
<1>13. ASSUME NEW sat \in {"addr", "ripe"}, ceq' = Set(Linked(n), n, sat), UNCHANGED <<plan, strange>>,
              adr' = (IF sat = "addr" THEN adr \cup {n} ELSE adr),
              DOMAIN cli' = (IF sat = "ripe" THEN DOMAIN cli \cup {n} ELSE DOMAIN cli)
       PROVE  CttpInv'
  <2> DEFINE v == [new EXCEPT !.sat = sat]
  <2>1. v \in Creq /\ v.num = n /\ v.sat = sat /\ v.res = << >>
    BY <1>6 DEF Creq
  <2>2. new \in Range(Linked(n))
    BY <1>5
  <2>3. /\ ceq' \in Seq(Creq) /\ Distinct(ceq)'
        /\ Range(ceq') = {q \in Range(Linked(n)) : q.num # n} \cup {v}
    <3>1. ceq' = Set(Linked(n), new.num, sat)
      BY <1>6, <1>13
    <3>2. /\ Set(Linked(n), new.num, sat) \in Seq(Creq) /\ Distinct(Set(Linked(n), new.num, sat))
          /\ Range(Set(Linked(n), new.num, sat)) = {q \in Range(Linked(n)) : q.num # new.num} \cup {v}
      BY <1>5, <2>2, SetFacts
    <3> HIDE DEF v
    <3> QED
      BY <1>6, <3>1, <3>2
  <2> HIDE DEF v
  <2>4. Range(ceq') = Range(ceq) \cup {v}
    BY <1>5, <1>6, <1>10, <2>3
  <2>5. Held' = Held \cup {n}
    BY <1>7, <2>1, <2>4
  <2>6. Planned' = Planned
    BY <1>13 DEF Planned
  <2>7. CttpTypeOK'
    BY <1>1, <1>2, <1>3, <1>13, <2>3 DEF CttpTypeOK
  <2>8. PlaceInv'
    <3>1. strange' = strange /\ Distinct(plan)' /\ Planned' = Planned /\ Distinct(ceq)' /\ Held' = Held \cup {n}
      BY <1>1, <1>13, <2>3, <2>5, <2>6 DEF Distinct
    <3>2. Sent("request") \cup Sent("cancel") \cup Held \cup Planned \cup strange \subseteq DOMAIN iris
      BY <1>16 DEF PlaceInv
    <3> QED
      BY ONLY <1>16, <1>3, <1>4, <3>1, <3>2 DEF PlaceInv
  <2>9. CallInv'
    <3>1. \A q \in Range(ceq) : (q.num \in adr' <=> q.num \in adr) /\ (q.num \in DOMAIN cli' <=> q.num \in DOMAIN cli)
      BY <1>10, <1>13
    <3>2. (sat = "addr" <=> n \in adr') /\ (sat = "ripe" <=> n \in DOMAIN cli')
      BY <1>9, <1>13
    <3>3. /\ v.sat \in {"addr", "quit"} <=> v.num \in adr'
          /\ v.sat = "ripe" <=> v.num \in DOMAIN cli'
          /\ v.sat # "init"
      BY <1>13, <2>1, <3>2
    <3>4. adr' \subseteq Held' /\ DOMAIN cli' \subseteq Held'
      BY <1>1, <1>13, <2>5 DEF CallInv
    <3> QED
      BY <1>1, <2>4, <3>1, <3>3, <3>4 DEF CallInv
  <2>10. CancelInv'
    <3>1. v.sat # "quit"
      BY <1>13, <2>1
    <3>2. iris[n] = "cancelled" => n \in Sent("cancel")'
      BY <1>1, <1>3 DEF CancelInv
    <3> QED
      BY <1>1, <1>2, <1>3, <2>1, <2>4, <3>1, <3>2 DEF CancelInv
  <2>11. BodyInv'
    <3>1. v.res = Upto(came[v.num])
      BY <1>4, <1>8, <2>1
    <3>2. \A q \in Range(ceq') : q.res = Upto(came[q.num])
      BY <1>1, <2>4, <3>1 DEF BodyInv
    <3> QED
      BY <1>1, <1>2, <1>3, <1>13, <3>2 DEF BodyInv
  <2> QED
    BY <1>3, <2>7, <2>8, <2>9, <2>10, <2>11 DEF CttpInv
<1>14. CASE Connect(Linked(n), n) /\ UNCHANGED <<adr, strange>>
  <2>1. CASE Fail(Linked(n), n) /\ UNCHANGED cli
    BY <1>12, <1>14, <2>1
  <2>2. CASE /\ ceq' = Set(Linked(n), n, "ripe") /\ UNCHANGED plan
             /\ cli' = [m \in DOMAIN cli \cup {n} |-> IF m = n THEN "connect" ELSE cli[m]]
    <3>1. DOMAIN cli' = DOMAIN cli \cup {n}
      BY <2>2
    <3> QED
      BY <1>13, <1>14, <2>2, <3>1
  <2> QED
    BY <1>14, <2>1, <2>2 DEF Connect
<1>15. CASE Resolve(Linked(n), n) /\ UNCHANGED <<cli, strange>>
  <2>1. CASE Fail(Linked(n), n) /\ UNCHANGED adr
    BY <1>12, <1>15, <2>1
  <2>2. CASE ceq' = Set(Linked(n), n, "addr") /\ adr' = adr \cup {n} /\ UNCHANGED plan
    BY <1>13, <1>15, <2>2
  <2> QED
    BY <1>15, <2>1, <2>2 DEF Resolve
<1> QED
  BY <1>11, <1>14, <1>15 DEF EfRequest, n, h

\* A cancellation is taken.
LEMMA CancelStep ==
  ASSUME CttpInv, EfCancel
  PROVE  CttpInv'
<1> DEFINE h == Head(effs)
           n == h.num
<1>1. /\ CttpTypeOK /\ EffsInv /\ PlaceInv /\ CallInv /\ CancelInv /\ BodyInv
      /\ effs \in Seq(Eff) /\ ceq \in Seq(Creq) /\ came \in Seq(Nat) /\ Distinct(ceq)
  BY DEF CttpInv, CttpTypeOK, PlaceInv
<1>2. /\ effs # << >> /\ h.tag = "cancel" /\ effs' = Tail(effs)
      /\ UNCHANGED <<iris, adr, came, plan, strange>>
      /\ IF n \in Held THEN Quit(n) ELSE UNCHANGED <<ceq, cli>>
  BY DEF EfCancel
<1>3. /\ effs' \in Seq(Eff) /\ EffsInv' /\ n \in Sent("cancel") /\ n \notin Sent("cancel")'
      /\ n \notin Sent("request")' /\ Sent("request")' \subseteq Sent("request")
      /\ Sent("cancel")' \subseteq Sent("cancel")
      /\ \A m \in Sent("request") : m \in Sent("request")'
      /\ \A m \in Sent("cancel") : m \in Sent("cancel")' \/ m = n
  BY <1>1, <1>2, EffsTail
<1>4. Sent("request")' = Sent("request") /\ n \notin Sent("request")
  BY <1>3
<1>5. iris[n] = "cancelled"
  BY <1>1, <1>3 DEF CancelInv
<1> HIDE DEF n, h
<1>6. CASE n \notin Held
  <2>1. UNCHANGED <<ceq, cli>>
    BY <1>2, <1>6
  <2>2. Held' = Held /\ Planned' = Planned
    BY <1>2, <2>1 DEF Held, Planned
  <2>3. \A q \in Range(ceq) : q.num # n
    BY <1>6 DEF Held, Range
  <2>4. CttpTypeOK' /\ BodyInv' /\ CallInv'
    BY <1>1, <1>2, <1>3, <1>4, <2>1, <2>2 DEF CttpTypeOK, BodyInv, CallInv
  <2>5. PlaceInv'
    BY <1>1, <1>2, <1>3, <1>4, <2>1, <2>2 DEF PlaceInv
  <2>6. CancelInv'
    BY <1>1, <1>2, <1>3, <1>4, <2>1, <2>3 DEF CancelInv
  <2> QED
    BY <1>3, <2>4, <2>5, <2>6 DEF CttpInv
<1>7. CASE n \in Held
  <2>1. PICK r \in Range(ceq) : r.num = n
    BY <1>7 DEF Held, Range
  <2>2. Find(n) = r /\ Quit(n)
    BY <1>1, <1>2, <1>7, <2>1, FindFacts
  <2>3. r.sat # "quit" /\ r \in Creq
    BY <1>1, <1>3, <2>1 DEF CancelInv, Range
  <2>4. CASE r.sat = "addr"
    <3> DEFINE v == [r EXCEPT !.sat = "quit"]
    <3>1. v \in Creq /\ v.num = r.num /\ v.sat = "quit" /\ v.res = r.res
      BY <2>3 DEF Creq
    <3>2. ceq' = Set(ceq, r.num, "quit") /\ UNCHANGED cli
      BY <2>1, <2>2, <2>4 DEF Quit
    <3>3. /\ ceq' \in Seq(Creq) /\ Distinct(ceq)'
          /\ Range(ceq') = {q \in Range(ceq) : q.num # r.num} \cup {v}
      BY <1>1, <3>2, SetFacts
    <3> HIDE DEF v
    <3>4. r.num \in adr /\ r.num \notin DOMAIN cli /\ r.res = Upto(came[r.num])
      BY <1>1, <2>4 DEF CallInv, BodyInv
    <3>5. (v.sat \in {"addr", "quit"} <=> r.num \in adr') /\ (v.sat = "ripe" <=> r.num \in DOMAIN cli')
          /\ (v.sat = "quit" <=> iris[r.num] = "cancelled" /\ r.num \notin Sent("cancel")')
          /\ v.sat # "init" /\ v.res = Upto(came'[r.num])
      BY <1>2, <1>3, <1>5, <2>1, <3>1, <3>2, <3>4
    <3>6. \A m \in Sent("cancel") : m \in Sent("cancel")' \/ m = r.num
      BY <1>3, <2>1
    <3> QED
      BY <1>1, <1>2, <1>3, <1>4, <3>1, <3>2, <3>3, <3>5, <3>6, ChangeStep
  <2>5. CASE r.sat # "addr"
    <3>1. ceq' = Unlinked(ceq, r.num) /\ cli' = Restrict(cli, DOMAIN cli \ {r.num})
      BY <2>1, <2>2, <2>5 DEF Quit
    <3>2. DOMAIN cli' = DOMAIN cli \ {r.num}
      BY <3>1 DEF Restrict
    <3>3. adr' = adr \ {r.num}
      BY <1>1, <1>2, <2>3, <2>5 DEF CallInv
    <3>4. \A m \in Sent("cancel") : m \in Sent("cancel")' \/ m = r.num
      BY <1>3, <2>1
    <3> QED
      BY <1>2, <1>3, <1>4, <1>5, <2>1, <3>1, <3>2, <3>3, <3>4, DropStep
  <2> QED
    BY <2>4, <2>5
<1> QED
  BY <1>6, <1>7

\* What a callback finds.
LEMMA HeldFacts ==
  ASSUME CttpInv, NEW n \in Held
  PROVE  \E r \in Range(ceq) :
           /\ r.num = n /\ Find(n) = r /\ r \in Creq /\ r.res = Upto(came[n]) /\ n \in DOMAIN came
           /\ r.sat \in {"addr", "quit"} <=> n \in adr
           /\ r.sat = "ripe" <=> n \in DOMAIN cli
           /\ r.sat = "quit" <=> iris[n] = "cancelled" /\ n \notin Sent("cancel")
           /\ came[n] \in Nat
<1>1. /\ ceq \in Seq(Creq) /\ Distinct(ceq) /\ CallInv /\ CancelInv /\ BodyInv
      /\ n \in DOMAIN iris /\ came \in Seq(Nat) /\ DOMAIN came = DOMAIN iris
  BY DEF CttpInv, CttpTypeOK, PlaceInv
<1>2. PICK r \in Range(ceq) : r.num = n
  BY DEF Held, Range
<1>3. r \in Creq
  BY <1>1 DEF Range
<1>4. Find(n) = r
  BY <1>1, <1>2, FindFacts
<1> QED
  BY <1>1, <1>2, <1>3, <1>4 DEF CallInv, CancelInv, BodyInv

\* It fails the request,
LEMMA FailStep ==
  ASSUME CttpInv, NEW n \in Held, Fail(ceq, n), adr' = adr \ {n}, DOMAIN cli' = DOMAIN cli \ {n},
         UNCHANGED <<iris, effs, came, strange>>
  PROVE  CttpInv'
<1>1. PICK r \in Range(ceq) : r.num = n /\ r \in Creq
  BY HeldFacts
<1> DEFINE a == [num |-> n, sas |-> 504, bod |-> << >>]
<1>2. a \in Cres /\ a.num = n /\ a.sas = 504 /\ a.bod = << >>
  BY <1>1 DEF Cres, Creq
<1>3. plan' = Append(plan, a) /\ ceq' = Unlinked(ceq, n)
  BY DEF Fail, Receive
<1> HIDE DEF a
<1>4. came' \in Seq(Nat) /\ Len(came') = Len(came) /\ \A m \in DOMAIN came : m # r.num => came'[m] = came[m]
  BY DEF CttpInv, CttpTypeOK
<1> QED
  BY <1>1, <1>2, <1>3, <1>4, AnswerStep

\* or answers it, with all that came.
LEMMA RespondStep ==
  ASSUME CttpInv, NEW n \in Held, NEW q \in Creq, q.num = n, Respond(q), n \notin adr,
         DOMAIN cli' = DOMAIN cli \ {n},
         came' \in Seq(Nat), Len(came') = Len(came), \A m \in DOMAIN came : m # n => came'[m] = came[m],
         q.res = Upto(came'[n]), UNCHANGED <<iris, effs, adr, strange>>
  PROVE  CttpInv'
<1>1. PICK r \in Range(ceq) : r.num = n
  BY HeldFacts
<1> DEFINE a == [num |-> n, sas |-> 200, bod |-> q.res]
<1>2. a \in Cres /\ a.num = n /\ a.sas = 200 /\ a.bod = Upto(came'[n])
  BY DEF Cres, Creq
<1>3. plan' = Append(plan, a) /\ ceq' = Unlinked(ceq, n)
  BY DEF Respond, Receive
<1> HIDE DEF a
<1>4. adr' = adr \ {n}
  OBVIOUS
<1>5. /\ a.num = r.num /\ ceq' = Unlinked(ceq, r.num) /\ adr' = adr \ {r.num}
      /\ DOMAIN cli' = DOMAIN cli \ {r.num}
      /\ \A m \in DOMAIN came : m # r.num => came'[m] = came[m]
      /\ a.bod = (IF a.sas = 504 THEN << >> ELSE Upto(came'[r.num]))
  BY <1>1, <1>2, <1>3, <1>4
<1>6. came' \in Seq(Nat) /\ Len(came') = Len(came) /\ UNCHANGED <<iris, effs, strange>>
  OBVIOUS
<1> QED
  BY ONLY CttpInv, <1>1, <1>2, <1>3, <1>5, <1>6, AnswerStep

\* Nothing is on its way.
LEMMA QuietEffs ==
  ASSUME CttpInv, UNCHANGED effs
  PROVE  /\ effs' \in Seq(Eff) /\ EffsInv' /\ Sent("request")' = Sent("request")
         /\ Sent("cancel")' = Sent("cancel")
BY DEF CttpInv, CttpTypeOK, EffsInv, Sent

\* A lookup ends.
LEMMA ResolveCbInv == CttpInv /\ ResolveCb => CttpInv'
<1> SUFFICES ASSUME CttpInv, ResolveCb PROVE CttpInv'
  OBVIOUS
<1>1. PICK n \in adr \cap Held :
        /\ adr' = adr \ {n} /\ UNCHANGED <<iris, effs, came, strange>>
        /\ \/ Find(n).sat = "quit" /\ Quit(n) /\ UNCHANGED plan
           \/ Find(n).sat # "quit" /\ Fail(ceq, n) /\ UNCHANGED cli
           \/ Find(n).sat # "quit" /\ Connect(ceq, n)
  BY DEF ResolveCb
<1>2. PICK r \in Range(ceq) :
           /\ r.num = n /\ Find(n) = r /\ r \in Creq /\ r.res = Upto(came[n]) /\ n \in DOMAIN came
           /\ r.sat \in {"addr", "quit"} <=> n \in adr
           /\ r.sat = "ripe" <=> n \in DOMAIN cli
           /\ r.sat = "quit" <=> iris[n] = "cancelled" /\ n \notin Sent("cancel")
           /\ came[n] \in Nat
  BY <1>1, HeldFacts
<1>3. n \notin DOMAIN cli /\ DOMAIN cli \ {n} = DOMAIN cli
  BY <1>1, <1>2
<1>4. /\ effs' \in Seq(Eff) /\ EffsInv' /\ Sent("request")' = Sent("request")
      /\ Sent("cancel")' = Sent("cancel")
  BY <1>1, QuietEffs
<1>5. /\ ceq \in Seq(Creq) /\ Distinct(ceq)
      /\ came' \in Seq(Nat) /\ Len(came') = Len(came) /\ \A m \in DOMAIN came : m # n => came'[m] = came[m]
  BY <1>1 DEF CttpInv, CttpTypeOK, PlaceInv
<1>6. CASE r.sat = "quit" /\ Quit(n) /\ UNCHANGED plan
  <2>1. ceq' = Unlinked(ceq, n) /\ cli' = Restrict(cli, DOMAIN cli \ {n})
    BY <1>2, <1>6 DEF Quit
  <2>2. DOMAIN cli' = DOMAIN cli \ {n}
    BY <2>1 DEF Restrict
  <2>3. Sent("cancel")' \subseteq Sent("cancel") /\ \A m \in Sent("cancel") : m \in Sent("cancel")' \/ m = n
    BY <1>4
  <2>4. r.num = n /\ iris[r.num] = "cancelled" /\ UNCHANGED <<iris, came, plan, strange>> /\ adr' = adr \ {n}
    BY <1>1, <1>2, <1>6
  <2> QED
    BY <1>4, <2>1, <2>2, <2>3, <2>4, DropStep
<1>7. CASE Fail(ceq, n) /\ UNCHANGED cli
  BY <1>1, <1>3, <1>7, FailStep
<1>8. CASE /\ r.sat # "quit" /\ ceq' = Set(ceq, n, "ripe") /\ UNCHANGED plan
           /\ cli' = [m \in DOMAIN cli \cup {n} |-> IF m = n THEN "connect" ELSE cli[m]]
  <2> DEFINE v == [r EXCEPT !.sat = "ripe"]
  <2>1. v \in Creq /\ v.num = r.num /\ v.sat = "ripe" /\ v.res = r.res
    BY <1>2 DEF Creq
  <2>2. /\ ceq' \in Seq(Creq) /\ Distinct(ceq)'
        /\ Range(ceq') = {q \in Range(ceq) : q.num # r.num} \cup {v}
    <3>1. ceq' = Set(ceq, r.num, "ripe")
      BY <1>2, <1>8
    <3> QED
      BY <1>5, <3>1, SetFacts
  <2> HIDE DEF v
  <2>3. DOMAIN cli' = DOMAIN cli \cup {n}
    BY <1>8
  <2>4. /\ v.sat \in {"addr", "quit"} <=> r.num \in adr'
        /\ v.sat = "ripe" <=> r.num \in DOMAIN cli'
        /\ v.sat = "quit" <=> iris[r.num] = "cancelled" /\ r.num \notin Sent("cancel")'
        /\ v.sat # "init" /\ v.res = Upto(came'[r.num])
        /\ adr' \ {r.num} = adr \ {r.num} /\ DOMAIN cli' \ {r.num} = DOMAIN cli \ {r.num}
    BY <1>1, <1>2, <1>4, <1>8, <2>1, <2>3
  <2>5. Sent("cancel")' \subseteq Sent("cancel") /\ \A m \in Sent("cancel") : m \in Sent("cancel")' \/ m = r.num
    BY <1>4
  <2>6. UNCHANGED <<iris, plan, strange>> /\ \A m \in DOMAIN came : m # r.num => came'[m] = came[m]
    BY <1>1, <1>8
  <2> QED
    BY <1>4, <1>5, <2>1, <2>2, <2>4, <2>5, <2>6, ChangeStep
<1> QED
  BY <1>1, <1>2, <1>6, <1>7, <1>8 DEF Connect

\* h2o calls.
LEMMA ClientInv == CttpInv /\ (OnError \/ OnConnect \/ OnHead \/ OnBody) => CttpInv'
<1> SUFFICES ASSUME CttpInv, OnError \/ OnConnect \/ OnHead \/ OnBody PROVE CttpInv'
  OBVIOUS
<1>1. PICK n \in DOMAIN cli \cap Held :
        \/ Fail(ceq, n) /\ cli' = Dropped(n) /\ UNCHANGED <<iris, effs, adr, came, strange>>
        \/ cli' = [cli EXCEPT ![n] = "head"] /\ UNCHANGED <<iris, effs, ceq, adr, came, plan, strange>>
        \/ Respond(Find(n)) /\ cli' = Dropped(n) /\ UNCHANGED <<iris, effs, adr, came, strange>>
        \/ cli' = [cli EXCEPT ![n] = "body"] /\ UNCHANGED <<iris, effs, ceq, adr, came, plan, strange>>
        \/ \E k \in {0, 1}, eos \in BOOLEAN :
             LET q == FireBody(Find(n), [i \in 1 .. k |-> came[n] + i]) IN
             /\ came' = [came EXCEPT ![n] = @ + k] /\ UNCHANGED <<iris, effs, adr, strange>>
             /\ \/ Respond(q) /\ cli' = Dropped(n)
                \/ ceq' = [i \in DOMAIN ceq |-> IF ceq[i].num = n THEN q ELSE ceq[i]] /\ UNCHANGED <<cli, plan>>
  BY DEF OnError, OnConnect, OnHead, OnBody
<1>2. PICK r \in Range(ceq) :
           /\ r.num = n /\ Find(n) = r /\ r \in Creq /\ r.res = Upto(came[n]) /\ n \in DOMAIN came
           /\ r.sat \in {"addr", "quit"} <=> n \in adr
           /\ r.sat = "ripe" <=> n \in DOMAIN cli
           /\ r.sat = "quit" <=> iris[n] = "cancelled" /\ n \notin Sent("cancel")
           /\ came[n] \in Nat
  BY <1>1, HeldFacts
<1>3. r.sat = "ripe" /\ n \notin adr /\ adr \ {n} = adr
  BY <1>1, <1>2
<1>4. DOMAIN Dropped(n) = DOMAIN cli \ {n}
  BY DEF Dropped, Restrict
<1>5. /\ ceq \in Seq(Creq) /\ Distinct(ceq) /\ came \in Seq(Nat)
  BY DEF CttpInv, CttpTypeOK, PlaceInv
<1>6. CASE Fail(ceq, n) /\ cli' = Dropped(n) /\ UNCHANGED <<iris, effs, adr, came, strange>>
  BY <1>1, <1>3, <1>4, <1>6, FailStep
<1>7. ASSUME NEW what, cli' = [cli EXCEPT ![n] = what],
             UNCHANGED <<iris, effs, ceq, adr, came, plan, strange>>
      PROVE  CttpInv'
  <2>1. DOMAIN cli' = DOMAIN cli
    BY <1>7
  <2>2. /\ effs' \in Seq(Eff) /\ EffsInv' /\ Sent("request")' = Sent("request")
        /\ Sent("cancel")' = Sent("cancel")
    BY <1>7, QuietEffs
  <2>3. Held' = Held /\ Planned' = Planned /\ Distinct(ceq)' = Distinct(ceq) /\ Distinct(plan)' = Distinct(plan)
    BY <1>7 DEF Held, Planned, Distinct
  <2>4. CttpTypeOK'
    BY <1>7 DEF CttpInv, CttpTypeOK
  <2>5. PlaceInv'
    BY <1>7, <2>2, <2>3 DEF CttpInv, PlaceInv
  <2>6. CallInv'
    BY <1>7, <2>1, <2>3 DEF CttpInv, CallInv
  <2>7. CancelInv'
    BY <1>7, <2>2 DEF CttpInv, CancelInv
  <2>8. BodyInv'
    BY <1>7, <2>2 DEF CttpInv, BodyInv
  <2> QED
    BY <2>2, <2>4, <2>5, <2>6, <2>7, <2>8 DEF CttpInv
<1>8. CASE Respond(Find(n)) /\ cli' = Dropped(n) /\ UNCHANGED <<iris, effs, adr, came, strange>>
  BY <1>1, <1>2, <1>3, <1>4, <1>5, <1>8, RespondStep
<1>9. ASSUME NEW k \in {0, 1}, NEW q, q = FireBody(r, [i \in 1 .. k |-> came[n] + i]),
             came' = [came EXCEPT ![n] = @ + k], UNCHANGED <<iris, effs, adr, strange>>,
             \/ Respond(q) /\ cli' = Dropped(n)
             \/ ceq' = [i \in DOMAIN ceq |-> IF ceq[i].num = n THEN q ELSE ceq[i]] /\ UNCHANGED <<cli, plan>>
      PROVE  CttpInv'
  <2>1. /\ came' \in Seq(Nat) /\ Len(came') = Len(came) /\ came'[n] = came[n] + k
        /\ \A m \in DOMAIN came : m # n => came'[m] = came[m]
    BY <1>2, <1>5, <1>9
  <2> DEFINE res == Upto(came[n]) \o [i \in 1 .. k |-> came[n] + i]
  <2>2. res = Upto(came[n] + k) /\ res \in Seq(Nat)
    <3>1. PICK c \in Nat : c = came[n]
      BY <1>2
    <3>2. CASE k = 0
      <4>1. res = Upto(c) \o [i \in 1 .. 0 |-> c + i]
        BY <3>1, <3>2
      <4> HIDE DEF res
      <4>2. res = Upto(c)
        BY <3>1, <4>1, UptoFacts
      <4>3. Upto(c) \in Seq(Nat) /\ c + 0 = c
        BY <3>1 DEF Upto
      <4> QED
        BY <3>1, <3>2, <4>2, <4>3
    <3>3. CASE k = 1
      <4>1. res = Upto(c) \o [i \in 1 .. 1 |-> c + i]
        BY <3>1, <3>3
      <4> HIDE DEF res
      <4>2. res = Upto(c + 1)
        BY <3>1, <4>1, UptoFacts
      <4>3. Upto(c + 1) \in Seq(Nat)
        BY <3>1 DEF Upto
      <4> QED
        BY <3>1, <3>3, <4>2, <4>3
    <3> QED
      BY <1>9, <3>2, <3>3
  <2>3. q = [r EXCEPT !.res = res]
    BY <1>2, <1>9 DEF FireBody
  <2> HIDE DEF res
  <2>4. q \in Creq /\ q.num = n /\ q.sat = "ripe" /\ q.res = Upto(came'[n])
    BY <1>2, <1>3, <2>1, <2>2, <2>3 DEF Creq
  <2>5. CASE Respond(q) /\ cli' = Dropped(n)
    BY <1>1, <1>3, <1>4, <1>9, <2>1, <2>4, <2>5, RespondStep
  <2>6. CASE ceq' = [i \in DOMAIN ceq |-> IF ceq[i].num = n THEN q ELSE ceq[i]] /\ UNCHANGED <<cli, plan>>
    <3>1. /\ ceq' \in Seq(Creq) /\ DOMAIN ceq' = DOMAIN ceq
          /\ \A i \in DOMAIN ceq : ceq'[i] = IF ceq[i].num = n THEN q ELSE ceq[i]
      BY <1>5, <2>4, <2>6
    <3>2. Distinct(ceq') /\ Range(ceq') = {p \in Range(ceq) : p.num # n} \cup {q}
      <4>1. ceq \in Seq(Creq) /\ Distinct(ceq) /\ r \in Range(ceq) /\ r.num = n /\ q \in Creq /\ q.num = n
        BY <1>2, <1>5, <2>4
      <4> QED
        BY ONLY <3>1, <4>1, ChangedFacts
    <3>3. /\ effs' \in Seq(Eff) /\ EffsInv' /\ Sent("request")' = Sent("request")
          /\ Sent("cancel")' = Sent("cancel")
      BY <1>9, QuietEffs
    <3>4. /\ q.sat \in {"addr", "quit"} <=> n \in adr'
          /\ q.sat = "ripe" <=> n \in DOMAIN cli'
          /\ q.sat = "quit" <=> iris[n] = "cancelled" /\ n \notin Sent("cancel")'
          /\ q.sat # "init"
          /\ adr' \ {n} = adr \ {n} /\ DOMAIN cli' \ {n} = DOMAIN cli \ {n}
          /\ UNCHANGED <<iris, plan, strange>>
      BY <1>1, <1>2, <1>3, <1>9, <2>4, <2>6, <3>3
    <3>5. Distinct(ceq)' /\ Sent("cancel")' \subseteq Sent("cancel")
          /\ \A m \in Sent("cancel") : m \in Sent("cancel")' \/ m = n
      BY <3>2, <3>3 DEF Distinct
    <3>6. /\ q.num = r.num /\ Range(ceq') = {p \in Range(ceq) : p.num # r.num} \cup {q}
          /\ q.sat \in {"addr", "quit"} <=> r.num \in adr'
          /\ q.sat = "ripe" <=> r.num \in DOMAIN cli'
          /\ q.sat = "quit" <=> iris[r.num] = "cancelled" /\ r.num \notin Sent("cancel")'
          /\ adr' \ {r.num} = adr \ {r.num} /\ DOMAIN cli' \ {r.num} = DOMAIN cli \ {r.num}
          /\ \A m \in Sent("cancel") : m \in Sent("cancel")' \/ m = r.num
          /\ \A m \in DOMAIN came : m # r.num => came'[m] = came[m]
          /\ q.res = Upto(came'[r.num])
      BY <1>2, <2>1, <2>4, <3>2, <3>4, <3>5
    <3>7. r \in Range(ceq) /\ q \in Creq /\ came' \in Seq(Nat) /\ Len(came') = Len(came)
      BY <1>2, <2>1, <2>4
    <3> QED
      BY ONLY CttpInv, <3>1, <3>3, <3>4, <3>5, <3>6, <3>7, ChangeStep
  <2> QED
    BY <1>9, <2>5, <2>6
<1>10. ASSUME NEW k \in {0, 1}, NEW eos \in BOOLEAN,
              LET q == FireBody(Find(n), [i \in 1 .. k |-> came[n] + i]) IN
              /\ came' = [came EXCEPT ![n] = @ + k] /\ UNCHANGED <<iris, effs, adr, strange>>
              /\ \/ Respond(q) /\ cli' = Dropped(n)
                 \/ ceq' = [i \in DOMAIN ceq |-> IF ceq[i].num = n THEN q ELSE ceq[i]] /\ UNCHANGED <<cli, plan>>
       PROVE  CttpInv'
  <2> DEFINE q == FireBody(r, [i \in 1 .. k |-> came[n] + i])
  <2>1. /\ came' = [came EXCEPT ![n] = @ + k] /\ UNCHANGED <<iris, effs, adr, strange>>
        /\ \/ Respond(q) /\ cli' = Dropped(n)
           \/ ceq' = [i \in DOMAIN ceq |-> IF ceq[i].num = n THEN q ELSE ceq[i]] /\ UNCHANGED <<cli, plan>>
    BY <1>2, <1>10
  <2>2. \E p : p = q
    OBVIOUS
  <2> HIDE DEF q
  <2> QED
    BY <1>9, <2>1, <2>2 DEF q
<1> QED
  BY <1>1, <1>2, <1>6, <1>7, <1>8, <1>10

\* %iris asks for a request by a new number,
LEMMA IrisRequestInv == CttpInv /\ IrisRequest => CttpInv'
<1> SUFFICES ASSUME CttpInv, IrisRequest PROVE CttpInv'
  OBVIOUS
<1> DEFINE n == Len(iris) + 1
<1>1. /\ CttpTypeOK /\ EffsInv /\ PlaceInv /\ CallInv /\ CancelInv /\ BodyInv
      /\ effs \in Seq(Eff) /\ iris \in Seq({"asked", "answered", "cancelled"})
      /\ came \in Seq(Nat) /\ Len(came) = Len(iris)
  BY DEF CttpInv, CttpTypeOK
<1>2. /\ iris' = Append(iris, "asked") /\ came' = Append(came, 0)
      /\ effs' = Append(effs, [tag |-> "request", num |-> n])
      /\ UNCHANGED <<ceq, adr, cli, plan, strange>>
  BY DEF IrisRequest
<1>3. /\ n \in Nat /\ n \notin DOMAIN iris /\ DOMAIN iris' = DOMAIN iris \cup {n} /\ DOMAIN came = DOMAIN iris
      /\ iris' \in Seq({"asked", "answered", "cancelled"}) /\ came' \in Seq(Nat) /\ Len(came') = Len(iris')
      /\ iris'[n] = "asked" /\ came'[n] = 0
      /\ \A m \in DOMAIN iris : iris'[m] = iris[m] /\ came'[m] = came[m]
  BY <1>1, <1>2
<1> HIDE DEF n
<1>4. /\ n \notin Sent("request") /\ n \notin Sent("cancel") /\ n \notin Held /\ n \notin Planned /\ n \notin strange
  BY <1>1, <1>3 DEF PlaceInv
<1>5. /\ effs' \in Seq(Eff) /\ EffsInv' /\ Sent("request")' = Sent("request") \cup {n}
      /\ Sent("cancel")' = Sent("cancel")
  BY <1>1, <1>2, <1>3, <1>4, EffsAppend
<1>6. Held' = Held /\ Planned' = Planned /\ Distinct(ceq)' = Distinct(ceq) /\ Distinct(plan)' = Distinct(plan)
  BY <1>2 DEF Held, Planned, Distinct
<1>7. CttpTypeOK'
  BY <1>1, <1>2, <1>3, <1>5 DEF CttpTypeOK
<1>8. PlaceInv'
  <2>1. /\ Sent("request") \cup Sent("cancel") \cup Held \cup Planned \cup strange \subseteq DOMAIN iris
        /\ strange' = strange
    BY <1>1, <1>2 DEF PlaceInv
  <2>2. \A m \in DOMAIN iris' : iris'[m] = "asked" => m \in Sent("request")' \cup Held' \cup Planned' \cup strange'
    BY <1>1, <1>3, <1>5, <1>6, <2>1 DEF PlaceInv
  <2>3. \A m \in DOMAIN iris' : iris'[m] = "answered" => m \notin Sent("request")' \cup Held' \cup Planned'
    BY <1>1, <1>3, <1>5, <1>6 DEF PlaceInv
  <2>4. /\ Distinct(ceq)' /\ Distinct(plan)'
        /\ Sent("request")' \cap Held' = {} /\ Sent("request")' \cap Planned' = {} /\ Held' \cap Planned' = {}
        /\ strange' \cap (Sent("request")' \cup Held' \cup Planned') = {}
    BY <1>1, <1>4, <1>5, <1>6, <2>1 DEF PlaceInv
  <2>5. Sent("request")' \cup Sent("cancel")' \cup Held' \cup Planned' \cup strange' \subseteq DOMAIN iris'
    BY <1>3, <1>5, <1>6, <2>1
  <2> QED
    BY ONLY <2>2, <2>3, <2>4, <2>5 DEF PlaceInv
<1>9. CallInv'
  BY <1>1, <1>2, <1>6 DEF CallInv
<1>10. \A q \in Range(ceq) : q.num \in DOMAIN iris /\ q.num # n
  <2>1. \A q \in Range(ceq) : q.num \in Held
    BY DEF Held, Range
  <2> QED
    BY <1>1, <1>3, <2>1 DEF PlaceInv
<1>11. CancelInv'
  <2>1. \A m \in Sent("cancel") \cup Sent("request") : m \in DOMAIN iris
    BY <1>1 DEF PlaceInv
  <2>2. \A m \in Sent("cancel")' : iris'[m] = "cancelled"
    BY <1>1, <1>3, <1>5, <2>1 DEF CancelInv
  <2>3. \A m \in Sent("request")' : iris'[m] = "cancelled" => m \in Sent("cancel")'
    BY <1>1, <1>3, <1>5, <2>1 DEF CancelInv
  <2>4. \A q \in Range(ceq') : q.sat = "quit" <=> iris'[q.num] = "cancelled" /\ q.num \notin Sent("cancel")'
    BY <1>1, <1>2, <1>3, <1>5, <1>10 DEF CancelInv
  <2> QED
    BY <2>2, <2>3, <2>4 DEF CancelInv
<1>12. BodyInv'
  <2>1. \A m \in Sent("request") : m \in DOMAIN iris
    BY <1>1 DEF PlaceInv
  <2>2. \A a \in Range(plan) : a.num \in DOMAIN iris
    <3>1. \A a \in Range(plan) : a.num \in Planned
      BY DEF Planned, Range
    <3> QED
      BY <1>1, <3>1 DEF PlaceInv
  <2>3. \A q \in Range(ceq') : q.res = Upto(came'[q.num])
    BY <1>1, <1>2, <1>3, <1>10 DEF BodyInv
  <2>4. \A m \in Sent("request")' : came'[m] = 0
    BY <1>1, <1>3, <1>5, <2>1 DEF BodyInv
  <2>5. \A a \in Range(plan') : a.bod = IF a.sas = 504 THEN << >> ELSE Upto(came'[a.num])
    BY <1>1, <1>2, <1>3, <2>2 DEF BodyInv
  <2> QED
    BY <2>3, <2>4, <2>5 DEF BodyInv
<1> QED
  BY <1>5, <1>7, <1>8, <1>9, <1>11, <1>12 DEF CttpInv

\* may cancel it while it waits,
LEMMA IrisCancelInv == CttpInv /\ IrisCancel => CttpInv'
<1> SUFFICES ASSUME CttpInv, IrisCancel PROVE CttpInv'
  OBVIOUS
<1>1. /\ CttpTypeOK /\ EffsInv /\ PlaceInv /\ CallInv /\ CancelInv /\ BodyInv
      /\ effs \in Seq(Eff) /\ iris \in Seq({"asked", "answered", "cancelled"})
      /\ came \in Seq(Nat) /\ Len(came) = Len(iris)
  BY DEF CttpInv, CttpTypeOK
<1>2. PICK n \in DOMAIN iris :
        /\ iris[n] = "asked" /\ iris' = [iris EXCEPT ![n] = "cancelled"]
        /\ effs' = Append(effs, [tag |-> "cancel", num |-> n])
        /\ UNCHANGED <<ceq, adr, cli, came, plan, strange>>
  BY DEF IrisCancel
<1>3. /\ n \in Nat /\ DOMAIN iris' = DOMAIN iris /\ iris' \in Seq({"asked", "answered", "cancelled"})
      /\ Len(came') = Len(iris') /\ iris'[n] = "cancelled"
      /\ \A m \in DOMAIN iris : m # n => iris'[m] = iris[m]
  BY <1>1, <1>2
<1>4. n \notin Sent("cancel")
  BY <1>1, <1>2 DEF CancelInv
<1>5. /\ effs' \in Seq(Eff) /\ EffsInv' /\ Sent("request")' = Sent("request")
      /\ Sent("cancel")' = Sent("cancel") \cup {n}
  <2>1. "cancel" \in {"request", "cancel"} /\ ("cancel" = "request" => n \notin Sent("cancel"))
    OBVIOUS
  <2> QED
    BY <1>1, <1>2, <1>3, <1>4, <2>1, EffsAppend
<1>6. Held' = Held /\ Planned' = Planned /\ Distinct(ceq)' = Distinct(ceq) /\ Distinct(plan)' = Distinct(plan)
  BY <1>2 DEF Held, Planned, Distinct
<1>7. CttpTypeOK'
  BY <1>1, <1>2, <1>3, <1>5 DEF CttpTypeOK
<1>8. PlaceInv'
  <2>1. /\ Sent("request") \cup Sent("cancel") \cup Held \cup Planned \cup strange \subseteq DOMAIN iris
        /\ strange' = strange
    BY <1>1, <1>2 DEF PlaceInv
  <2>2. \A m \in DOMAIN iris' : iris'[m] = "asked" => m \in Sent("request")' \cup Held' \cup Planned' \cup strange'
    BY <1>1, <1>3, <1>5, <1>6, <2>1 DEF PlaceInv
  <2>3. \A m \in DOMAIN iris' : iris'[m] = "answered" => m \notin Sent("request")' \cup Held' \cup Planned'
    BY <1>1, <1>3, <1>5, <1>6 DEF PlaceInv
  <2>4. /\ Distinct(ceq)' /\ Distinct(plan)'
        /\ Sent("request")' \cap Held' = {} /\ Sent("request")' \cap Planned' = {} /\ Held' \cap Planned' = {}
        /\ strange' \cap (Sent("request")' \cup Held' \cup Planned') = {}
    BY <1>1, <1>5, <1>6, <2>1 DEF PlaceInv
  <2>5. Sent("request")' \cup Sent("cancel")' \cup Held' \cup Planned' \cup strange' \subseteq DOMAIN iris'
    BY <1>2, <1>3, <1>5, <1>6, <2>1
  <2> QED
    BY ONLY <2>2, <2>3, <2>4, <2>5 DEF PlaceInv
<1>9. CallInv'
  BY <1>1, <1>2, <1>6 DEF CallInv
<1>11. CancelInv'
  <2>1. \A m \in Sent("cancel") \cup Sent("request") : m \in DOMAIN iris
    BY <1>1 DEF PlaceInv
  <2>2. \A m \in Sent("cancel")' : iris'[m] = "cancelled"
    BY <1>1, <1>3, <1>5, <2>1 DEF CancelInv
  <2>3. \A m \in Sent("request")' : iris'[m] = "cancelled" => m \in Sent("cancel")'
    BY <1>1, <1>3, <1>5, <2>1 DEF CancelInv
  <2>4. \A q \in Range(ceq) : q.num \in DOMAIN iris
    <3>1. \A q \in Range(ceq) : q.num \in Held
      BY DEF Held, Range
    <3> QED
      BY <1>1, <3>1 DEF PlaceInv
  <2>5. ASSUME NEW q \in Range(ceq)
        PROVE  q.sat = "quit" <=> iris'[q.num] = "cancelled" /\ q.num \notin Sent("cancel")'
    <3>1. CASE q.num = n
      <4>1. q.sat # "quit"
        BY <1>1, <1>2, <3>1 DEF CancelInv
      <4> QED
        BY <1>5, <3>1, <4>1
    <3>2. CASE q.num # n
      BY <1>1, <1>3, <1>5, <2>4, <3>2 DEF CancelInv
    <3> QED
      BY <3>1, <3>2
  <2> QED
    BY <1>2, <2>2, <2>3, <2>5 DEF CancelInv
<1>12. BodyInv'
  BY <1>1, <1>2, <1>5 DEF BodyInv
<1> QED
  BY <1>5, <1>7, <1>8, <1>9, <1>11, <1>12 DEF CttpInv

\* and hears the answer.
LEMMA IrisReceiveInv == CttpInv /\ IrisReceive => CttpInv'
<1> SUFFICES ASSUME CttpInv, IrisReceive PROVE CttpInv'
  OBVIOUS
<1> DEFINE n == Head(plan).num
<1>1. /\ CttpTypeOK /\ EffsInv /\ PlaceInv /\ CallInv /\ CancelInv /\ BodyInv
      /\ plan \in Seq(Cres) /\ Distinct(plan) /\ iris \in Seq({"asked", "answered", "cancelled"})
      /\ came \in Seq(Nat) /\ Len(came) = Len(iris)
  BY DEF CttpInv, CttpTypeOK, PlaceInv
<1>2. /\ plan # << >> /\ plan' = Tail(plan)
      /\ iris' = [iris EXCEPT ![n] = IF @ = "asked" THEN "answered" ELSE @]
      /\ UNCHANGED <<effs, ceq, adr, cli, came, strange>>
  BY DEF IrisReceive
<1>3. /\ plan' \in Seq(Cres) /\ Distinct(plan)' /\ Range(plan') \subseteq Range(plan)
      /\ n \in Planned /\ Planned' = Planned \ {n}
  BY <1>1, <1>2, PlanTail
<1> HIDE DEF n
<1>4. n \in DOMAIN iris /\ n \notin Held /\ n \notin Sent("request") /\ n \notin strange
  BY <1>1, <1>3 DEF PlaceInv
<1>5. /\ DOMAIN iris' = DOMAIN iris /\ iris' \in Seq({"asked", "answered", "cancelled"})
      /\ Len(came') = Len(iris') /\ iris'[n] # "asked"
      /\ iris'[n] = "cancelled" <=> iris[n] = "cancelled"
      /\ \A m \in DOMAIN iris : m # n => iris'[m] = iris[m]
  BY <1>1, <1>2, <1>4
<1>6. /\ effs' \in Seq(Eff) /\ EffsInv' /\ Sent("request")' = Sent("request")
      /\ Sent("cancel")' = Sent("cancel")
  BY <1>2, QuietEffs
<1>7. Held' = Held /\ Distinct(ceq)' = Distinct(ceq)
  BY <1>2 DEF Held, Distinct
<1>8. CttpTypeOK'
  BY <1>1, <1>2, <1>3, <1>5, <1>6 DEF CttpTypeOK
<1>9. PlaceInv'
  <2>1. /\ Sent("request") \cup Sent("cancel") \cup Held \cup Planned \cup strange \subseteq DOMAIN iris
        /\ strange' = strange
    BY <1>1, <1>2 DEF PlaceInv
  <2>2. \A m \in DOMAIN iris' : iris'[m] = "asked" => m \in Sent("request")' \cup Held' \cup Planned' \cup strange'
    BY <1>1, <1>3, <1>5, <1>6, <1>7, <2>1 DEF PlaceInv
  <2>3. \A m \in DOMAIN iris' : iris'[m] = "answered" => m \notin Sent("request")' \cup Held' \cup Planned'
    BY <1>1, <1>3, <1>4, <1>5, <1>6, <1>7 DEF PlaceInv
  <2>4. /\ Distinct(ceq)' /\ Distinct(plan)'
        /\ Sent("request")' \cap Held' = {} /\ Sent("request")' \cap Planned' = {} /\ Held' \cap Planned' = {}
        /\ strange' \cap (Sent("request")' \cup Held' \cup Planned') = {}
    BY <1>1, <1>3, <1>6, <1>7, <2>1 DEF PlaceInv
  <2>5. Sent("request")' \cup Sent("cancel")' \cup Held' \cup Planned' \cup strange' \subseteq DOMAIN iris'
    BY <1>3, <1>5, <1>6, <1>7, <2>1
  <2> QED
    BY ONLY <2>2, <2>3, <2>4, <2>5 DEF PlaceInv
<1>10. CallInv'
  BY <1>1, <1>2, <1>7 DEF CallInv
<1>11. CancelInv'
  <2>1. \A m \in DOMAIN iris : iris'[m] = "cancelled" <=> iris[m] = "cancelled"
    BY <1>5
  <2>2. \A q \in Range(ceq) : q.num \in DOMAIN iris
    <3>1. \A q \in Range(ceq) : q.num \in Held
      BY DEF Held, Range
    <3> QED
      BY <1>1, <3>1 DEF PlaceInv
  <2>3. \A m \in Sent("cancel") \cup Sent("request") : m \in DOMAIN iris
    BY <1>1 DEF PlaceInv
  <2> QED
    BY <1>1, <1>2, <1>6, <2>1, <2>2, <2>3 DEF CancelInv
<1>12. BodyInv'
  BY <1>1, <1>2, <1>3, <1>6 DEF BodyInv
<1> QED
  BY <1>6, <1>8, <1>9, <1>10, <1>11, <1>12 DEF CttpInv

\* Nothing has been asked for yet.
LEMMA CttpInitInv == CttpInit => CttpInv
<1> SUFFICES ASSUME CttpInit PROVE CttpInv
  OBVIOUS
<1>1. /\ iris = << >> /\ effs = << >> /\ ceq = << >> /\ adr = {} /\ cli = << >>
      /\ came = << >> /\ plan = << >> /\ strange = {}
  BY DEF CttpInit
<1>2. DOMAIN iris = {} /\ DOMAIN effs = {} /\ DOMAIN ceq = {} /\ DOMAIN cli = {} /\ DOMAIN plan = {}
  BY <1>1
<1>3. Held = {} /\ Planned = {} /\ Range(ceq) = {} /\ Range(plan) = {} /\ \A tag : Sent(tag) = {}
  BY <1>2 DEF Held, Planned, Range, Sent
<1>4. CttpTypeOK
  BY <1>1 DEF CttpTypeOK
<1>5. EffsInv /\ CallInv /\ CancelInv /\ BodyInv
  BY <1>1, <1>2, <1>3 DEF EffsInv, CallInv, CancelInv, BodyInv
<1>6. PlaceInv
  BY <1>1, <1>2, <1>3 DEF PlaceInv, Distinct
<1> QED
  BY <1>4, <1>5, <1>6 DEF CttpInv

\* Each step keeps the invariant.
LEMMA CttpNextInv == CttpInv /\ [CttpNext]_cttpVars => CttpInv'
<1> SUFFICES ASSUME CttpInv, [CttpNext]_cttpVars PROVE CttpInv'
  OBVIOUS
<1>1. CASE EfRequest
  BY <1>1, RequestStep
<1>2. CASE EfCancel
  BY <1>2, CancelStep
<1>3. CASE ResolveCb
  BY <1>3, ResolveCbInv
<1>4. CASE OnError \/ OnConnect \/ OnHead \/ OnBody
  BY <1>4, ClientInv
<1>5. CASE IrisRequest
  BY <1>5, IrisRequestInv
<1>6. CASE IrisCancel
  BY <1>6, IrisCancelInv
<1>7. CASE IrisReceive
  BY <1>7, IrisReceiveInv
<1>8. CASE UNCHANGED cttpVars
  <2>1. UNCHANGED <<iris, effs, ceq, adr, cli, came, plan, strange>>
    BY <1>8 DEF cttpVars
  <2>2. /\ effs' \in Seq(Eff) /\ EffsInv' /\ Sent("request")' = Sent("request")
        /\ Sent("cancel")' = Sent("cancel")
    BY <2>1, QuietEffs
  <2>3. Held' = Held /\ Planned' = Planned /\ Distinct(ceq)' = Distinct(ceq) /\ Distinct(plan)' = Distinct(plan)
    BY <2>1 DEF Held, Planned, Distinct
  <2>4. CttpTypeOK'
    BY <2>1 DEF CttpInv, CttpTypeOK
  <2>5. PlaceInv'
    BY <2>1, <2>2, <2>3 DEF CttpInv, PlaceInv
  <2>6. CallInv' /\ CancelInv' /\ BodyInv'
    BY <2>1, <2>2, <2>3 DEF CttpInv, CallInv, CancelInv, BodyInv
  <2> QED
    BY <2>2, <2>4, <2>5, <2>6 DEF CttpInv
<1> QED
  BY <1>1, <1>2, <1>3, <1>4, <1>5, <1>6, <1>7, <1>8 DEF CttpNext

\* A set of one thing at most.
LEMMA CountOne ==
  ASSUME NEW I, \A i, j \in I : i = j
  PROVE  Cardinality(I) = IF I = {} THEN 0 ELSE 1
<1>1. CASE I = {}
  BY <1>1, FS_EmptySet
<1>2. CASE I # {}
  <2>1. PICK i : i \in I
    BY <1>2
  <2>2. I = {i}
    BY <2>1
  <2> QED
    BY <1>2, <2>2, FS_Singleton
<1> QED
  BY <1>1, <1>2

\* How often a number is among those of a list that has it once at most.
LEMMA AmongOne ==
  ASSUME NEW s, Distinct(s), NEW n
  PROVE  Cardinality({i \in DOMAIN s : s[i].num = n}) =
           IF n \in {s[i].num : i \in DOMAIN s} THEN 1 ELSE 0
<1> DEFINE I == {i \in DOMAIN s : s[i].num = n}
<1>1. \A i, j \in I : i = j
  BY DEF Distinct
<1>2. I = {} <=> n \notin {s[i].num : i \in DOMAIN s}
  OBVIOUS
<1> HIDE DEF I
<1>3. Cardinality(I) = IF I = {} THEN 0 ELSE 1
  BY <1>1, CountOne
<1> QED
  BY <1>2, <1>3 DEF I

\* How often an effect is on its way.
LEMMA EffOnce ==
  ASSUME effs \in Seq(Eff), EffsInv, NEW tag \in {"request", "cancel"}, NEW n
  PROVE  Cardinality({i \in DOMAIN effs : effs[i] = [tag |-> tag, num |-> n]}) =
           IF n \in Sent(tag) THEN 1 ELSE 0
<1> DEFINE I == {i \in DOMAIN effs : effs[i] = [tag |-> tag, num |-> n]}
<1>1. \A i \in I : i \in DOMAIN effs /\ effs[i].tag = tag /\ effs[i].num = n
  OBVIOUS
<1>2. \A i, j \in I : i = j
  BY <1>1 DEF EffsInv
<1>3. ASSUME NEW i \in DOMAIN effs, effs[i].tag = tag, effs[i].num = n PROVE i \in I
  <2>1. effs[i] \in Eff
    OBVIOUS
  <2>2. effs[i] = [tag |-> tag, num |-> n]
    BY <1>3, <2>1 DEF Eff
  <2> QED
    BY <2>2
<1> HIDE DEF I
<1>4. I = {} <=> n \notin Sent(tag)
  BY <1>1, <1>3 DEF Sent
<1>5. Cardinality(I) = IF I = {} THEN 0 ELSE 1
  BY <1>2, CountOne
<1> QED
  BY <1>4, <1>5 DEF I

\* What the books say of a request.
LEMMA CttpInvImplies == CttpInv => IrisIsAnswered
<1> SUFFICES ASSUME CttpInv PROVE IrisIsAnswered
  OBVIOUS
<1> DEFINE among(n, seq) == Cardinality({i \in DOMAIN seq : seq[i].num = n})
           asked(n) == Cardinality({i \in DOMAIN effs : effs[i] = [tag |-> "request", num |-> n]})
           cancels(n) == Cardinality({i \in DOMAIN effs : effs[i] = [tag |-> "cancel", num |-> n]})
<1>1. /\ effs \in Seq(Eff) /\ EffsInv /\ PlaceInv /\ CallInv /\ CancelInv /\ BodyInv
      /\ Distinct(ceq) /\ Distinct(plan)
  BY DEF CttpInv, CttpTypeOK, PlaceInv
<1>2. ASSUME NEW n \in Held
      PROVE  /\ Find(n).sat \in {"addr", "quit"} <=> n \in adr
             /\ Find(n).sat = "ripe" <=> n \in DOMAIN cli
             /\ Find(n).sat = "quit" <=> iris[n] = "cancelled" /\ n \notin Sent("cancel")
             /\ n \in adr \/ n \in DOMAIN cli
  <2>1. PICK r \in Range(ceq) :
           /\ r.num = n /\ Find(n) = r /\ r \in Creq /\ r.res = Upto(came[n]) /\ n \in DOMAIN came
           /\ r.sat \in {"addr", "quit"} <=> n \in adr
           /\ r.sat = "ripe" <=> n \in DOMAIN cli
           /\ r.sat = "quit" <=> iris[n] = "cancelled" /\ n \notin Sent("cancel")
           /\ came[n] \in Nat
    BY HeldFacts
  <2>2. r.sat \in {"addr", "quit", "ripe"}
    BY <1>1, <2>1 DEF CallInv, Creq
  <2> QED
    BY <2>1, <2>2
<1>3. adr = {n \in Held : Find(n).sat \in {"addr", "quit"}}
  BY <1>1, <1>2 DEF CallInv
<1>4. DOMAIN cli = {n \in Held : Find(n).sat = "ripe"}
  BY <1>1, <1>2 DEF CallInv
<1>5. Held = adr \cup DOMAIN cli
  BY <1>1, <1>2 DEF CallInv
<1>6. ASSUME NEW n \in DOMAIN iris
      PROVE  /\ asked(n) = IF n \in Sent("request") THEN 1 ELSE 0
             /\ cancels(n) = IF n \in Sent("cancel") THEN 1 ELSE 0
             /\ among(n, ceq) = IF n \in Held THEN 1 ELSE 0
             /\ among(n, plan) = IF n \in Planned THEN 1 ELSE 0
  <2>1. asked(n) = IF n \in Sent("request") THEN 1 ELSE 0
    BY <1>1, EffOnce
  <2>2. cancels(n) = IF n \in Sent("cancel") THEN 1 ELSE 0
    BY <1>1, EffOnce
  <2>3. among(n, ceq) = IF n \in Held THEN 1 ELSE 0
    BY <1>1, AmongOne DEF Held
  <2>4. among(n, plan) = IF n \in Planned THEN 1 ELSE 0
    BY <1>1, AmongOne DEF Planned
  <2> QED
    BY <2>1, <2>2, <2>3, <2>4
<1> HIDE DEF asked, cancels, among
<1>7. ASSUME NEW n \in DOMAIN iris
      PROVE  /\ asked(n) + among(n, ceq) + among(n, plan) <= 1
             /\ iris[n] = "asked" =>
                  asked(n) + among(n, ceq) + among(n, plan) = (IF n \in strange THEN 0 ELSE 1)
             /\ iris[n] = "answered" => asked(n) + among(n, ceq) + among(n, plan) = 0
             /\ iris[n] = "cancelled" /\ cancels(n) = 0 /\ n \in Held => Find(n).sat = "quit"
  <2>1. /\ ~ (n \in Sent("request") /\ n \in Held) /\ ~ (n \in Sent("request") /\ n \in Planned)
        /\ ~ (n \in Held /\ n \in Planned)
        /\ n \in strange => n \notin Sent("request") /\ n \notin Held /\ n \notin Planned
        /\ iris[n] = "asked" => n \in Sent("request") \/ n \in Held \/ n \in Planned \/ n \in strange
        /\ iris[n] = "answered" => n \notin Sent("request") /\ n \notin Held /\ n \notin Planned
    BY <1>1 DEF PlaceInv
  <2>2. iris[n] = "cancelled" /\ n \notin Sent("cancel") /\ n \in Held => Find(n).sat = "quit"
    BY <1>2
  <2>3. asked(n) + among(n, ceq) + among(n, plan) <= 1
    BY <1>6, <2>1
  <2>4. iris[n] = "asked" => asked(n) + among(n, ceq) + among(n, plan) = (IF n \in strange THEN 0 ELSE 1)
    BY <1>6, <2>1
  <2>5. iris[n] = "answered" => asked(n) + among(n, ceq) + among(n, plan) = 0
    BY <1>6, <2>1
  <2>6. cancels(n) = 0 => n \notin Sent("cancel")
    BY <1>6
  <2> QED
    BY <2>2, <2>3, <2>4, <2>5, <2>6
<1>8. ASSUME NEW i \in DOMAIN plan
      PROVE  plan[i].bod = (IF plan[i].sas = 504 THEN << >> ELSE [k \in 1 .. came[plan[i].num] |-> k])
  <2>1. plan[i] \in Range(plan)
    BY DEF Range
  <2> QED
    BY <1>1, <2>1 DEF BodyInv, Upto
<1> QED
  BY <1>3, <1>4, <1>5, <1>7, <1>8 DEF IrisIsAnswered, asked, cancels, among

\* The books of requests, lookups, connections and answers are right (vere/io/cttp.c).
THEOREM CttpInvariant == CttpSpec => []CttpInv
BY CttpInitInv, CttpNextInv, PTL DEF CttpSpec

\* Every callback finds its request, and a request that %iris waits for is in one place
\* only and answered once, with all of its body (vere/io/cttp.c).
THEOREM CttpIrisIsAnswered == CttpSpec => []IrisIsAnswered
BY CttpInvariant, CttpInvImplies, PTL
-----------------------------------------------------------------------------
(* The control socket.                                                     *)

Chan == [is : {"open", "closing", "freed"}, ran : Seq(Nat), sent : Seq(Nat)]
Req  == [kind : {"peek", "ovum", "fyrd", "peel"}, of : Nat, can : Nat, held : BOOLEAN]

\* Channels and requests are numbered from 1.
ConnTypeOK ==
  /\ chan \in Seq(Chan) /\ req \in Seq(Req)
  /\ \A r \in DOMAIN req : req[r].of \in DOMAIN chan
  /\ san \in Seq(Nat) /\ dones \in Seq(Nat)
  /\ kan \in BOOLEAN /\ born \in BOOLEAN

\* The list has the open channels, the newest first.
SanInv ==
  /\ Range(san) = {c \in DOMAIN chan : chan[c].is = "open"}
  /\ \A i, j \in DOMAIN san : i < j => san[i] > san[j]

\* Those whose end %khan will hear of, once, are no longer in it.
DonesInv ==
  /\ \A i \in DOMAIN dones : dones[i] \in DOMAIN chan
  /\ \A i, j \in DOMAIN dones : dones[i] \notin Range(san) /\ (dones[i] = dones[j] => i = j)

\* A channel's list has requests of its own only, and all that hold it.
RanInv ==
  /\ \A c \in DOMAIN chan : \A i \in DOMAIN chan[c].ran :
       chan[c].ran[i] \in DOMAIN req /\ req[chan[c].ran[i]].of = c
  /\ \A r \in DOMAIN req : req[r].held /\ req[r].kind # "fyrd" /\ req[r].of \in Range(san) =>
       r \in Range(chan[req[r].of].ran)

\* What was sent answers requests that were made,
SentInv == \A c \in DOMAIN chan : \A i \in DOMAIN chan[c].sent :
             chan[c].sent[i] = 0 \/ chan[c].sent[i] \in DOMAIN req

\* each on its own channel, and once if that is open.
Answered(chs, rqs) ==
  \A r \in DOMAIN rqs : \A c \in DOMAIN chs :
       LET answers == Count(chs[c].sent, r) IN
       /\ c # rqs[r].of => answers = 0
       /\ c = rqs[r].of /\ chs[c].is = "open" => answers = (IF rqs[r].held THEN 0 ELSE 1)

\* A request that is held has its channel as long as that is open.
CanInv ==
  \A r \in DOMAIN req : req[r].held /\ req[r].kind # "fyrd" =>
       req[r].can = (IF req[r].of \in Range(san) THEN req[r].of ELSE NoChan)

ConnInv == /\ ConnTypeOK /\ SanInv /\ DonesInv /\ RanInv /\ SentInv
           /\ Answered(chan, req) /\ CanInv /\ wild = FALSE

\* The property is part of the invariant.
LEMMA ConnInvImplies == ConnInv => ClientsAreAnswered
BY DEF ConnInv, SanInv, DonesInv, Answered, CanInv, ClientsAreAnswered

\* At first there is nothing.
LEMMA ConnInitInv == ConnInit => ConnInv
<1> SUFFICES ASSUME ConnInit PROVE ConnInv
  OBVIOUS
<1>1. DOMAIN chan = {} /\ DOMAIN req = {} /\ chan \in Seq(Chan) /\ req \in Seq(Req)
  BY DEF ConnInit
<1>2. Range(san) = {} /\ DOMAIN san = {} /\ DOMAIN dones = {}
  BY DEF ConnInit, Range
<1>3. ConnTypeOK
  <2>1. san \in Seq(Nat) /\ dones \in Seq(Nat)
    BY DEF ConnInit
  <2>2. kan \in BOOLEAN /\ born \in BOOLEAN
    BY DEF ConnInit
  <2> QED
    BY <1>1, <2>1, <2>2 DEF ConnTypeOK
<1> QED
  BY <1>1, <1>2, <1>3 DEF ConnInit, ConnInv, SanInv, DonesInv, RanInv, SentInv, Answered, CanInv

\* A channel's lists are lists of numbers.
LEMMA ChanType ==
  ASSUME NEW C \in Seq(Chan), NEW c \in DOMAIN C
  PROVE  /\ C[c] \in Chan /\ C[c].ran \in Seq(Nat) /\ C[c].sent \in Seq(Nat)
         /\ \A x \in Nat : Append(C[c].sent, x) \in Seq(Nat)
<1>1. C[c] \in Chan
  OBVIOUS
<1>2. C[c].ran \in Seq(Nat) /\ C[c].sent \in Seq(Nat)
  BY <1>1 DEF Chan
<1> QED
  BY <1>1, <1>2

\* One channel of the list changes.
LEMMA ChanSet ==
  ASSUME NEW C \in Seq(Chan), NEW c \in DOMAIN C, NEW v \in Chan
  PROVE  [C EXCEPT ![c] = v] \in Seq(Chan)
OBVIOUS

\* A new channel has no requests.
LEMMA SockCbInv == ConnInv /\ SockCb => ConnInv'
<1> SUFFICES ASSUME ConnInv, SockCb PROVE ConnInv'
  OBVIOUS
<1> DEFINE c == Len(chan) + 1
           v == [is |-> "open", ran |-> << >>, sent |-> << >>]
<1>1. chan \in Seq(Chan) /\ Len(chan) \in Nat /\ DOMAIN chan = 1 .. Len(chan) /\ v \in Chan
  BY DEF ConnInv, ConnTypeOK, Chan
<1>2. /\ san' = <<c>> \o san /\ UNCHANGED <<req, dones, kan, born, wild>>
      /\ chan' = Append(chan, v)
  BY DEF SockCb
<1>3. /\ DOMAIN chan' = 1 .. c /\ c \notin DOMAIN chan /\ c \in DOMAIN chan' /\ c \in Nat
      /\ chan'[c] = [is |-> "open", ran |-> << >>, sent |-> << >>]
      /\ \A d \in DOMAIN chan : d \in DOMAIN chan' /\ d # c /\ chan'[d] = chan[d] /\ d < c
      /\ \A d \in DOMAIN chan' : d = c \/ d \in DOMAIN chan
      /\ chan' \in Seq(Chan)
  BY ONLY <1>1, <1>2
<1> HIDE DEF c
<1>4. /\ san \in Seq(Nat) /\ Len(san) \in Nat
      /\ Range(san) = {d \in DOMAIN chan : chan[d].is = "open"}
      /\ \A i, j \in DOMAIN san : i < j => san[i] > san[j]
  BY DEF ConnInv, ConnTypeOK, SanInv
<1>5. /\ san' \in Seq(Nat) /\ DOMAIN san' = 1 .. Len(san) + 1 /\ san'[1] = c
      /\ \A i \in 1 .. Len(san) : san'[i + 1] = san[i]
  BY <1>2, <1>3, <1>4
<1>6. Range(san') = {c} \cup Range(san)
  <2>1. ASSUME NEW i \in DOMAIN san' PROVE san'[i] \in {c} \cup Range(san)
    <3>1. CASE i = 1
      BY <1>5, <3>1
    <3>2. CASE i # 1
      <4>1. PICK k \in 1 .. Len(san) : i = k + 1
        BY <1>4, <1>5, <3>2, AfterFirst
      <4>2. san'[i] = san[k] /\ k \in DOMAIN san
        BY <1>4, <1>5, <4>1
      <4> QED
        BY <4>2 DEF Range
    <3> QED
      BY <3>1, <3>2
  <2>2. c \in Range(san')
    BY <1>4, <1>5 DEF Range
  <2>3. ASSUME NEW k \in DOMAIN san PROVE san[k] \in Range(san')
    <3>1. k \in 1 .. Len(san) /\ k + 1 \in DOMAIN san'
      BY <1>4, <1>5
    <3> QED
      BY <1>5, <3>1 DEF Range
  <2> QED
    BY <2>1, <2>2, <2>3 DEF Range
<1>7. ConnTypeOK'
  BY <1>2, <1>3, <1>5 DEF ConnInv, ConnTypeOK
<1>8. SanInv'
  <2>1. Range(san') = {d \in DOMAIN chan' : chan'[d].is = "open"}
    BY <1>3, <1>4, <1>6
  <2>2. ASSUME NEW i \in DOMAIN san', NEW j \in DOMAIN san', i < j
        PROVE  san'[i] > san'[j]
    <3>5. j # 1
      BY <1>4, <1>5, <2>2
    <3>1. PICK l \in 1 .. Len(san) : j = l + 1
      BY <1>4, <1>5, <3>5, AfterFirst
    <3>2. san'[j] = san[l] /\ san[l] \in Range(san) /\ san[l] \in Nat
      BY <1>4, <1>5, <3>1 DEF Range
    <3>3. CASE i = 1
      BY <1>3, <1>4, <1>5, <3>2, <3>3
    <3>4. CASE i # 1
      <4>1. PICK k \in 1 .. Len(san) : i = k + 1
        BY <1>4, <1>5, <3>4, AfterFirst
      <4>2. k \in DOMAIN san /\ l \in DOMAIN san /\ k < l
        BY <1>4, <2>2, <3>1, <4>1
      <4> QED
        BY <1>4, <1>5, <3>2, <4>1, <4>2
    <3> QED
      BY <3>3, <3>4
  <2> QED
    BY <2>1, <2>2 DEF SanInv
<1>9. DonesInv'
  BY <1>2, <1>3, <1>6 DEF ConnInv, DonesInv
<1>10. RanInv'
  <2>1. ASSUME NEW d \in DOMAIN chan', NEW i \in DOMAIN chan'[d].ran
        PROVE  chan'[d].ran[i] \in DOMAIN req' /\ req'[chan'[d].ran[i]].of = d
    BY <1>2, <1>3, <2>1 DEF ConnInv, RanInv
  <2>2. ASSUME NEW r \in DOMAIN req', req'[r].held, req'[r].kind # "fyrd", req'[r].of \in Range(san')
        PROVE  r \in Range(chan'[req'[r].of].ran)
    <3>1. req[r].of \in DOMAIN chan
      BY <1>2 DEF ConnInv, ConnTypeOK
    <3> QED
      BY <1>2, <1>3, <1>6, <2>2, <3>1 DEF ConnInv, RanInv
  <2> QED
    BY <2>1, <2>2 DEF RanInv
<1>11. SentInv'
  BY <1>2, <1>3 DEF ConnInv, SentInv
<1>12. Answered(chan, req)'
  <2>1. ASSUME NEW r \in DOMAIN req
        PROVE  Count(chan'[c].sent, r) = 0 /\ c # req[r].of
    <3>1. DOMAIN chan'[c].sent = {}
      BY <1>3
    <3>2. Count(chan'[c].sent, r) = 0
      BY <3>1, CountNone
    <3>3. req[r].of \in DOMAIN chan
      BY DEF ConnInv, ConnTypeOK
    <3> QED
      BY <1>3, <3>2, <3>3
  <2> QED
    BY <1>2, <1>3, <2>1 DEF ConnInv, Answered
<1>13. CanInv'
  <2>1. \A r \in DOMAIN req : req[r].of # c
    BY <1>3 DEF ConnInv, ConnTypeOK
  <2> QED
    BY <1>2, <1>6, <2>1 DEF ConnInv, CanInv
<1> QED
  BY <1>2, <1>7, <1>8, <1>9, <1>10, <1>11, <1>12, <1>13 DEF ConnInv

\* A channel that closes leaves its requests without one.
LEMMA CloseInv ==
  ASSUME ConnInv, NEW c \in Range(san), NEW chs, chs = chan \/ chs = SendNoun(chan, c, 0),
         CloseChan(c, chs), UNCHANGED <<kan, born, wild>>
  PROVE  ConnInv'
<1>1. /\ chan \in Seq(Chan) /\ req \in Seq(Req) /\ san \in Seq(Nat) /\ dones \in Seq(Nat)
      /\ \A r \in DOMAIN req : req[r].of \in DOMAIN chan
      /\ kan \in BOOLEAN /\ born \in BOOLEAN
  BY DEF ConnInv, ConnTypeOK
<1>2. c \in DOMAIN chan /\ chan[c].is = "open" /\ c \in Nat
  BY <1>1 DEF ConnInv, SanInv
<1>3. /\ DOMAIN chan' = DOMAIN chan
      /\ chan'[c].is = "closing" /\ chan'[c].ran = chan[c].ran
      /\ chan'[c].sent = chan[c].sent \/ chan'[c].sent = Append(chan[c].sent, 0)
      /\ \A d \in DOMAIN chan : d # c => chan'[d] = chan[d]
      /\ chan' \in Seq(Chan)
  <2>1. /\ DOMAIN chs = DOMAIN chan /\ chs \in Seq(Chan)
        /\ chs[c].ran = chan[c].ran
        /\ chs[c].sent = chan[c].sent \/ chs[c].sent = Append(chan[c].sent, 0)
        /\ \A d \in DOMAIN chan : d # c => chs[d] = chan[d]
    <3>1. CASE chs = chan
      BY <1>1, <3>1
    <3>2. CASE chs = [chan EXCEPT ![c].sent = Append(@, 0)]
      <4>1. chan[c] \in Chan /\ Append(chan[c].sent, 0) \in Seq(Nat)
        BY <1>1, <1>2, ChanType
      <4>2. [chan[c] EXCEPT !.sent = Append(@, 0)] \in Chan
        BY <4>1 DEF Chan
      <4>3. chs \in Seq(Chan)
        BY <1>1, <1>2, <3>2, <4>2
      <4> QED
        BY <1>1, <1>2, <3>2, <4>1, <4>3 DEF Chan
    <3> QED
      BY <3>1, <3>2 DEF SendNoun
  <2>2. chan' = [chs EXCEPT ![c].is = "closing"]
    BY DEF CloseChan
  <2>3. chs[c] \in Chan
    BY <1>2, <2>1
  <2>4. [chs[c] EXCEPT !.is = "closing"] \in Chan
    BY <2>3 DEF Chan
  <2>5. chan' \in Seq(Chan)
    BY <1>2, <2>1, <2>2, <2>4
  <2> QED
    BY <1>2, <2>1, <2>2, <2>3, <2>5 DEF Chan
<1>4. /\ DOMAIN req' = DOMAIN req /\ req' \in Seq(Req)
      /\ \A r \in DOMAIN req :
           /\ req'[r].kind = req[r].kind /\ req'[r].of = req[r].of /\ req'[r].held = req[r].held
           /\ r \in Range(chan[c].ran) => req'[r].can = NoChan
           /\ r \notin Range(chan[c].ran) => req'[r].can = req[r].can
  <2>1. req' = [r \in DOMAIN req |-> IF r \in Range(chan[c].ran) THEN [req[r] EXCEPT !.can = NoChan]
                                     ELSE req[r]]
    BY DEF CloseChan, Unset
  <2>2. ASSUME NEW r \in DOMAIN req PROVE req[r] \in Req /\ [req[r] EXCEPT !.can = NoChan] \in Req
    <3>1. req[r] \in Req
      BY <1>1
    <3> QED
      BY <3>1 DEF Req, NoChan
  <2>3. DOMAIN req = 1 .. Len(req) /\ Len(req) \in Nat
    BY <1>1
  <2>4. req' \in Seq(Req)
    BY <2>1, <2>2, <2>3
  <2> QED
    BY <2>1, <2>2, <2>4 DEF Req
<1>5. /\ san' \in Seq(Nat) /\ Range(san') = Range(san) \ {c}
      /\ \A i, j \in DOMAIN san' : i < j => san'[i] > san'[j]
  <2>1. san' = RemoveFirst(san, c) /\ \A i, j \in DOMAIN san : i < j => san[i] > san[j]
    BY DEF CloseChan, ConnInv, SanInv
  <2> QED
    BY <1>1, <2>1, RemoveRange, RemoveDescending
<1>6. UNCHANGED <<kan, born, wild>> /\ dones' = IF kan THEN Append(dones, c) ELSE dones
  BY DEF CloseChan
<1>7. ConnTypeOK'
  BY <1>1, <1>2, <1>3, <1>4, <1>5, <1>6 DEF ConnTypeOK
<1>8. SanInv'
  BY <1>2, <1>3, <1>5 DEF ConnInv, SanInv
<1>9. DonesInv'
  <2>1. CASE ~kan
    BY <1>3, <1>5, <1>6, <2>1 DEF ConnInv, DonesInv
  <2>2. CASE kan
    <3>1. /\ DOMAIN dones' = 1 .. Len(dones) + 1 /\ Len(dones) \in Nat /\ dones'[Len(dones) + 1] = c
          /\ DOMAIN dones = 1 .. Len(dones)
          /\ \A i \in DOMAIN dones : dones'[i] = dones[i] /\ dones[i] # c
      BY <1>1, <1>2, <1>6, <2>2 DEF ConnInv, DonesInv
    <3>2. \A i \in DOMAIN dones' : i \in DOMAIN dones \/ i = Len(dones) + 1
      BY <3>1
    <3>3. \A i, j \in DOMAIN dones : dones[i] \in DOMAIN chan /\ dones[i] \notin Range(san)
                                     /\ (dones[i] = dones[j] => i = j)
      BY DEF ConnInv, DonesInv
    <3>4. \A i \in DOMAIN dones' : dones'[i] \in DOMAIN chan' /\ dones'[i] \notin Range(san')
      BY <1>2, <1>3, <1>5, <3>1, <3>2, <3>3
    <3>5. \A i, j \in DOMAIN dones' : dones'[i] = dones'[j] => i = j
      BY <3>1, <3>2, <3>3
    <3> QED
      BY <3>4, <3>5 DEF DonesInv
  <2> QED
    BY <2>1, <2>2
<1>10. RanInv'
  <2>1. \A d \in DOMAIN chan : chan'[d].ran = chan[d].ran
    BY <1>3
  <2>2. \A d \in DOMAIN chan : \A i \in DOMAIN chan[d].ran :
          chan[d].ran[i] \in DOMAIN req /\ req[chan[d].ran[i]].of = d
    BY DEF ConnInv, RanInv
  <2>3. \A d \in DOMAIN chan' : \A i \in DOMAIN chan'[d].ran :
          chan'[d].ran[i] \in DOMAIN req' /\ req'[chan'[d].ran[i]].of = d
    BY <1>3, <1>4, <2>1, <2>2
  <2>4. ASSUME NEW r \in DOMAIN req, req'[r].held, req'[r].kind # "fyrd", req'[r].of \in Range(san')
        PROVE  r \in Range(chan'[req'[r].of].ran)
    <3>1. r \in Range(chan[req[r].of].ran) /\ req[r].of \in DOMAIN chan
      BY <1>1, <1>4, <1>5, <2>4 DEF ConnInv, RanInv
    <3> QED
      BY <1>4, <2>1, <3>1
  <2> QED
    BY <1>4, <2>3, <2>4 DEF RanInv
<1>11. SentInv'
  <2>1. ASSUME NEW i \in DOMAIN chan'[c].sent
        PROVE  chan'[c].sent[i] = 0 \/ chan'[c].sent[i] \in DOMAIN req
    <3>1. chan[c].sent \in Seq(Nat)
      BY <1>1, <1>2, ChanType
    <3>2. (i \in DOMAIN chan[c].sent /\ chan'[c].sent[i] = chan[c].sent[i]) \/ chan'[c].sent[i] = 0
      <4>1. CASE chan'[c].sent = chan[c].sent
        BY <2>1, <4>1
      <4>2. CASE chan'[c].sent = Append(chan[c].sent, 0)
        BY <2>1, <3>1, <4>2
      <4> QED
        BY <1>3, <4>1, <4>2
    <3> QED
      BY <1>2, <3>2 DEF ConnInv, SentInv
  <2> QED
    BY <1>3, <1>4, <2>1 DEF ConnInv, SentInv
<1>12. Answered(chan, req)'
  <2>1. ASSUME NEW r \in DOMAIN req
        PROVE  Count(chan'[c].sent, r) = Count(chan[c].sent, r)
    <3>1. chan[c].sent \in Seq(Nat) /\ r # 0
      BY <1>1, <1>2, ChanType
    <3>2. Count(Append(chan[c].sent, 0), r) = Count(chan[c].sent, r)
      BY <3>1, CountAppend
    <3> QED
      BY <1>3, <3>2
  <2> QED
    BY <1>2, <1>3, <1>4, <2>1 DEF ConnInv, Answered
<1>13. CanInv'
  <2>1. ASSUME NEW r \in DOMAIN req, req[r].held, req[r].kind # "fyrd"
        PROVE  req'[r].can = (IF req[r].of \in Range(san') THEN req[r].of ELSE NoChan)
    <3>1. CASE req[r].of = c
      BY <1>2, <1>4, <1>5, <2>1, <3>1 DEF ConnInv, RanInv
    <3>2. CASE req[r].of # c
      <4>1. r \notin Range(chan[c].ran)
        BY <1>2, <3>2 DEF ConnInv, RanInv, Range
      <4> QED
        BY <1>4, <1>5, <2>1, <3>2, <4>1 DEF ConnInv, CanInv
    <3> QED
      BY <3>1, <3>2
  <2> QED
    BY <1>4, <2>1 DEF CanInv
<1> QED
  BY <1>6, <1>7, <1>8, <1>9, <1>10, <1>11, <1>12, <1>13 DEF ConnInv

\* A request that waits, in its channel's list or by the channel's number.
LEMMA AsksInv ==
  ASSUME ConnInv, NEW c \in Range(san), NEW kind \in {"peek", "ovum", "fyrd"}, Asks(c, kind),
         UNCHANGED <<san, dones, kan, born, wild>>
  PROVE  ConnInv'
<1> DEFINE r == Len(req) + 1
           q == [kind |-> kind, of |-> c, can |-> c, held |-> TRUE]
<1>1. /\ chan \in Seq(Chan) /\ req \in Seq(Req) /\ san \in Seq(Nat) /\ dones \in Seq(Nat)
      /\ \A p \in DOMAIN req : req[p].of \in DOMAIN chan
      /\ kan \in BOOLEAN /\ born \in BOOLEAN
  BY DEF ConnInv, ConnTypeOK
<1>2. c \in DOMAIN chan /\ chan[c].is = "open" /\ c \in Nat
  BY <1>1 DEF ConnInv, SanInv
<1>3. /\ r \in Nat /\ r # 0 /\ r \notin DOMAIN req /\ DOMAIN req' = DOMAIN req \cup {r}
      /\ \A p \in DOMAIN req : req'[p] = req[p]
      /\ req'[r] = q /\ req' \in Seq(Req)
  <2>1. req' = Append(req, q)
    BY DEF Asks
  <2>2. q \in Req
    BY <1>2 DEF Req
  <2> HIDE DEF q
  <2> QED
    BY <1>1, <2>1, <2>2
<1> HIDE DEF r
<1>4. /\ DOMAIN chan' = DOMAIN chan /\ chan' \in Seq(Chan)
      /\ \A d \in DOMAIN chan : chan'[d].is = chan[d].is /\ chan'[d].sent = chan[d].sent
      /\ \A d \in DOMAIN chan : d # c => chan'[d].ran = chan[d].ran
      /\ Range(chan[c].ran) \subseteq Range(chan'[c].ran)
      /\ Range(chan'[c].ran) \subseteq Range(chan[c].ran) \cup {r}
      /\ kind # "fyrd" => r \in Range(chan'[c].ran)
  <2>1. CASE kind = "fyrd"
    BY <1>1, <2>1 DEF Asks
  <2>2. CASE kind # "fyrd"
    <3>1. chan' = [chan EXCEPT ![c].ran = <<r>> \o @]
      BY <2>2 DEF Asks, r
    <3>2. chan[c] \in Chan /\ chan[c].ran \in Seq(Nat)
      BY <1>1, <1>2, ChanType
    <3> DEFINE s == chan[c].ran
               t == <<r>> \o s
    <3>3. /\ t \in Seq(Nat) /\ DOMAIN t = 1 .. Len(s) + 1 /\ t[1] = r /\ Len(s) \in Nat
          /\ \A i \in 1 .. Len(s) : t[i + 1] = s[i]
          /\ DOMAIN s = 1 .. Len(s)
      BY <1>3, <3>2
    <3> HIDE DEF t, s
    <3>4. ASSUME NEW i \in DOMAIN t PROVE t[i] \in Range(s) \cup {r}
      <4>1. CASE i = 1
        BY <3>3, <4>1
      <4>2. CASE i # 1
        <5>1. PICK k \in 1 .. Len(s) : i = k + 1
          BY <3>3, <4>2, AfterFirst
        <5>2. t[i] = s[k] /\ k \in DOMAIN s
          BY <3>3, <5>1
        <5> QED
          BY <5>2 DEF Range
      <4> QED
        BY <4>1, <4>2
    <3>5. ASSUME NEW k \in DOMAIN s PROVE s[k] \in Range(t)
      <4>1. k + 1 \in DOMAIN t /\ t[k + 1] = s[k]
        BY <3>3
      <4> QED
        BY <4>1 DEF Range
    <3>6. r \in Range(t)
      <4>1. 1 \in DOMAIN t
        BY <3>3
      <4> QED
        BY <3>3, <4>1 DEF Range
    <3>7. Range(t) \subseteq Range(s) \cup {r} /\ Range(s) \subseteq Range(t)
      BY <3>4, <3>5 DEF Range
    <3>8. /\ DOMAIN chan' = DOMAIN chan /\ chan'[c] = [chan[c] EXCEPT !.ran = t]
          /\ \A d \in DOMAIN chan : d # c => chan'[d] = chan[d]
      BY <1>2, <3>1 DEF t, s
    <3>9. chan'[c] \in Chan /\ chan'[c].ran = t /\ chan'[c].is = chan[c].is /\ chan'[c].sent = chan[c].sent
      BY <3>2, <3>3, <3>8 DEF Chan
    <3>10. chan' \in Seq(Chan)
      <4>1. chan' = [chan EXCEPT ![c] = [chan[c] EXCEPT !.ran = t]]
        BY <3>1 DEF t, s
      <4> QED
        BY <1>1, <1>2, <3>8, <3>9, <4>1, ChanSet
    <3> QED
      BY <3>6, <3>7, <3>8, <3>9, <3>10 DEF s
  <2> QED
    BY <2>1, <2>2
<1>5. UNCHANGED <<san, dones, kan, born, wild>>
  OBVIOUS
<1>6. \A p \in DOMAIN req' : p \in DOMAIN req \/ p = r
  BY <1>3
<1>7. ConnTypeOK'
  BY <1>1, <1>2, <1>3, <1>4, <1>5 DEF ConnTypeOK
<1>8. SanInv' /\ DonesInv'
  BY <1>4, <1>5 DEF ConnInv, SanInv, DonesInv
<1>9. RanInv'
  <2>1. ASSUME NEW d \in DOMAIN chan, NEW p \in Range(chan'[d].ran)
        PROVE  p \in DOMAIN req' /\ req'[p].of = d
    <3>1. (d = c /\ p = r) \/ p \in Range(chan[d].ran)
      BY <1>4, <2>1
    <3>2. CASE p \in Range(chan[d].ran)
      <4>1. p \in DOMAIN req /\ req[p].of = d
        BY <3>2 DEF ConnInv, RanInv, Range
      <4> QED
        BY <1>3, <4>1
    <3> QED
      BY <1>3, <3>1, <3>2
  <2>2. ASSUME NEW p \in DOMAIN req', req'[p].held, req'[p].kind # "fyrd", req'[p].of \in Range(san')
        PROVE  p \in Range(chan'[req'[p].of].ran)
    <3>1. CASE p = r
      BY <1>3, <1>4, <2>2, <3>1
    <3>2. CASE p \in DOMAIN req
      <4>1. p \in Range(chan[req[p].of].ran) /\ req[p].of \in DOMAIN chan
        BY <1>1, <1>3, <1>5, <2>2, <3>2 DEF ConnInv, RanInv
      <4> QED
        BY <1>3, <1>4, <3>2, <4>1
    <3> QED
      BY <1>6, <3>1, <3>2
  <2> QED
    BY <1>4, <2>1, <2>2 DEF RanInv, Range
<1>10. SentInv'
  BY <1>3, <1>4 DEF ConnInv, SentInv
<1>11. Answered(chan, req)'
  <2>1. ASSUME NEW d \in DOMAIN chan PROVE Count(chan[d].sent, r) = 0
    <3>1. \A i \in DOMAIN chan[d].sent : chan[d].sent[i] # r
      BY <1>3 DEF ConnInv, SentInv
    <3> QED
      BY <3>1, CountNone
  <2>2. \A p \in DOMAIN req : p \in DOMAIN req' /\ req'[p] = req[p]
    BY <1>3
  <2> QED
    BY <1>3, <1>4, <1>6, <2>1, <2>2 DEF ConnInv, Answered
<1>12. CanInv'
  BY <1>3, <1>5, <1>6 DEF ConnInv, CanInv
<1> QED
  BY <1>5, <1>7, <1>8, <1>9, <1>10, <1>11, <1>12 DEF ConnInv

\* What a message does to the lists of answers.
LEMMA ChanSendFacts ==
  ASSUME ConnInv, NEW c \in DOMAIN chan, NEW x \in Nat
  PROVE  LET C == SendNoun(chan, c, x) IN
         /\ C \in Seq(Chan) /\ DOMAIN C = DOMAIN chan
         /\ \A d \in DOMAIN chan : d # c => C[d] = chan[d]
         /\ C[c].is = chan[c].is /\ C[c].ran = chan[c].ran
         /\ \A i \in DOMAIN C[c].sent : C[c].sent[i] = x \/ C[c].sent[i] \in Range(chan[c].sent)
         /\ \A y \in Nat : /\ Count(chan[c].sent, y) \in Nat
                           /\ Count(C[c].sent, y) = IF y = x THEN Count(chan[c].sent, y) + 1
                                                    ELSE Count(chan[c].sent, y)
<1>1. chan \in Seq(Chan)
  BY DEF ConnInv, ConnTypeOK
<1> DEFINE C == SendNoun(chan, c, x)
           s == chan[c].sent
<1>2. chan[c] \in Chan /\ s \in Seq(Nat) /\ Append(s, x) \in Seq(Nat)
  BY <1>1, ChanType
<1>3. C[c] = [chan[c] EXCEPT !.sent = Append(s, x)] /\ DOMAIN C = DOMAIN chan
      /\ \A d \in DOMAIN chan : d # c => C[d] = chan[d]
  BY DEF SendNoun
<1>4. C[c] \in Chan /\ C[c].is = chan[c].is /\ C[c].ran = chan[c].ran /\ C[c].sent = Append(s, x)
  BY <1>2, <1>3 DEF Chan
<1>5. C = [chan EXCEPT ![c] = C[c]]
  BY <1>1, <1>3 DEF SendNoun
<1>6. C \in Seq(Chan)
  BY <1>1, <1>4, <1>5
<1>7. ASSUME NEW i \in DOMAIN Append(s, x)
      PROVE  Append(s, x)[i] = x \/ Append(s, x)[i] \in Range(s)
  <2>1. i \in DOMAIN s \/ i = Len(s) + 1
    BY <1>2
  <2>2. CASE i = Len(s) + 1
    BY <1>2, <2>2
  <2>3. CASE i \in DOMAIN s
    <3>1. Append(s, x)[i] = s[i]
      BY <1>2, <2>3
    <3> QED
      BY <2>3, <3>1 DEF Range
  <2> QED
    BY <2>1, <2>2, <2>3
<1>8. ASSUME NEW y \in Nat
      PROVE  /\ Count(s, y) \in Nat
             /\ Count(Append(s, x), y) = IF y = x THEN Count(s, y) + 1 ELSE Count(s, y)
  BY <1>2, CountAppend
<1> QED
  BY <1>3, <1>4, <1>6, <1>7, <1>8

\* A request that is answered at once.
LEMMA PokeNowInv == ConnInv /\ PokeNow => ConnInv'
<1> SUFFICES ASSUME ConnInv, PokeNow PROVE ConnInv'
  OBVIOUS
<1> DEFINE r == Len(req) + 1
<1>0. PICK c \in Range(san) :
        /\ req' = Append(req, [kind |-> "peel", of |-> c, can |-> NoChan, held |-> FALSE])
        /\ chan' = SendNoun(chan, c, r)
        /\ UNCHANGED <<san, dones, kan, born, wild>>
  BY DEF PokeNow
<1> DEFINE q == [kind |-> "peel", of |-> c, can |-> NoChan, held |-> FALSE]
<1>1. /\ chan \in Seq(Chan) /\ req \in Seq(Req) /\ san \in Seq(Nat) /\ dones \in Seq(Nat)
      /\ \A p \in DOMAIN req : req[p].of \in DOMAIN chan
      /\ kan \in BOOLEAN /\ born \in BOOLEAN
  BY DEF ConnInv, ConnTypeOK
<1>2. c \in DOMAIN chan /\ chan[c].is = "open" /\ c \in Nat
  BY <1>1 DEF ConnInv, SanInv
<1>3. /\ r \in Nat /\ r # 0 /\ r \notin DOMAIN req /\ DOMAIN req' = DOMAIN req \cup {r}
      /\ \A p \in DOMAIN req : p # r /\ p \in Nat /\ req'[p] = req[p]
      /\ req'[r] = q /\ req' \in Seq(Req)
  <2>1. req' = Append(req, q)
    BY <1>0
  <2>2. q \in Req
    BY <1>2 DEF Req, NoChan
  <2> HIDE DEF q
  <2> QED
    BY <1>1, <2>1, <2>2
<1> HIDE DEF r
<1>4. /\ chan' \in Seq(Chan) /\ DOMAIN chan' = DOMAIN chan
      /\ \A d \in DOMAIN chan : d # c => chan'[d] = chan[d]
      /\ chan'[c].is = chan[c].is /\ chan'[c].ran = chan[c].ran
      /\ \A i \in DOMAIN chan'[c].sent : chan'[c].sent[i] = r \/ chan'[c].sent[i] \in Range(chan[c].sent)
      /\ \A y \in Nat : /\ Count(chan[c].sent, y) \in Nat
                        /\ Count(chan'[c].sent, y) = IF y = r THEN Count(chan[c].sent, y) + 1
                                                     ELSE Count(chan[c].sent, y)
  <2>1. r \in Nat
    BY <1>3
  <2> DEFINE C == SendNoun(chan, c, r)
  <2> HIDE DEF C
  <2>2. /\ C \in Seq(Chan) /\ DOMAIN C = DOMAIN chan
        /\ \A d \in DOMAIN chan : d # c => C[d] = chan[d]
        /\ C[c].is = chan[c].is /\ C[c].ran = chan[c].ran
        /\ \A i \in DOMAIN C[c].sent : C[c].sent[i] = r \/ C[c].sent[i] \in Range(chan[c].sent)
        /\ \A y \in Nat : /\ Count(chan[c].sent, y) \in Nat
                          /\ Count(C[c].sent, y) = IF y = r THEN Count(chan[c].sent, y) + 1
                                                   ELSE Count(chan[c].sent, y)
    BY <1>2, <2>1, ChanSendFacts DEF C
  <2>3. chan' = C
    BY <1>0 DEF C
  <2> QED
    BY ONLY <2>2, <2>3
<1>5. UNCHANGED <<san, dones, kan, born, wild>>
  BY <1>0
<1>13. /\ chan' \in Seq(Chan) /\ DOMAIN chan' = DOMAIN chan
       /\ \A d \in DOMAIN chan : chan'[d].is = chan[d].is /\ chan'[d].ran = chan[d].ran
  BY <1>4
<1>6. \A p \in DOMAIN req' : p \in DOMAIN req \/ p = r
  BY <1>3
<1>7. ConnTypeOK'
  BY ONLY <1>1, <1>2, <1>3, <1>5, <1>13 DEF ConnTypeOK
<1>8. SanInv' /\ DonesInv'
  BY ONLY ConnInv, <1>5, <1>13 DEF ConnInv, SanInv, DonesInv
<1>9. RanInv'
  <2>2. \A p \in DOMAIN req : p \in DOMAIN req' /\ req'[p] = req[p]
    BY <1>3
  <2>3. ~req'[r].held
    BY <1>3
  <2>4. \A d \in DOMAIN chan' : \A i \in DOMAIN chan'[d].ran :
          chan'[d].ran[i] \in DOMAIN req' /\ req'[chan'[d].ran[i]].of = d
    BY ONLY ConnInv, <1>13, <2>2 DEF ConnInv, RanInv
  <2>5. ASSUME NEW p \in DOMAIN req', req'[p].held, req'[p].kind # "fyrd", req'[p].of \in Range(san)
        PROVE  p \in Range(chan'[req'[p].of].ran)
    <3>1. p \in DOMAIN req /\ req'[p] = req[p]
      BY <1>6, <2>2, <2>3, <2>5
    <3>2. p \in Range(chan[req[p].of].ran) /\ req[p].of \in DOMAIN chan
      BY <1>1, <2>5, <3>1 DEF ConnInv, RanInv
    <3> QED
      BY <1>13, <3>1, <3>2
  <2> QED
    BY <1>5, <2>4, <2>5 DEF RanInv
<1>10. SentInv'
  <2>1. ASSUME NEW d \in DOMAIN chan, NEW i \in DOMAIN chan'[d].sent
        PROVE  chan'[d].sent[i] = 0 \/ chan'[d].sent[i] \in DOMAIN req'
    <3>1. \A x \in Range(chan[d].sent) : x = 0 \/ x \in DOMAIN req'
      BY <1>3 DEF ConnInv, SentInv, Range
    <3>2. CASE d = c
      BY <1>3, <1>4, <2>1, <3>1, <3>2
    <3>3. CASE d # c
      BY <1>4, <2>1, <3>1, <3>3 DEF Range
    <3> QED
      BY <3>2, <3>3
  <2> QED
    BY <1>4, <2>1 DEF SentInv
<1>11. Answered(chan, req)'
  <2>1. ASSUME NEW d \in DOMAIN chan PROVE Count(chan[d].sent, r) = 0
    <3>1. \A i \in DOMAIN chan[d].sent : chan[d].sent[i] # r
      BY <1>3 DEF ConnInv, SentInv
    <3> QED
      BY <3>1, CountNone
  <2>2. Count(chan'[c].sent, r) = 1
    BY <1>2, <1>3, <1>4, <2>1
  <2>3. \A d \in DOMAIN chan : d # c => Count(chan'[d].sent, r) = 0
    BY <1>4, <2>1
  <2>4. ASSUME NEW p \in DOMAIN req, NEW d \in DOMAIN chan
        PROVE  Count(chan'[d].sent, p) = Count(chan[d].sent, p) /\ chan'[d].is = chan[d].is
    BY <1>3, <1>4
  <2>5. \A p \in DOMAIN req : p \in DOMAIN req' /\ req'[p] = req[p]
    BY <1>3
  <2>6. req'[r].of = c /\ req'[r].held = FALSE
    BY <1>3
  <2>7. ASSUME NEW p \in DOMAIN req', NEW d \in DOMAIN chan
        PROVE  LET answers == Count(chan'[d].sent, p) IN
               /\ d # req'[p].of => answers = 0
               /\ d = req'[p].of /\ chan'[d].is = "open" => answers = (IF req'[p].held THEN 0 ELSE 1)
    <3>1. CASE p = r
      BY ONLY <2>2, <2>3, <2>6, <2>7, <3>1
    <3>2. CASE p \in DOMAIN req
      <4>1. LET answers == Count(chan[d].sent, p) IN
            /\ d # req[p].of => answers = 0
            /\ d = req[p].of /\ chan[d].is = "open" => answers = (IF req[p].held THEN 0 ELSE 1)
        BY <3>2 DEF ConnInv, Answered
      <4> QED
        BY ONLY <2>4, <2>5, <2>7, <3>2, <4>1
    <3> QED
      BY <1>6, <3>1, <3>2
  <2> QED
    BY <1>13, <2>7 DEF Answered
<1>12. CanInv'
  BY <1>3, <1>5, <1>6 DEF ConnInv, CanInv
<1> QED
  BY <1>5, <1>7, <1>8, <1>9, <1>10, <1>11, <1>12 DEF ConnInv

\* libuv lets go of a channel that was closed.
LEMMA MoatFreeInv == ConnInv /\ MoatFree => ConnInv'
<1> SUFFICES ASSUME ConnInv, MoatFree PROVE ConnInv'
  OBVIOUS
<1>1. PICK c \in DOMAIN chan : chan[c].is = "closing" /\ chan' = [chan EXCEPT ![c].is = "freed"]
  BY DEF MoatFree
<1>2. chan \in Seq(Chan) /\ chan[c] \in Chan
  BY DEF ConnInv, ConnTypeOK
<1>3. UNCHANGED <<san, req, dones, kan, born, wild>>
  BY DEF MoatFree
<1>4. [chan[c] EXCEPT !.is = "freed"] \in Chan
  BY <1>2 DEF Chan
<1>5. chan' \in Seq(Chan)
  BY <1>1, <1>2, <1>4, ChanSet
<1>6. /\ DOMAIN chan' = DOMAIN chan
      /\ \A d \in DOMAIN chan : chan'[d].ran = chan[d].ran /\ chan'[d].sent = chan[d].sent
                                /\ (chan'[d].is = "open" <=> chan[d].is = "open")
  BY <1>1, <1>2 DEF Chan
<1>7. ConnTypeOK'
  BY <1>3, <1>5, <1>6 DEF ConnInv, ConnTypeOK
<1>8. SanInv' /\ DonesInv' /\ SentInv' /\ CanInv'
  BY <1>3, <1>6 DEF ConnInv, SanInv, DonesInv, SentInv, CanInv
<1>9. RanInv'
  <2>1. \A p \in DOMAIN req : req[p].of \in DOMAIN chan
    BY DEF ConnInv, ConnTypeOK
  <2> QED
    BY <1>3, <1>6, <2>1 DEF ConnInv, RanInv
<1>10. Answered(chan, req)'
  BY <1>3, <1>6 DEF ConnInv, Answered
<1> QED
  BY <1>3, <1>7, <1>8, <1>9, <1>10 DEF ConnInv

\* A request is let go.
LEMMA LetGo ==
  ASSUME ConnInv, NEW r \in DOMAIN req, req' = [req EXCEPT ![r].held = FALSE]
  PROVE  /\ req' \in Seq(Req) /\ DOMAIN req' = DOMAIN req
         /\ \A p \in DOMAIN req : /\ req'[p].kind = req[p].kind /\ req'[p].of = req[p].of
                                  /\ req'[p].can = req[p].can
                                  /\ req'[p].held = (IF p = r THEN FALSE ELSE req[p].held)
<1>1. req \in Seq(Req) /\ req[r] \in Req
  BY DEF ConnInv, ConnTypeOK
<1>2. [req[r] EXCEPT !.held = FALSE] \in Req
  BY <1>1 DEF Req
<1>3. req' \in Seq(Req)
  BY <1>1, <1>2
<1> QED
  BY <1>1, <1>3 DEF Req

\* An answer to a request, on its channel or on none: what is held still has its own.
LEMMA AnsweredInv ==
  ASSUME ConnInv, NEW r \in DOMAIN req, req[r].held, req' = [req EXCEPT ![r].held = FALSE],
         UNCHANGED <<san, dones, kan, born, wild>>,
         chan' \in Seq(Chan), DOMAIN chan' = DOMAIN chan,
         \A d \in DOMAIN chan :
           /\ chan'[d].is = chan[d].is
           /\ Range(chan'[d].ran) \subseteq Range(chan[d].ran)
           /\ Range(chan[d].ran) \subseteq Range(chan'[d].ran) \cup {r}
           /\ \A i \in DOMAIN chan'[d].sent : chan'[d].sent[i] = r \/ chan'[d].sent[i] \in Range(chan[d].sent)
           /\ \A y \in DOMAIN req : y # r => Count(chan'[d].sent, y) = Count(chan[d].sent, y)
           /\ d # req[r].of => Count(chan'[d].sent, r) = Count(chan[d].sent, r)
           /\ d = req[r].of /\ chan[d].is = "open" =>
                Count(chan'[d].sent, r) = Count(chan[d].sent, r) + 1
  PROVE  ConnInv'
<1>1. \A p \in DOMAIN req : req[p].of \in DOMAIN chan
  BY DEF ConnInv, ConnTypeOK
<1>2. /\ req' \in Seq(Req) /\ DOMAIN req' = DOMAIN req
      /\ \A p \in DOMAIN req : /\ req'[p].kind = req[p].kind /\ req'[p].of = req[p].of
                               /\ req'[p].can = req[p].can
                               /\ req'[p].held = (IF p = r THEN FALSE ELSE req[p].held)
  BY LetGo
<1>3. ConnTypeOK'
  BY <1>2 DEF ConnInv, ConnTypeOK
<1>4. SanInv' /\ DonesInv' /\ CanInv'
  BY <1>2 DEF ConnInv, SanInv, DonesInv, CanInv
<1>5. RanInv'
  <2>1. ASSUME NEW d \in DOMAIN chan, NEW p \in Range(chan'[d].ran)
        PROVE  p \in DOMAIN req' /\ req'[p].of = d
    <3>1. p \in Range(chan[d].ran)
      BY <2>1
    <3>2. p \in DOMAIN req /\ req[p].of = d
      BY <3>1 DEF ConnInv, RanInv, Range
    <3> QED
      BY <1>2, <3>2
  <2>2. ASSUME NEW p \in DOMAIN req, req'[p].held, req'[p].kind # "fyrd", req'[p].of \in Range(san)
        PROVE  p \in Range(chan'[req'[p].of].ran)
    <3>1. p # r /\ req'[p].of = req[p].of /\ p \in Range(chan[req[p].of].ran)
      BY <1>2, <2>2 DEF ConnInv, RanInv
    <3> QED
      BY <1>1, <3>1
  <2>3. \A d \in DOMAIN chan' : \A i \in DOMAIN chan'[d].ran :
          chan'[d].ran[i] \in DOMAIN req' /\ req'[chan'[d].ran[i]].of = d
    BY <2>1 DEF Range
  <2> QED
    BY <1>2, <2>2, <2>3 DEF RanInv
<1>6. SentInv'
  <2>1. ASSUME NEW d \in DOMAIN chan, NEW i \in DOMAIN chan'[d].sent
        PROVE  chan'[d].sent[i] = 0 \/ chan'[d].sent[i] \in DOMAIN req
    <3>1. \A x \in Range(chan[d].sent) : x = 0 \/ x \in DOMAIN req
      BY DEF ConnInv, SentInv, Range
    <3> QED
      BY <2>1, <3>1
  <2> QED
    BY <1>2, <2>1 DEF SentInv
<1>7. Answered(chan, req)'
  <2>1. ASSUME NEW p \in DOMAIN req, NEW d \in DOMAIN chan
        PROVE  LET answers == Count(chan'[d].sent, p) IN
               /\ d # req[p].of => answers = 0
               /\ d = req[p].of /\ chan[d].is = "open" => answers = (IF req'[p].held THEN 0 ELSE 1)
    <3>1. LET answers == Count(chan[d].sent, p) IN
          /\ d # req[p].of => answers = 0
          /\ d = req[p].of /\ chan[d].is = "open" => answers = (IF req[p].held THEN 0 ELSE 1)
      BY DEF ConnInv, Answered
    <3>2. CASE p = r
      <4>1. CASE d # req[p].of
        BY <3>1, <3>2, <4>1
      <4>2. CASE d = req[p].of /\ chan[d].is = "open"
        <5>1. Count(chan[d].sent, r) = 0
          BY <3>1, <3>2, <4>2
        <5>2. Count(chan'[d].sent, p) = 1
          BY <3>2, <4>2, <5>1
        <5>3. ~req'[p].held
          BY <1>2, <3>2
        <5> QED
          BY <4>2, <5>2, <5>3
      <4> QED
        BY <4>1, <4>2
    <3>3. CASE p # r
      BY <1>2, <3>1, <3>3
    <3> QED
      BY <3>2, <3>3
  <2> QED
    BY <1>2, <2>1 DEF Answered
<1> QED
  BY <1>3, <1>4, <1>5, <1>6, <1>7 DEF ConnInv

\* An answer that is sent, with the request taken off its channel's list or not.
LEMMA SentAnswerInv ==
  ASSUME ConnInv, NEW r \in DOMAIN req, req[r].held, req' = [req EXCEPT ![r].held = FALSE],
         NEW c \in DOMAIN chan, c = req[r].of, UNCHANGED <<san, dones, kan, born, wild>>,
         NEW t \in Seq(Nat), Range(t) \subseteq Range(chan[c].ran),
         Range(chan[c].ran) \subseteq Range(t) \cup {r},
         chan' = [SendNoun(chan, c, r) EXCEPT ![c].ran = t]
  PROVE  ConnInv'
<1> DEFINE C == SendNoun(chan, c, r)
<1>1. r \in Nat /\ \A y \in DOMAIN req : y \in Nat
  BY DEF ConnInv, ConnTypeOK
<1> HIDE DEF C
<1>2. /\ C \in Seq(Chan) /\ DOMAIN C = DOMAIN chan
      /\ \A d \in DOMAIN chan : d # c => C[d] = chan[d]
      /\ C[c].is = chan[c].is /\ C[c].ran = chan[c].ran
      /\ \A i \in DOMAIN C[c].sent : C[c].sent[i] = r \/ C[c].sent[i] \in Range(chan[c].sent)
      /\ \A y \in Nat : /\ Count(chan[c].sent, y) \in Nat
                        /\ Count(C[c].sent, y) = IF y = r THEN Count(chan[c].sent, y) + 1
                                                 ELSE Count(chan[c].sent, y)
  BY <1>1, ChanSendFacts DEF C
<1>3. C[c] \in Chan
  BY <1>2
<1>4. /\ [C[c] EXCEPT !.ran = t] \in Chan
      /\ [C[c] EXCEPT !.ran = t].is = C[c].is /\ [C[c] EXCEPT !.ran = t].sent = C[c].sent
      /\ [C[c] EXCEPT !.ran = t].ran = t
  BY ONLY <1>3, t \in Seq(Nat) DEF Chan
<1>5. chan' = [C EXCEPT ![c] = [C[c] EXCEPT !.ran = t]]
  BY DEF C
<1>6. chan' \in Seq(Chan) /\ DOMAIN chan' = DOMAIN chan
  <2> DEFINE v == [C[c] EXCEPT !.ran = t]
  <2>1. v \in Chan /\ C \in Seq(Chan) /\ c \in DOMAIN C /\ DOMAIN C = DOMAIN chan /\ chan' = [C EXCEPT ![c] = v]
    BY <1>2, <1>4, <1>5
  <2> HIDE DEF v
  <2> QED
    BY ONLY <2>1, ChanSet
<1>7. /\ chan'[c].is = chan[c].is /\ chan'[c].ran = t /\ chan'[c].sent = C[c].sent
      /\ \A d \in DOMAIN chan : d # c => chan'[d] = chan[d]
  BY <1>2, <1>4, <1>5
<1>8. ASSUME NEW d \in DOMAIN chan
      PROVE  /\ chan'[d].is = chan[d].is
             /\ Range(chan'[d].ran) \subseteq Range(chan[d].ran)
             /\ Range(chan[d].ran) \subseteq Range(chan'[d].ran) \cup {r}
             /\ \A i \in DOMAIN chan'[d].sent : chan'[d].sent[i] = r \/ chan'[d].sent[i] \in Range(chan[d].sent)
             /\ \A y \in DOMAIN req : y # r => Count(chan'[d].sent, y) = Count(chan[d].sent, y)
             /\ d # req[r].of => Count(chan'[d].sent, r) = Count(chan[d].sent, r)
             /\ d = req[r].of /\ chan[d].is = "open" =>
                  Count(chan'[d].sent, r) = Count(chan[d].sent, r) + 1
  <2>1. CASE d = c
    <3>1. \A y \in DOMAIN req : y # r => Count(C[c].sent, y) = Count(chan[c].sent, y)
      BY <1>1, <1>2
    <3>2. Count(C[c].sent, r) = Count(chan[c].sent, r) + 1
      BY <1>1, <1>2
    <3>3. \A i \in DOMAIN C[c].sent : C[c].sent[i] = r \/ C[c].sent[i] \in Range(chan[c].sent)
      BY <1>2
    <3> QED
      BY <1>7, <2>1, <3>1, <3>2, <3>3
  <2>2. CASE d # c
    BY <1>7, <2>2 DEF Range
  <2> QED
    BY <2>1, <2>2
<1> QED
  BY <1>6, <1>8, AnsweredInv

\* One that is not, as its channel is gone.
LEMMA NotSentInv ==
  ASSUME ConnInv, NEW r \in DOMAIN req, req[r].held, req' = [req EXCEPT ![r].held = FALSE],
         req[r].of \notin Range(san), UNCHANGED <<chan, san, dones, kan, born, wild>>
  PROVE  ConnInv'
<1>1. chan \in Seq(Chan) /\ chan[req[r].of].is # "open" /\ req[r].of \in DOMAIN chan
  BY DEF ConnInv, ConnTypeOK, SanInv
<1> QED
  BY <1>1, AnsweredInv DEF Range

\* The callback of a request that is held.
LEMMA CallbackInv == ConnInv /\ Callback => ConnInv'
<1> SUFFICES ASSUME ConnInv, Callback PROVE ConnInv'
  OBVIOUS
<1>1. PICK r \in DOMAIN req :
        /\ req[r].held /\ UNCHANGED <<san, dones, kan, born>>
        /\ IF req[r].kind = "fyrd" THEN AnswerFyrd(r) ELSE Answer(r)
  BY DEF Callback
<1> DEFINE c == req[r].of
<1>2. /\ chan \in Seq(Chan) /\ c \in DOMAIN chan /\ c # NoChan /\ (c \in Range(san) <=> chan[c].is = "open")
      /\ wild = FALSE /\ chan[c].ran \in Seq(Nat)
  <2>1. chan \in Seq(Chan) /\ c \in DOMAIN chan /\ wild = FALSE
    BY DEF ConnInv, ConnTypeOK
  <2>2. c # NoChan
    BY <2>1 DEF NoChan
  <2>3. c \in Range(san) <=> chan[c].is = "open"
    BY <2>1 DEF ConnInv, SanInv
  <2> QED
    BY <2>1, <2>2, <2>3, ChanType
<1>3. CASE req[r].kind = "fyrd" /\ c \in Range(san)
  <2>1. /\ chan' = SendNoun(chan, c, r) /\ req' = [req EXCEPT ![r].held = FALSE] /\ wild' = FALSE
    BY <1>1, <1>2, <1>3 DEF AnswerFyrd
  <2>2. SendNoun(chan, c, r) = [SendNoun(chan, c, r) EXCEPT ![c].ran = chan[c].ran]
    <3>1. chan[c] \in Chan
      BY <1>2
    <3>2. [[chan[c] EXCEPT !.sent = Append(@, r)] EXCEPT !.ran = chan[c].ran]
            = [chan[c] EXCEPT !.sent = Append(@, r)]
      BY <3>1 DEF Chan
    <3> QED
      BY <1>2, <3>2 DEF SendNoun
  <2> QED
    BY <1>1, <1>2, <2>1, <2>2, SentAnswerInv
<1>4. CASE req[r].kind # "fyrd" /\ c \in Range(san)
  <2>1. req[r].can = c /\ r \in Range(chan[c].ran)
    BY <1>1, <1>4 DEF ConnInv, CanInv, RanInv
  <2>2. /\ chan' = [SendNoun(chan, c, r) EXCEPT ![c].ran = RemoveFirst(@, r)]
        /\ req' = [req EXCEPT ![r].held = FALSE] /\ wild' = FALSE
    BY <1>1, <1>2, <1>4, <2>1 DEF Answer
  <2>3. SendNoun(chan, c, r)[c].ran = chan[c].ran /\ c \in DOMAIN SendNoun(chan, c, r)
    <3>1. chan[c] \in Chan
      BY <1>2
    <3> QED
      BY <1>2, <3>1 DEF SendNoun, Chan
  <2> DEFINE t == RemoveFirst(chan[c].ran, r)
  <2>4. chan' = [SendNoun(chan, c, r) EXCEPT ![c].ran = t]
    BY <2>2, <2>3
  <2>5. /\ t \in Seq(Nat) /\ Range(t) \subseteq Range(chan[c].ran)
        /\ Range(chan[c].ran) \subseteq Range(t) \cup {r}
    BY <1>2, <2>1, RemoveRange
  <2> HIDE DEF t
  <2> QED
    BY <1>1, <1>2, <2>2, <2>4, <2>5, SentAnswerInv
<1>5. CASE c \notin Range(san)
  <2>1. req[r].kind # "fyrd" => req[r].can = NoChan
    BY <1>1, <1>5 DEF ConnInv, CanInv
  <2>2. req' = [req EXCEPT ![r].held = FALSE] /\ UNCHANGED <<chan, wild>>
    BY <1>1, <1>5, <2>1 DEF Answer, AnswerFyrd
  <2> QED
    BY <1>1, <1>5, <2>2, NotSentInv
<1> QED
  BY <1>3, <1>4, <1>5

\* Each step keeps the invariant.
LEMMA ConnNextInv == ConnInv /\ [ConnNext]_connVars => ConnInv'
<1> SUFFICES ASSUME ConnInv, [ConnNext]_connVars PROVE ConnInv'
  OBVIOUS
<1>1. CASE SockCb
  BY <1>1, SockCbInv
<1>2. CASE PokeLater
  BY <1>2, AsksInv DEF PokeLater
<1>3. CASE PokeNow
  BY <1>3, PokeNowInv
<1>4. CASE PokeBad
  BY <1>4, CloseInv DEF PokeBad, MoorBail
<1>5. CASE MoorEnd
  BY <1>5, CloseInv DEF MoorEnd
<1>6. CASE MoatFree
  BY <1>6, MoatFreeInv
<1>7. CASE Callback
  BY <1>7, CallbackInv
<1>8. CASE BornEnds \/ UNCHANGED connVars
  <2>1. UNCHANGED <<san, chan, req, dones, wild>> /\ kan' \in BOOLEAN /\ born' \in BOOLEAN
    BY <1>8 DEF BornEnds, connVars, ConnInv, ConnTypeOK
  <2> QED
    BY <2>1 DEF ConnInv, ConnTypeOK, SanInv, DonesInv, RanInv, SentInv, Answered, CanInv
<1> QED
  BY <1>1, <1>2, <1>3, <1>4, <1>5, <1>6, <1>7, <1>8 DEF ConnNext

\* The books of channels and requests are right (vere/io/conn.c).
THEOREM ConnInvariant == ConnSpec => []ConnInv
BY ConnInitInv, ConnNextInv, PTL DEF ConnSpec

\* Nothing is sent on a channel that was closed, and every request made on an open one
\* has its one answer, or the request that will give it (vere/io/conn.c).
THEOREM ConnClientsAreAnswered == ConnSpec => []ClientsAreAnswered
BY ConnInvariant, ConnInvImplies, PTL
=============================================================================
