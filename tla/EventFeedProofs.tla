--------------------------- MODULE EventFeedProofs ---------------------------
(***************************************************************************)
(* Theorems about the event feed, for every number of clients, waiters,    *)
(* events and items per page.                                              *)
(*                                                                         *)
(* The first part is about InOrder: the pages of a feed join to one list   *)
(* because the sorted enumeration of a set is determined by the ranks of   *)
(* its members.  Each fact is stated once, for any finite set of numbers.  *)
(* The second part is the invariant of the protocol: what a cursor and a   *)
(* snapshot say of the database while a request is at each of its          *)
(* statements.                                                             *)
(***************************************************************************)
EXTENDS EventFeed, FunctionTheorems, FiniteSetTheorems, SequenceTheorems, TLAPS

-----------------------------------------------------------------------------
(* Ranks                                                                   *)

Numbers(S) == S \in SUBSET Nat /\ IsFiniteSet(S)

\* What lies up to a member of a finite set of numbers is counted, and there is
\* at least that member.
LEMMA RankType ==
  ASSUME NEW S, Numbers(S), NEW n \in S
  PROVE  Rank(S, n) \in 1..Cardinality(S)
<1> DEFINE U == {m \in S : m <= n}
<1>1. IsFiniteSet(U) /\ Cardinality(U) <= Cardinality(S)
  BY FS_Subset, U \in SUBSET S DEF Numbers
<1>2. Cardinality(U) \in Nat /\ Cardinality(S) \in Nat
  BY <1>1, FS_CardinalityType DEF Numbers
<1>3. n \in U
  BY DEF Numbers
<1>4. Cardinality(U) # 0
  BY <1>1, <1>3, FS_EmptySet
<1> QED
  BY <1>1, <1>2, <1>4 DEF Rank

\* A greater member has a greater rank.
LEMMA RankStrict ==
  ASSUME NEW S, Numbers(S), NEW m \in S, NEW n \in S, m < n
  PROVE  Rank(S, m) < Rank(S, n)
<1> DEFINE L == {k \in S : k <= m}
           U == {k \in S : k <= n}
<1>1. IsFiniteSet(U)
  BY FS_Subset, U \in SUBSET S DEF Numbers
<1>2. L \in SUBSET U /\ n \in U /\ n \notin L
  <2>1. \A k \in S : k \in Nat
    BY DEF Numbers
  <2> QED
    BY <2>1
<1>3. IsFiniteSet(L) /\ Cardinality(L) <= Cardinality(U) /\ Cardinality(U) # Cardinality(L)
  BY <1>1, <1>2, FS_Subset
<1>4. Cardinality(L) \in Nat /\ Cardinality(U) \in Nat
  BY <1>1, <1>3, FS_CardinalityType
<1> QED
  BY <1>3, <1>4 DEF Rank

\* So ranks order the members as their values do.
LEMMA RankOrders ==
  ASSUME NEW S, Numbers(S), NEW m \in S, NEW n \in S
  PROVE  /\ Rank(S, m) <= Rank(S, n) <=> m <= n
         /\ Rank(S, m) = Rank(S, n) => m = n
<1>1. m \in Nat /\ n \in Nat
  BY DEF Numbers
<1>2. Rank(S, m) \in Int /\ Rank(S, n) \in Int
  BY RankType
<1>3. CASE m = n
  BY <1>1, <1>2, <1>3
<1>4. CASE m < n
  <2>1. Rank(S, m) < Rank(S, n)
    BY <1>4, RankStrict
  <2> QED
    BY <2>1, <1>1, <1>2, <1>4
<1>5. CASE n < m
  <2>1. Rank(S, n) < Rank(S, m)
    BY <1>5, RankStrict
  <2> QED
    BY <2>1, <1>1, <1>2, <1>5
<1> QED
  BY <1>1, <1>3, <1>4, <1>5

\* Every rank is somebody's: the ranks are an injection into a set as large.
LEMMA RankTaken ==
  ASSUME NEW S, Numbers(S), NEW i \in 1..Cardinality(S)
  PROVE  \E n \in S : Rank(S, n) = i
<1> DEFINE I == 1..Cardinality(S)
           r == [n \in S |-> Rank(S, n)]
<1>1. Cardinality(S) \in Nat
  BY FS_CardinalityType DEF Numbers
<1>2. r \in [S -> I]
  BY RankType
<1>3. \A m, n \in S : r[m] = r[n] => m = n
  BY RankOrders
<1>4. r \in Injection(S, I)
  BY <1>2, <1>3, Fun_IsInj
<1>5. IsFiniteSet(I) /\ Cardinality(I) = Cardinality(S)
  BY <1>1, FS_Interval
<1>6. r \in Surjection(S, I)
  BY <1>4, <1>5, FS_Injection
<1>7. \E n \in S : r[n] = i
  BY <1>6 DEF Surjection
<1> QED
  BY <1>7

-----------------------------------------------------------------------------
(* InOrder                                                                 *)

\* InOrder puts each member at its rank.
LEMMA InOrderRanks ==
  ASSUME NEW S, Numbers(S)
  PROVE  /\ Cardinality(S) \in Nat
         /\ InOrder(S) \in [1..Cardinality(S) -> S]
         /\ InOrder(S) \in Seq(S)
         /\ Len(InOrder(S)) = Cardinality(S)
         /\ \A i \in 1..Cardinality(S) : Rank(S, InOrder(S)[i]) = i
<1>1. Cardinality(S) \in Nat
  BY FS_CardinalityType DEF Numbers
<1>2. ASSUME NEW i \in 1..Cardinality(S)
      PROVE  InOrder(S)[i] \in S /\ Rank(S, InOrder(S)[i]) = i
  <2> DEFINE x == CHOOSE n \in S : Rank(S, n) = i
  <2>1. x \in S /\ Rank(S, x) = i
    BY RankTaken
  <2>2. InOrder(S)[i] = x
    BY DEF InOrder
  <2> QED
    BY <2>1, <2>2
<1>3. InOrder(S) = [i \in 1..Cardinality(S) |-> InOrder(S)[i]]
  BY DEF InOrder
<1>4. InOrder(S) \in [1..Cardinality(S) -> S]
  BY <1>2, <1>3
<1>5. InOrder(S) \in Seq(S)
  BY <1>1, <1>4, SeqDef
<1>6. Len(InOrder(S)) = Cardinality(S)
  BY <1>1, <1>4, <1>5, LenProperties
<1> QED
  BY <1>1, <1>2, <1>4, <1>5, <1>6

\* A sequence that puts members at their ranks, and has as many, is InOrder.
LEMMA InOrderUnique ==
  ASSUME NEW S, Numbers(S), NEW T, NEW s \in Seq(T), Len(s) = Cardinality(S),
         \A i \in 1..Len(s) : s[i] \in S /\ Rank(S, s[i]) = i
  PROVE  s = InOrder(S)
<1>1. /\ InOrder(S) \in Seq(S) /\ Len(InOrder(S)) = Cardinality(S)
      /\ InOrder(S) \in [1..Cardinality(S) -> S]
      /\ \A i \in 1..Cardinality(S) : Rank(S, InOrder(S)[i]) = i
  BY InOrderRanks
<1>2. ASSUME NEW i \in 1..Len(s) PROVE s[i] = InOrder(S)[i]
  <2>1. InOrder(S)[i] \in S /\ s[i] \in S /\ Rank(S, InOrder(S)[i]) = Rank(S, s[i])
    BY <1>1
  <2> QED
    BY <2>1, RankOrders
<1>3. s \in Seq(T \union S) /\ InOrder(S) \in Seq(T \union S)
  <2>1. s \in [1..Len(s) -> T \union S] /\ Len(s) \in Nat
    BY LenProperties
  <2>2. Len(s) \in Nat /\ InOrder(S) \in [1..Len(s) -> T \union S]
    BY <1>1, <2>1
  <2> QED
    BY <2>1, <2>2, SeqDef
<1> QED
  BY <1>1, <1>2, <1>3, SeqEqual

\* Only the empty set is enumerated by the empty sequence.
LEMMA InOrderEmpty ==
  ASSUME NEW S, Numbers(S)
  PROVE  InOrder(S) = << >> <=> S = {}
<1>1. InOrder(S) \in Seq(S) /\ Len(InOrder(S)) = Cardinality(S)
  BY InOrderRanks
<1>2. InOrder(S) = << >> <=> Len(InOrder(S)) = 0
  BY <1>1, EmptySeq
<1>3. Cardinality(S) = 0 <=> S = {}
  BY FS_EmptySet DEF Numbers
<1> QED
  BY <1>1, <1>2, <1>3

\* The first members of the enumeration enumerate what lies up to the last of them.
LEMMA InOrderPrefix ==
  ASSUME NEW S, Numbers(S), NEW l \in 1..Cardinality(S)
  PROVE  LET k == InOrder(S)[l]
         IN  /\ k \in S
             /\ SubSeq(InOrder(S), 1, l) = InOrder({n \in S : n <= k})
<1> DEFINE k == InOrder(S)[l]
           P == {n \in S : n <= k}
           s == SubSeq(InOrder(S), 1, l)
<1>1. /\ Cardinality(S) \in Nat /\ InOrder(S) \in Seq(S)
      /\ Len(InOrder(S)) = Cardinality(S) /\ InOrder(S) \in [1..Cardinality(S) -> S]
      /\ \A i \in 1..Cardinality(S) : Rank(S, InOrder(S)[i]) = i
  BY InOrderRanks
<1>2. k \in S /\ Rank(S, k) = l
  BY <1>1
<1>3. Numbers(P)
  BY FS_Subset, P \in SUBSET S DEF Numbers
<1>4. Cardinality(P) = l
  BY <1>2 DEF Rank
<1>5. s \in Seq(S) /\ Len(s) = l /\ \A i \in 1..l : s[i] = InOrder(S)[i]
  BY <1>1, SubSeqProperties
<1>6. ASSUME NEW i \in 1..l PROVE s[i] \in P /\ Rank(P, s[i]) = i
  <2>1. i \in 1..Cardinality(S)
    BY <1>1
  <2>2. s[i] \in S /\ Rank(S, s[i]) = i
    BY <1>1, <1>5, <2>1
  <2>3. s[i] <= k
    BY <2>2, <1>2, RankOrders
  <2>4. {m \in P : m <= s[i]} = {m \in S : m <= s[i]}
    <3>1. k \in Nat /\ s[i] \in Nat /\ \A m \in S : m \in Nat
      BY <1>2, <2>2 DEF Numbers
    <3> HIDE DEF k, s
    <3> QED
      BY <2>3, <3>1
  <2> QED
    BY <2>2, <2>3, <2>4 DEF Rank
<1>7. s = InOrder(P)
  <2> HIDE DEF P, s
  <2> QED
    BY <1>3, <1>4, <1>5, <1>6, InOrderUnique
<1> QED
  BY <1>2, <1>7

\* Enumerations join if everything in one set is below everything in the other.
LEMMA InOrderJoins ==
  ASSUME NEW A, NEW B, Numbers(A), Numbers(B), \A m \in A, n \in B : m < n
  PROVE  InOrder(A) \o InOrder(B) = InOrder(A \union B)
<1> DEFINE S == A \union B
           s == InOrder(A) \o InOrder(B)
<1>1. Numbers(S)
  BY FS_Union DEF Numbers
<1>2. A \intersect B = {}
  BY DEF Numbers
<1>3. Cardinality(S) = Cardinality(A) + Cardinality(B)
  <2>1. Cardinality(A \intersect B) = 0 /\ Cardinality(A) \in Nat /\ Cardinality(B) \in Nat
    BY <1>2, FS_EmptySet, FS_CardinalityType DEF Numbers
  <2>2. Cardinality(S) = Cardinality(A) + Cardinality(B) - Cardinality(A \intersect B)
    BY FS_Union DEF Numbers
  <2> QED
    BY <2>1, <2>2
<1>4. /\ Cardinality(A) \in Nat /\ InOrder(A) \in Seq(A) /\ Len(InOrder(A)) = Cardinality(A)
      /\ InOrder(A) \in [1..Cardinality(A) -> A]
      /\ \A i \in 1..Cardinality(A) : Rank(A, InOrder(A)[i]) = i
  BY InOrderRanks
<1>5. /\ Cardinality(B) \in Nat /\ InOrder(B) \in Seq(B) /\ Len(InOrder(B)) = Cardinality(B)
      /\ InOrder(B) \in [1..Cardinality(B) -> B]
      /\ \A i \in 1..Cardinality(B) : Rank(B, InOrder(B)[i]) = i
  BY InOrderRanks
<1>6. /\ s \in Seq(S) /\ Len(s) = Cardinality(S)
      /\ \A i \in 1..Cardinality(S) :
           s[i] = IF i <= Cardinality(A) THEN InOrder(A)[i] ELSE InOrder(B)[i - Cardinality(A)]
  <2>1. InOrder(A) \in Seq(S) /\ InOrder(B) \in Seq(S)
    BY <1>4, <1>5, SeqMonotonic, A \subseteq S, B \subseteq S
  <2>2. /\ s \in Seq(S) /\ Len(s) = Len(InOrder(A)) + Len(InOrder(B))
        /\ \A i \in 1..Len(InOrder(A)) + Len(InOrder(B)) :
             s[i] = IF i <= Len(InOrder(A)) THEN InOrder(A)[i] ELSE InOrder(B)[i - Len(InOrder(A))]
    <3> HIDE DEF S
    <3> QED
      BY <2>1, ConcatProperties
  <2> HIDE DEF S, s
  <2> QED
    BY <2>2, <1>3, <1>4, <1>5
<1>7. ASSUME NEW i \in 1..Cardinality(S) PROVE s[i] \in S /\ Rank(S, s[i]) = i
  <2>1. CASE i <= Cardinality(A)
    <3> DEFINE x == InOrder(A)[i]
    <3>1. i \in 1..Cardinality(A) /\ s[i] = x
      BY <1>4, <1>6, <2>1
    <3>2. x \in A /\ Rank(A, x) = i
      BY <1>4, <3>1
    <3>3. {m \in S : m <= x} = {m \in A : m <= x}
      <4>1. /\ \A m \in A : m \in Nat
            /\ \A m \in B : m \in Nat /\ x < m
        BY <3>2 DEF Numbers
      <4> HIDE DEF x
      <4> QED
        BY <3>2, <4>1
    <3> QED
      BY <3>1, <3>2, <3>3 DEF Rank
  <2>2. CASE ~(i <= Cardinality(A))
    <3> DEFINE j == i - Cardinality(A)
               x == InOrder(B)[j]
               U == {m \in B : m <= x}
    <3>1. j \in 1..Cardinality(B) /\ s[i] = x
      BY <1>3, <1>4, <1>5, <1>6, <2>2
    <3>2. x \in B /\ Rank(B, x) = j
      BY <1>5, <3>1
    <3>3. {m \in S : m <= x} = A \union U
      <4>1. /\ \A m \in A : m \in Nat /\ m < x
            /\ \A m \in B : m \in Nat
        BY <3>2 DEF Numbers
      <4> HIDE DEF x
      <4> QED
        BY <3>2, <4>1
    <3>4. IsFiniteSet(U) /\ Cardinality(U) = j
      BY <3>2, FS_Subset, U \in SUBSET B DEF Rank, Numbers
    <3>5. Cardinality(A \intersect U) = 0
      BY <1>2, FS_EmptySet, A \intersect U = {}
    <3>6. Cardinality(A \union U) = Cardinality(A) + Cardinality(U) - Cardinality(A \intersect U)
      BY <3>4, FS_Union DEF Numbers
    <3>7. Rank(S, x) = Cardinality(A \union U)
      BY <3>3 DEF Rank
    <3>8. Rank(S, x) = i
      BY <3>4, <3>5, <3>6, <3>7, <1>4, i \in Int
    <3> QED
      BY <3>1, <3>2, <3>8
  <2> QED
    BY <2>1, <2>2
<1> QED
  <2> HIDE DEF S, s
  <2>1. s = InOrder(S)
    BY <1>1, <1>6, <1>7, InOrderUnique
  <2> QED
    BY <2>1 DEF S, s

-----------------------------------------------------------------------------
(* The invariant                                                           *)

\* What the publishers keep.
ServerSound ==
  /\ domainEvents \in Seq(BOOLEAN) /\ Len(domainEvents) <= MaxEvents
  /\ terminal \in BOOLEAN
  /\ unnotified \in Nat /\ signal \in Nat
  /\ signal + unnotified <= MaxNotifications

\* The tables of the requests and of what was received have their keys.
Tabled ==
  /\ request = [r \in Clients \union Waiters |-> request[r]]
  /\ cursor \in [Clients -> Cursors]
  /\ start \in [Clients -> Cursors]
  /\ received = [c \in Clients |-> received[c]]

\* A client that has come as far as its cursor misses nothing if it continues at k.
Reached(c, k) ==
  /\ k \in 0..Len(domainEvents)
  /\ cursor[c] \in Nat => cursor[c] <= k /\ Selected(cursor[c], k) = {}

\* The channel of the request is open, and no transaction is about to close it.
Undisturbed(q) == q.snapshot = signal /\ unnotified = 0

\* What a request of client c knows at each of its statements.  A channel that was
\* taken before the read and is still open vouches for what was read.
ClientSound(c, q) ==
  /\ q \in {Idle} \union FeedRequest
  /\ q.at \in {"snapshot", "highwater"} =>
       (q.checked => Reached(c, q.cursor)) /\ (~q.checked => q.cursor = cursor[c])
  /\ q.at \in {"list", "parked", "finalHighwater", "finalList", "answered"} =>
       Reached(c, q.cursor)
  /\ q.at \in {"list", "finalList"} => q.highWater \in q.cursor..Len(domainEvents)
  /\ q.at = "answered" =>
       /\ q.next \in q.cursor..Len(domainEvents)
       /\ q.items = ListDownloadEvents(q.cursor, q.next)
  /\ q.at \in {"highwater", "list", "parked"} => q.snapshot <= signal
  /\ q.at = "list" /\ Undisturbed(q) => q.highWater = Len(domainEvents)
  /\ q.at = "parked" /\ Undisturbed(q) => q.cursor = Len(domainEvents)

\* The same of a request that waits for an outcome.
WaiterSound(q) ==
  /\ q \in {Idle} \union WaitRequest
  /\ q.at \in {"read", "parked"} => q.snapshot <= signal
  /\ q.at = "parked" /\ Undisturbed(q) => ~terminal

\* Either a client has received nothing and stands where it started, or it has
\* all that is selected from there to its cursor.
FeedSound(c) ==
  /\ received[c] \in Seq(Sequences)
  /\ \/ start[c] = cursor[c] /\ received[c] = << >>
     \/ /\ start[c] \in Nat /\ cursor[c] \in Nat
        /\ start[c] <= cursor[c] /\ cursor[c] <= Len(domainEvents)
        /\ received[c] = ListDownloadEvents(start[c], cursor[c])

Inv ==
  /\ ServerSound
  /\ Tabled
  /\ \A c \in Clients : ClientSound(c, request[c]) /\ FeedSound(c)
  /\ \A w \in Waiters : WaiterSound(request[w])

-----------------------------------------------------------------------------
(* What the list of events does                                            *)

\* What is selected between two positions of the table is a finite set of
\* sequences.
LEMMA SelectedNumbers ==
  ASSUME NEW a \in Nat, NEW b \in Nat
  PROVE  Numbers(Selected(a, b)) /\ \A n \in Selected(a, b) : n \in a + 1..b
<1>1. Selected(a, b) \in SUBSET (a + 1..b)
  BY DEF Selected
<1>2. IsFiniteSet(a + 1..b)
  BY FS_Interval
<1> QED
  BY <1>1, <1>2, FS_Subset DEF Numbers

\* Pages are typed.
LEMMA ListType ==
  ASSUME NEW a \in Nat, NEW b \in Sequences, MaxEvents \in Nat
  PROVE  ListDownloadEvents(a, b) \in Seq(Sequences)
<1>1. b \in Nat
  BY DEF Sequences
<1>2. Numbers(Selected(a, b)) /\ Selected(a, b) \subseteq Sequences
  BY <1>1, SelectedNumbers DEF Sequences
<1>3. ListDownloadEvents(a, b) \in Seq(Selected(a, b))
  BY <1>2, InOrderRanks DEF ListDownloadEvents
<1> QED
  BY <1>2, <1>3, SeqMonotonic

\* A list is empty exactly when nothing is selected.
LEMMA ListEmpty ==
  ASSUME NEW a \in Nat, NEW b \in Nat
  PROVE  ListDownloadEvents(a, b) = << >> <=> Selected(a, b) = {}
BY SelectedNumbers, InOrderEmpty DEF ListDownloadEvents

\* The lists up to b and from k make one list.
Joined(a, b, k, e) ==
  ListDownloadEvents(a, b) \o ListDownloadEvents(k, e) = ListDownloadEvents(a, e)

\* The list up to b followed by the list from k is the whole list, if nothing is
\* selected in between.
LEMMA ListsJoin ==
  ASSUME NEW a \in Nat, NEW b \in Nat, NEW k \in Nat, NEW e \in Nat,
         a <= b, b <= k, k <= e, Selected(b, k) = {}
  PROVE  Joined(a, b, k, e)
<1>1. Selected(a, e) = Selected(a, b) \union Selected(k, e)
  <2>1. \A n \in b + 1..k : ~domainEvents[n]
    BY DEF Selected
  <2>2. a + 1..e = (a + 1..b) \union (b + 1..k) \union (k + 1..e)
    OBVIOUS
  <2> QED
    BY <2>1, <2>2, Zenon DEF Selected
<1>2. Numbers(Selected(a, b)) /\ Numbers(Selected(k, e))
  BY SelectedNumbers
<1>3. \A m \in Selected(a, b), n \in Selected(k, e) : m < n
  BY SelectedNumbers
<1> QED
  BY <1>1, <1>2, <1>3, InOrderJoins DEF Joined, ListDownloadEvents

\* A page is the list up to its next cursor, cut at the limit or not.
LEMMA PageIsList ==
  ASSUME NEW a \in Nat, NEW b \in Nat, a <= b, limit \in Nat \ {0}
  PROVE  LET events == ListDownloadEvents(a, b)
             next == NextCursor(events, b)
         IN  /\ next \in a..b
             /\ SubSeq(events, 1, IF Len(events) > limit THEN limit ELSE Len(events))
                  = ListDownloadEvents(a, next)
<1> DEFINE S == Selected(a, b)
           events == ListDownloadEvents(a, b)
<1>1. Numbers(S) /\ \A n \in S : n \in a + 1..b
  BY SelectedNumbers
<1>2. events = InOrder(S) /\ events \in Seq(S) /\ Len(events) = Cardinality(S)
      /\ Cardinality(S) \in Nat
  BY <1>1, InOrderRanks DEF ListDownloadEvents
<1>3. CASE Len(events) > limit
  <2> DEFINE k == events[limit]
  <2>1. limit \in 1..Cardinality(S)
    BY <1>2, <1>3
  <2>2. k \in S /\ SubSeq(events, 1, limit) = InOrder({n \in S : n <= k})
    <3> HIDE DEF S
    <3>1. /\ InOrder(S)[limit] \in S
          /\ SubSeq(InOrder(S), 1, limit) = InOrder({n \in S : n <= InOrder(S)[limit]})
      BY <1>1, <2>1, InOrderPrefix
    <3> QED
      BY <3>1, <1>2
  <2>3. k \in a + 1..b
    BY <1>1, <2>2
  <2>4. {n \in S : n <= k} = Selected(a, k)
    <3> HIDE DEF k
    <3>1. {n \in a + 1..b : n <= k} = a + 1..k
      BY <2>3
    <3> QED
      BY <3>1, <1>1, Zenon DEF Selected
  <2>5. NextCursor(events, b) = k
    BY <1>3 DEF NextCursor
  <2>6. SubSeq(events, 1, limit) = ListDownloadEvents(a, k)
    BY <2>2, <2>4 DEF ListDownloadEvents
  <2>7. k \in a..b
    BY <2>3
  <2> HIDE DEF events, k
  <2> QED
    BY <1>3, <2>5, <2>6, <2>7 DEF events
<1>4. CASE ~(Len(events) > limit)
  <2>1. SubSeq(events, 1, Len(events)) = events
    BY <1>2, SubSeqFull
  <2>2. NextCursor(events, b) = b
    BY <1>4 DEF NextCursor
  <2> QED
    BY <1>4, <2>1, <2>2
<1> QED
  BY <1>3, <1>4

-----------------------------------------------------------------------------
(* The requests                                                            *)

\* A statement that leaves everything but its own request alone keeps the
\* invariant if it leaves that request sound.
LEMMA ClientBecomes ==
  ASSUME EventFeedAssumption, Inv, NEW c \in Clients, NEW q,
         ClientSound(c, q), Become(c, q)
  PROVE  Inv'
<1> USE DEF Server
<1>1. /\ domainEvents' = domainEvents /\ terminal' = terminal /\ unnotified' = unnotified
      /\ signal' = signal /\ cursor' = cursor /\ start' = start /\ received' = received
  BY DEF Become
<1>2. /\ request' = [r \in Clients \union Waiters |-> request'[r]]
      /\ \A r \in Clients \union Waiters : request'[r] = IF r = c THEN q ELSE request[r]
  BY DEF Become, Inv, Tabled
<1>3. ServerSound' /\ Tabled'
  BY <1>1, <1>2 DEF Inv, ServerSound, Tabled
<1>4. ASSUME NEW d \in Clients PROVE ClientSound(d, request[d])' /\ FeedSound(d)'
  <2>1. FeedSound(d)'
    BY <1>1 DEF Inv, FeedSound, ListDownloadEvents, Selected
  <2>2. ClientSound(d, request'[d])
    BY <1>2 DEF Inv
  <2>3. ClientSound(d, request[d])'
    BY <1>1, <2>2 DEF ClientSound, Reached, Undisturbed, ListDownloadEvents, Selected
  <2> QED
    BY <2>1, <2>3
<1>5. ASSUME NEW w \in Waiters PROVE WaiterSound(request[w])'
  <2>1. request'[w] = request[w]
    BY <1>2 DEF EventFeedAssumption
  <2> QED
    BY <1>1, <2>1 DEF Inv, WaiterSound, Undisturbed
<1> QED
  BY <1>3, <1>4, <1>5 DEF Inv

\* The same of a waiter.
LEMMA WaiterBecomes ==
  ASSUME EventFeedAssumption, Inv, NEW w \in Waiters, NEW q,
         WaiterSound(q), Become(w, q)
  PROVE  Inv'
<1> USE DEF Server
<1>1. /\ domainEvents' = domainEvents /\ terminal' = terminal /\ unnotified' = unnotified
      /\ signal' = signal /\ cursor' = cursor /\ start' = start /\ received' = received
  BY DEF Become
<1>2. /\ request' = [r \in Clients \union Waiters |-> request'[r]]
      /\ \A r \in Clients \union Waiters : request'[r] = IF r = w THEN q ELSE request[r]
  BY DEF Become, Inv, Tabled
<1>3. ServerSound' /\ Tabled'
  BY <1>1, <1>2 DEF Inv, ServerSound, Tabled
<1>4. ASSUME NEW d \in Clients PROVE ClientSound(d, request[d])' /\ FeedSound(d)'
  <2>1. FeedSound(d)'
    BY <1>1 DEF Inv, FeedSound, ListDownloadEvents, Selected
  <2>2. request'[d] = request[d]
    BY <1>2 DEF EventFeedAssumption
  <2>3. ClientSound(d, request'[d])
    BY <2>2 DEF Inv
  <2>4. ClientSound(d, request[d])'
    BY <1>1, <2>3 DEF ClientSound, Reached, Undisturbed, ListDownloadEvents, Selected
  <2> QED
    BY <2>1, <2>4
<1>5. ASSUME NEW v \in Waiters PROVE WaiterSound(request[v])'
  <2>1. WaiterSound(request'[v])
    BY <1>2 DEF Inv
  <2> QED
    BY <1>1, <2>1 DEF WaiterSound, Undisturbed
<1> QED
  BY <1>3, <1>4, <1>5 DEF Inv

\* A request that is over is sound.
LEMMA IdleIsSound ==
  /\ \A c \in Clients : ClientSound(c, Idle)
  /\ WaiterSound(Idle)
BY DEF ClientSound, WaiterSound, Idle

\* The fields of a request, by the statement it is at.
LEMMA FeedRequestFields ==
  ASSUME NEW q \in {Idle} \union FeedRequest
  PROVE  /\ q.at = "snapshot" => q.cursor \in Cursors /\ q.checked \in BOOLEAN /\ q.wait \in BOOLEAN
         /\ q.at = "highwater" => /\ q.cursor \in Cursors /\ q.checked \in BOOLEAN
                                 /\ q.wait \in BOOLEAN /\ q.snapshot \in Channels
         /\ q.at = "list" => /\ q.cursor \in Sequences /\ q.checked = TRUE
                            /\ q.wait \in BOOLEAN /\ q.snapshot \in Channels
                            /\ q.highWater \in Sequences
         /\ q.at = "parked" => q.cursor \in Sequences /\ q.snapshot \in Channels
         /\ q.at = "finalHighwater" => q.cursor \in Sequences
         /\ q.at = "finalList" => q.cursor \in Sequences /\ q.highWater \in Sequences
         /\ q.at = "answered" => q.cursor \in Sequences /\ q.next \in Sequences
<1> DEFINE
  Snapshot == [at : {"snapshot"}, cursor : Cursors, checked : BOOLEAN, wait : BOOLEAN]
  Highwater == [at : {"highwater"}, cursor : Cursors, checked : BOOLEAN, wait : BOOLEAN,
                snapshot : Channels]
  List == [at : {"list"}, cursor : Sequences, checked : {TRUE}, wait : BOOLEAN,
           snapshot : Channels, highWater : Sequences]
  Parked == [at : {"parked"}, cursor : Sequences, checked : {TRUE}, wait : {TRUE},
             snapshot : Channels]
  FinalHighwater == [at : {"finalHighwater"}, cursor : Sequences]
  FinalScan == [at : {"finalList"}, cursor : Sequences, highWater : Sequences]
  Answered == [at : {"answered"}, items : Seq(Sequences), next : Sequences, cursor : Sequences]
<1>1. \/ q = Idle \/ q \in Snapshot \/ q \in Highwater \/ q \in List \/ q \in Parked
      \/ q \in FinalHighwater \/ q \in FinalScan \/ q \in Answered
  BY Zenon DEF FeedRequest
<1>2. CASE q = Idle
  BY <1>2 DEF Idle
<1>3. CASE q \in Snapshot
  BY <1>3
<1>4. CASE q \in Highwater
  BY <1>4
<1>5. CASE q \in List
  BY <1>5
<1>6. CASE q \in Parked
  BY <1>6
<1>7. CASE q \in FinalHighwater
  BY <1>7
<1>8. CASE q \in FinalScan
  BY <1>8
<1>9. CASE q \in Answered
  BY <1>9
<1> QED
  BY <1>1, <1>2, <1>3, <1>4, <1>5, <1>6, <1>7, <1>8, <1>9

\* A request goes on where the client's cursor stands.
LEMMA BeginEventsKeeps ==
  ASSUME EventFeedAssumption, Inv, NEW c \in Clients, NEW wait \in BOOLEAN,
         BeginEvents(c, wait)
  PROVE  Inv'
<1> DEFINE q == [at |-> "snapshot", cursor |-> cursor[c], checked |-> FALSE, wait |-> wait]
<1>1. cursor[c] \in Cursors
  BY DEF Inv, Tabled
<1>2. q \in FeedRequest
  BY <1>1 DEF FeedRequest
<1>3. ClientSound(c, q)
  BY <1>2 DEF ClientSound
<1>4. Become(c, q)
  BY DEF BeginEvents
<1> HIDE DEF q
<1> QED
  BY <1>3, <1>4, ClientBecomes

\* A snapshot is the open channel.
LEMMA SnapshotEventsKeeps ==
  ASSUME EventFeedAssumption, Inv, NEW c \in Clients, SnapshotEvents(c)
  PROVE  Inv'
<1> DEFINE p == request[c]
           q == [at |-> "highwater", cursor |-> p.cursor, checked |-> p.checked,
                 wait |-> p.wait, snapshot |-> signal]
<1>1. ClientSound(c, p) /\ p.at = "snapshot" /\ Become(c, q)
  BY DEF Inv, SnapshotEvents
<1>2. signal \in Nat /\ signal \in Channels
  BY DEF Inv, ServerSound, Channels, EventFeedAssumption
<1>3. p.cursor \in Cursors /\ p.checked \in BOOLEAN /\ p.wait \in BOOLEAN
  <2> HIDE DEF p
  <2> QED
    BY <1>1, FeedRequestFields DEF ClientSound
<1>4. q \in FeedRequest
  <2> HIDE DEF p
  <2> QED
    BY <1>2, <1>3 DEF FeedRequest
<1>5. ClientSound(c, q)
  <2> HIDE DEF p
  <2> QED
    BY <1>1, <1>2, <1>4 DEF ClientSound
<1> HIDE DEF q
<1> QED
  BY <1>1, <1>5, ClientBecomes

\* A first high-water mark behind the cursor ends the request; otherwise the cursor
\* is one that the table has reached, and the mark is the end of the table.
LEMMA ReadHighWaterKeeps ==
  ASSUME EventFeedAssumption, Inv, NEW c \in Clients, ReadHighWater(c)
  PROVE  Inv'
<1> DEFINE p == request[c]
           from == ResolvedCursor(p)
           q == [at |-> "list", cursor |-> from, checked |-> TRUE, wait |-> p.wait,
                 snapshot |-> p.snapshot, highWater |-> LatestEventSequence]
<1>1. ClientSound(c, p) /\ p.at = "highwater"
  BY DEF Inv, ReadHighWater
<1>2. /\ p.cursor \in Cursors /\ p.checked \in BOOLEAN
      /\ p.wait \in BOOLEAN /\ p.snapshot \in Channels
  <2> HIDE DEF p
  <2> QED
    BY <1>1, FeedRequestFields DEF ClientSound
<1>3. CASE Become(c, Idle)
  BY <1>3, IdleIsSound, ClientBecomes
<1>4. CASE /\ ~(p.cursor # Latest /\ ~p.checked /\ from > LatestEventSequence)
           /\ Become(c, q)
  <2>1. Len(domainEvents) \in 0..MaxEvents /\ MaxEvents \in Nat
    BY LenProperties DEF Inv, ServerSound, EventFeedAssumption
  <2>2. from \in 0..Len(domainEvents) /\ Reached(c, from)
    <3> HIDE DEF p
    <3>1. CASE p.cursor = Latest
      <4>1. from = Len(domainEvents)
        BY <3>1 DEF ResolvedCursor, LatestEventSequence
      <4>2. ~p.checked
        BY <1>1, <3>1, <2>1 DEF ClientSound, Reached, EventFeedAssumption
      <4>3. cursor[c] = Latest
        BY <1>1, <3>1, <4>2 DEF ClientSound
      <4> QED
        BY <4>1, <4>3, <2>1 DEF Reached, EventFeedAssumption
    <3>2. CASE p.cursor # Latest
      <4>1. from = p.cursor /\ from \in Nat
        BY <1>2, <3>2, <2>1 DEF ResolvedCursor, Cursors
      <4>2. CASE p.checked
        BY <1>1, <4>1, <4>2 DEF ClientSound, Reached
      <4>3. CASE ~p.checked
        <5>1. from = cursor[c]
          BY <1>1, <4>1, <4>3 DEF ClientSound
        <5>2. from <= Len(domainEvents)
          BY <1>4, <3>2, <4>1, <4>3, <2>1 DEF LatestEventSequence
        <5>3. Selected(from, from) = {}
          BY <4>1 DEF Selected
        <5> QED
          BY <4>1, <5>1, <5>2, <5>3, <2>1 DEF Reached
      <4> QED
        BY <4>2, <4>3
    <3> QED
      BY <3>1, <3>2
  <2>3. q \in FeedRequest
    <3> HIDE DEF p, from
    <3>1. from \in Sequences /\ LatestEventSequence \in Sequences
      BY <2>1, <2>2 DEF Sequences, LatestEventSequence
    <3>2. q \in [at : {"list"}, cursor : Sequences, checked : {TRUE}, wait : BOOLEAN,
                snapshot : Channels, highWater : Sequences]
      BY <1>2, <3>1
    <3> QED
      BY <3>2, Zenon DEF FeedRequest
  <2>4. ClientSound(c, q)
    <3> HIDE DEF p, from
    <3>1. p.snapshot <= signal
      BY <1>1 DEF ClientSound
    <3> QED
      BY <2>1, <2>2, <2>3, <3>1 DEF ClientSound, LatestEventSequence
  <2> HIDE DEF q
  <2> QED
    BY <1>4, <2>4, ClientBecomes
<1> QED
  BY <1>3, <1>4 DEF ReadHighWater

\* The page that is written is the list from the cursor to the next one.
LEMMA WriteEventsKeeps ==
  ASSUME EventFeedAssumption, Inv, NEW c \in Clients, NEW a \in Nat, NEW b \in Nat,
         a <= b, b <= Len(domainEvents), Reached(c, a),
         writeEvents(c, ListDownloadEvents(a, b), a, b)
  PROVE  Inv'
<1> DEFINE events == ListDownloadEvents(a, b)
           next == NextCursor(events, b)
           items == SubSeq(events, 1, IF Len(events) > limit THEN limit ELSE Len(events))
           q == [at |-> "answered", cursor |-> a, next |-> next, items |-> items]
<1>1. Become(c, q)
  BY Zenon DEF writeEvents
<1>2. next \in a..b /\ items = ListDownloadEvents(a, next)
  BY PageIsList DEF EventFeedAssumption
<1>3. Len(domainEvents) \in 0..MaxEvents /\ MaxEvents \in Nat
  BY LenProperties DEF Inv, ServerSound, EventFeedAssumption
<1>4. a \in Sequences /\ next \in Sequences /\ next \in Nat
  <2> HIDE DEF next
  <2> QED
    BY <1>2, <1>3 DEF Sequences
<1>5. items \in Seq(Sequences)
  <2> HIDE DEF next, items
  <2> QED
    BY <1>2, <1>3, <1>4, ListType
<1> HIDE DEF next, items
<1>6. q \in FeedRequest
  BY <1>4, <1>5 DEF FeedRequest
<1>7. ClientSound(c, q)
  BY <1>2, <1>3, <1>6 DEF ClientSound
<1> HIDE DEF q
<1> QED
  BY <1>1, <1>7, ClientBecomes

\* Positions that a sound request holds are positions of the table.
LEMMA ListPositions ==
  ASSUME EventFeedAssumption, Inv, NEW c \in Clients, NEW q, ClientSound(c, q)
  PROVE  /\ Len(domainEvents) \in 0..MaxEvents /\ MaxEvents \in Nat
         /\ q.at \in {"list", "parked", "finalHighwater", "finalList", "answered"} =>
              q.cursor \in 0..Len(domainEvents) /\ Reached(c, q.cursor)
         /\ q.at \in {"list", "finalList"} =>
              /\ q.highWater \in 0..Len(domainEvents)
              /\ q.cursor <= q.highWater
<1>1. Len(domainEvents) \in 0..MaxEvents /\ MaxEvents \in Nat
  BY LenProperties DEF Inv, ServerSound, EventFeedAssumption
<1>2. ASSUME q.at \in {"list", "parked", "finalHighwater", "finalList", "answered"}
      PROVE  q.cursor \in 0..Len(domainEvents) /\ Reached(c, q.cursor)
  BY <1>2 DEF ClientSound, Reached
<1>3. ASSUME q.at \in {"list", "finalList"}
      PROVE  q.highWater \in 0..Len(domainEvents) /\ q.cursor <= q.highWater
  BY <1>1, <1>2, <1>3 DEF ClientSound
<1> QED
  BY <1>1, <1>2, <1>3

\* An empty page of a request that waits moves the cursor over what was scanned: it
\* holds nothing for the client, and is the whole table if the channel is still open.
LEMMA ListEventsKeeps ==
  ASSUME EventFeedAssumption, Inv, NEW c \in Clients, ListEvents(c)
  PROVE  Inv'
<1> DEFINE p == request[c]
           events == ListDownloadEvents(p.cursor, p.highWater)
           q == [at |-> "parked", cursor |-> p.highWater, checked |-> TRUE, wait |-> TRUE,
                 snapshot |-> p.snapshot]
<1>1. ClientSound(c, p) /\ p.at = "list"
  BY DEF Inv, ListEvents
<1>2. /\ p.cursor \in 0..Len(domainEvents) /\ p.highWater \in 0..Len(domainEvents)
      /\ p.cursor <= p.highWater /\ Reached(c, p.cursor)
      /\ Len(domainEvents) \in 0..MaxEvents /\ MaxEvents \in Nat
  <2> HIDE DEF p
  <2> QED
    BY <1>1, ListPositions
<1>3. CASE writeEvents(c, events, p.cursor, p.highWater)
  <2> HIDE DEF p
  <2> QED
    BY <1>2, <1>3, WriteEventsKeeps
<1>4. CASE events = << >> /\ Become(c, q)
  <2> HIDE DEF p
  <2>1. Selected(p.cursor, p.highWater) = {}
    BY <1>2, <1>4, ListEmpty
  <2>2. Reached(c, p.highWater)
    <3>1. ASSUME cursor[c] \in Nat
          PROVE  cursor[c] <= p.highWater /\ Selected(cursor[c], p.highWater) = {}
      <4>1. cursor[c] <= p.cursor /\ Selected(cursor[c], p.cursor) = {}
        BY <1>2, <3>1 DEF Reached
      <4> QED
        BY <1>2, <2>1, <3>1, <4>1 DEF Selected
    <3> QED
      BY <1>2, <3>1 DEF Reached
  <2>3. p.snapshot \in Channels
    BY <1>1, FeedRequestFields DEF ClientSound
  <2>4. q \in FeedRequest
    <3>1. p.highWater \in Sequences
      BY <1>2 DEF Sequences
    <3>2. q \in [at : {"parked"}, cursor : Sequences, checked : {TRUE}, wait : {TRUE},
                snapshot : Channels]
      BY <2>3, <3>1
    <3> QED
      BY <3>2, Zenon DEF FeedRequest
  <2>5. p.snapshot <= signal /\ (Undisturbed(p) => p.highWater = Len(domainEvents))
    BY <1>1 DEF ClientSound
  <2>6. ClientSound(c, q)
    BY <2>2, <2>4, <2>5 DEF ClientSound, Undisturbed
  <2> HIDE DEF q
  <2> QED
    BY <1>4, <2>6, ClientBecomes
<1> QED
  BY <1>3, <1>4 DEF ListEvents, Scanned, Channel

\* A request that is woken looks again from where it parked.
LEMMA WakeEventsKeeps ==
  ASSUME EventFeedAssumption, Inv, NEW c \in Clients, WakeEvents(c)
  PROVE  Inv'
<1> DEFINE p == request[c]
           q == [at |-> "snapshot", cursor |-> p.cursor, checked |-> TRUE, wait |-> TRUE]
<1>1. ClientSound(c, p) /\ p.at = "parked" /\ Become(c, q)
  BY DEF Inv, WakeEvents, Woken
<1> HIDE DEF p
<1>2. p.cursor \in 0..Len(domainEvents) /\ Reached(c, p.cursor)
      /\ Len(domainEvents) \in 0..MaxEvents /\ MaxEvents \in Nat
  BY <1>1, ListPositions
<1>3. p.cursor \in Cursors
  BY <1>2 DEF Cursors
<1>4. q \in FeedRequest
  BY <1>3 DEF FeedRequest
<1>5. ClientSound(c, q)
  BY <1>2, <1>4 DEF ClientSound
<1> HIDE DEF q
<1> QED
  BY <1>1, <1>5, ClientBecomes

\* The final scan starts from there too.
LEMMA DeadlineEventsKeeps ==
  ASSUME EventFeedAssumption, Inv, NEW c \in Clients, DeadlineEvents(c)
  PROVE  Inv'
<1> DEFINE p == request[c]
           q == [at |-> "finalHighwater", cursor |-> p.cursor]
<1>1. ClientSound(c, p) /\ p.at = "parked" /\ Become(c, q)
  BY DEF Inv, DeadlineEvents
<1> HIDE DEF p
<1>2. p.cursor \in Sequences /\ Reached(c, p.cursor)
  BY <1>1, ListPositions, FeedRequestFields DEF ClientSound
<1>3. q \in FeedRequest
  BY <1>2 DEF FeedRequest
<1>4. ClientSound(c, q)
  BY <1>2, <1>3 DEF ClientSound
<1> HIDE DEF q
<1> QED
  BY <1>1, <1>4, ClientBecomes

\* Its high-water mark is the end of the table.
LEMMA FinalHighWaterKeeps ==
  ASSUME EventFeedAssumption, Inv, NEW c \in Clients, FinalHighWater(c)
  PROVE  Inv'
<1> DEFINE p == request[c]
           q == [at |-> "finalList", cursor |-> p.cursor, highWater |-> LatestEventSequence]
<1>1. ClientSound(c, p) /\ p.at = "finalHighwater" /\ Become(c, q)
  BY DEF Inv, FinalHighWater
<1> HIDE DEF p
<1>2. p.cursor \in 0..Len(domainEvents) /\ Reached(c, p.cursor)
      /\ Len(domainEvents) \in 0..MaxEvents /\ MaxEvents \in Nat
  BY <1>1, ListPositions
<1>3. p.cursor \in Sequences /\ LatestEventSequence \in Sequences
  BY <1>2 DEF Sequences, LatestEventSequence
<1>4. q \in FeedRequest
  BY <1>3 DEF FeedRequest
<1>5. ClientSound(c, q)
  BY <1>2, <1>4 DEF ClientSound, LatestEventSequence
<1> HIDE DEF q
<1> QED
  BY <1>1, <1>5, ClientBecomes

\* The final page is written like any other.
LEMMA FinalListKeeps ==
  ASSUME EventFeedAssumption, Inv, NEW c \in Clients, FinalList(c)
  PROVE  Inv'
<1> DEFINE p == request[c]
<1>1. ClientSound(c, p) /\ p.at = "finalList"
      /\ writeEvents(c, ListDownloadEvents(p.cursor, p.highWater), p.cursor, p.highWater)
  BY Zenon DEF Inv, FinalList
<1> HIDE DEF p
<1>2. /\ p.cursor \in 0..Len(domainEvents) /\ p.highWater \in 0..Len(domainEvents)
      /\ p.cursor <= p.highWater /\ Reached(c, p.cursor)
  BY <1>1, ListPositions
<1>3. p.cursor \in Nat /\ p.highWater \in Nat /\ p.highWater <= Len(domainEvents)
  <2>1. Len(domainEvents) \in Nat
    BY <1>1, ListPositions
  <2> QED
    BY <1>2, <2>1
<1> QED
  BY <1>1, <1>2, <1>3, WriteEventsKeeps

-----------------------------------------------------------------------------
(* The client takes a page                                                 *)

\* The page joins what was received before: nothing is selected between the
\* cursor and the page.
LEMMA ReceiveEventsKeeps ==
  ASSUME EventFeedAssumption, Inv, NEW c \in Clients, ReceiveEvents(c)
  PROVE  Inv'
<1> DEFINE p == request[c]
<1>1. /\ ClientSound(c, p) /\ p.at = "answered"
      /\ received' = [received EXCEPT ![c] = @ \o p.items]
      /\ cursor' = [cursor EXCEPT ![c] = p.next]
      /\ start' = [start EXCEPT ![c] = IF @ = Latest THEN p.cursor ELSE @]
      /\ request' = [request EXCEPT ![c] = Idle]
      /\ UNCHANGED <<domainEvents, terminal, unnotified, signal>>
  BY DEF Inv, ReceiveEvents
<1> HIDE DEF p
<1>2. /\ p.cursor \in 0..Len(domainEvents) /\ Reached(c, p.cursor)
      /\ Len(domainEvents) \in 0..MaxEvents /\ MaxEvents \in Nat
  BY <1>1, ListPositions
<1>3. /\ p.next \in p.cursor..Len(domainEvents)
      /\ p.items = ListDownloadEvents(p.cursor, p.next)
  BY <1>1 DEF ClientSound
<1>4. p.cursor \in Sequences /\ p.next \in Sequences /\ p.cursor \in Nat /\ p.next \in Nat
      /\ p.cursor <= p.next /\ p.next <= Len(domainEvents)
  BY <1>2, <1>3 DEF Sequences
<1>5. p.items \in Seq(Sequences)
  BY <1>2, <1>3, <1>4, ListType
<1>6. /\ request' = [r \in Clients \union Waiters |-> request'[r]]
      /\ \A r \in Clients \union Waiters : request'[r] = IF r = c THEN Idle ELSE request[r]
  BY <1>1 DEF Inv, Tabled
<1>7. ServerSound'
  BY <1>1 DEF Inv, ServerSound
<1>8. p.next \in Cursors /\ p.cursor \in Cursors
  BY <1>4, <1>2 DEF Cursors
<1>9. Tabled'
  BY <1>1, <1>6, <1>8 DEF Inv, Tabled
<1>10. ASSUME NEW d \in Clients PROVE ClientSound(d, request[d])' /\ FeedSound(d)'
  <2>1. CASE d # c
    <3>1. /\ request'[d] = request[d] /\ cursor'[d] = cursor[d] /\ start'[d] = start[d]
          /\ received'[d] = received[d]
      BY <1>1, <1>6, <2>1 DEF Inv, Tabled
    <3>2. ClientSound(d, request'[d]) /\ FeedSound(d)
      BY <3>1 DEF Inv
    <3>3. ClientSound(d, request[d])'
      BY <1>1, <3>1, <3>2 DEF ClientSound, Reached, Undisturbed, ListDownloadEvents, Selected
    <3>4. FeedSound(d)'
      BY <1>1, <3>1, <3>2 DEF FeedSound, ListDownloadEvents, Selected
    <3> QED
      BY <3>3, <3>4
  <2>2. CASE d = c
    <3>1. /\ request'[c] = Idle /\ cursor'[c] = p.next
          /\ start'[c] = IF start[c] = Latest THEN p.cursor ELSE start[c]
          /\ received'[c] = received[c] \o p.items
      BY <1>1, <1>6 DEF Inv, Tabled
    <3>2. ClientSound(c, request[c])'
      BY <3>1 DEF ClientSound, Idle
    <3>3. FeedSound(c)
      BY DEF Inv
    <3>4. received'[c] \in Seq(Sequences)
      BY <1>5, <3>1, <3>3, ConcatProperties DEF FeedSound
    <3>5. \A a, b : ListDownloadEvents(a, b)' = ListDownloadEvents(a, b)
      BY <1>1 DEF ListDownloadEvents, Selected
    <3>6. /\ start'[c] \in Nat /\ start'[c] <= p.next
          /\ received'[c] = ListDownloadEvents(start'[c], p.next)
      <4>1. CASE start[c] = cursor[c] /\ received[c] = << >>
        <5>1. received'[c] = p.items
          BY <1>5, <3>1, <4>1, ConcatEmptySeq
        <5>2. CASE start[c] = Latest
          BY <1>3, <1>4, <3>1, <5>1, <5>2
        <5>3. CASE start[c] # Latest
          <6>1. start'[c] = start[c] /\ start[c] \in Cursors
            BY <3>1, <5>3 DEF Inv, Tabled
          <6>2. start[c] \in Nat
            BY <5>3, <6>1, <1>2 DEF Cursors
          <6>3. start[c] <= p.cursor /\ Selected(start[c], p.cursor) = {}
            BY <1>2, <4>1, <6>2 DEF Reached
          <6>4. Selected(start[c], start[c]) = {}
            BY <6>2 DEF Selected
          <6>5. ListDownloadEvents(start[c], start[c]) = << >>
            BY <6>2, <6>4, ListEmpty
          <6>6. Joined(start[c], start[c], p.cursor, p.next)
            BY <1>4, <6>2, <6>3, ListsJoin
          <6>7. received'[c] = ListDownloadEvents(start[c], p.next)
            BY <1>3, <1>5, <5>1, <6>5, <6>6, ConcatEmptySeq DEF Joined
          <6> QED
            BY <6>1, <6>2, <6>3, <6>7, <1>4
        <5> QED
          BY <5>2, <5>3
      <4>2. CASE /\ start[c] \in Nat /\ cursor[c] \in Nat
                 /\ start[c] <= cursor[c] /\ cursor[c] <= Len(domainEvents)
                 /\ received[c] = ListDownloadEvents(start[c], cursor[c])
        <5>1. start'[c] = start[c]
          BY <3>1, <4>2 DEF EventFeedAssumption
        <5>2. cursor[c] <= p.cursor /\ Selected(cursor[c], p.cursor) = {}
          BY <1>2, <4>2 DEF Reached
        <5>3. ListDownloadEvents(start[c], cursor[c]) \o ListDownloadEvents(p.cursor, p.next)
                = ListDownloadEvents(start[c], p.next)
          <6>1. Joined(start[c], cursor[c], p.cursor, p.next)
            BY <1>4, <4>2, <5>2, ListsJoin
          <6> QED
            BY <6>1 DEF Joined
        <5> QED
          BY <1>3, <1>4, <3>1, <4>2, <5>1, <5>2, <5>3
      <4> QED
        BY <3>3, <4>1, <4>2 DEF FeedSound
    <3>7. FeedSound(c)'
      BY <1>1, <1>4, <3>1, <3>4, <3>5, <3>6 DEF FeedSound
    <3> QED
      BY <2>2, <3>2, <3>7
  <2> QED
    BY <2>1, <2>2
<1>11. ASSUME NEW w \in Waiters PROVE WaiterSound(request[w])'
  <2>1. request'[w] = request[w]
    BY <1>6 DEF EventFeedAssumption
  <2> QED
    BY <1>1, <2>1 DEF Inv, WaiterSound, Undisturbed
<1> QED
  BY <1>7, <1>9, <1>10, <1>11 DEF Inv

-----------------------------------------------------------------------------
(* The waiters                                                             *)

\* The fields of a waiting request, by the statement it is at.
LEMMA WaitRequestFields ==
  ASSUME NEW q \in {Idle} \union WaitRequest, q.at \in {"read", "parked"}
  PROVE  q.snapshot \in Channels
<1>1. q = Idle \/ q \in [at : {"snapshot", "finalRead"}]
      \/ q \in [at : {"read", "parked"}, snapshot : Channels]
  BY Zenon DEF WaitRequest
<1>2. q # Idle
  BY DEF Idle
<1>3. CASE q \in [at : {"snapshot", "finalRead"}]
  BY <1>3
<1>4. CASE q \in [at : {"read", "parked"}, snapshot : Channels]
  BY <1>4
<1> QED
  BY <1>1, <1>2, <1>3, <1>4

\* Each statement of serveDownloadWait leaves its request sound: it parks only when
\* the read that found no outcome came after the snapshot.
LEMMA WaiterKeeps ==
  ASSUME EventFeedAssumption, Inv, NEW w \in Waiters,
         BeginWait(w) \/ Waiter(w) \/ DeadlineWait(w)
  PROVE  Inv'
<1> DEFINE p == request[w]
<1>1. WaiterSound(p)
  BY DEF Inv
<1>2. signal \in Channels /\ signal <= signal
  BY DEF Inv, ServerSound, Channels, EventFeedAssumption
<1>3. CASE Become(w, Idle)
  BY <1>3, IdleIsSound, WaiterBecomes
<1>4. CASE Become(w, [at |-> "snapshot"])
  <2>1. WaiterSound([at |-> "snapshot"])
    BY DEF WaiterSound, WaitRequest
  <2> QED
    BY <1>4, <2>1, WaiterBecomes
<1>5. CASE Become(w, [at |-> "finalRead"])
  <2>1. WaiterSound([at |-> "finalRead"])
    BY DEF WaiterSound, WaitRequest
  <2> QED
    BY <1>5, <2>1, WaiterBecomes
<1>6. CASE SnapshotWait(w)
  <2> DEFINE q == [at |-> "read", snapshot |-> signal]
  <2>1. WaiterSound(q)
    BY <1>2 DEF WaiterSound, WaitRequest
  <2>2. Become(w, q)
    BY <1>6 DEF SnapshotWait
  <2> HIDE DEF q
  <2> QED
    BY <2>1, <2>2, WaiterBecomes
<1>7. CASE p.at = "read" /\ ~terminal /\ Become(w, [at |-> "parked", snapshot |-> p.snapshot])
  <2> DEFINE q == [at |-> "parked", snapshot |-> p.snapshot]
  <2>1. p.snapshot \in Channels /\ p.snapshot <= signal
    BY <1>1, <1>7, WaitRequestFields DEF WaiterSound
  <2>2. WaiterSound(q)
    <3> HIDE DEF p
    <3> QED
      BY <1>7, <2>1 DEF WaiterSound, WaitRequest
  <2>3. Become(w, q)
    BY <1>7
  <2> HIDE DEF q
  <2> QED
    BY <2>2, <2>3, WaiterBecomes
<1>8. BeginWait(w) => Become(w, [at |-> "snapshot"])
  BY DEF BeginWait
<1>9. WakeWait(w) => Become(w, [at |-> "snapshot"])
  BY DEF WakeWait
<1>10. DeadlineWait(w) => Become(w, [at |-> "finalRead"])
  BY DEF DeadlineWait
<1>11. finalRead(w) => Become(w, Idle)
  BY DEF finalRead
<1>12. ReadDownload(w) =>
         \/ Become(w, Idle)
         \/ p.at = "read" /\ ~terminal /\ Become(w, [at |-> "parked", snapshot |-> p.snapshot])
  BY DEF ReadDownload, Channel
<1> QED
  BY <1>3, <1>4, <1>5, <1>6, <1>7, <1>8, <1>9, <1>10, <1>11, <1>12, Zenon DEF Waiter

-----------------------------------------------------------------------------
(* The publishers                                                          *)

\* An event is put behind everything that was there: lists up to an old position
\* stay as they are.
LEMMA AppendKeepsLists ==
  ASSUME NEW selected \in BOOLEAN, domainEvents \in Seq(BOOLEAN),
         domainEvents' = Append(domainEvents, selected)
  PROVE  /\ Len(domainEvents)' = Len(domainEvents) + 1
         /\ domainEvents' \in Seq(BOOLEAN)
         /\ \A a, b \in Nat : b <= Len(domainEvents) =>
              /\ Selected(a, b)' = Selected(a, b)
              /\ ListDownloadEvents(a, b)' = ListDownloadEvents(a, b)
<1>1. /\ Len(domainEvents') = Len(domainEvents) + 1
      /\ domainEvents' \in Seq(BOOLEAN)
      /\ \A n \in 1..Len(domainEvents) : domainEvents'[n] = domainEvents[n]
  BY AppendProperties
<1>2. Len(domainEvents) \in Nat
  BY LenProperties
<1>3. ASSUME NEW a \in Nat, NEW b \in Nat, b <= Len(domainEvents)
      PROVE  Selected(a, b)' = Selected(a, b)
  <2>1. \A n \in a + 1..b : n \in 1..Len(domainEvents)
    BY <1>2, <1>3
  <2>2. \A n \in a + 1..b : domainEvents'[n] = domainEvents[n]
    BY <1>1, <2>1
  <2> QED
    BY <2>2, Zenon DEF Selected
<1> QED
  BY <1>1, <1>3 DEF ListDownloadEvents

\* A commit grows the table and owes a notification, so that no request counts on
\* its channel meanwhile.
LEMMA CommitEventKeeps ==
  ASSUME EventFeedAssumption, Inv, NEW selected \in BOOLEAN, NEW outcome \in BOOLEAN,
         commitEventTx(selected, outcome)
  PROVE  Inv'
<1>1. /\ domainEvents' = Append(domainEvents, selected) /\ terminal' = outcome
      /\ unnotified' = unnotified + 1 /\ signal' = signal /\ request' = request
      /\ cursor' = cursor /\ start' = start /\ received' = received
      /\ Len(domainEvents) < MaxEvents /\ signal + unnotified < MaxNotifications
  BY DEF commitEventTx, MayNotify
<1>2. /\ Len(domainEvents)' = Len(domainEvents) + 1
      /\ domainEvents' \in Seq(BOOLEAN)
      /\ \A a, b \in Nat : b <= Len(domainEvents) =>
           /\ Selected(a, b)' = Selected(a, b)
           /\ ListDownloadEvents(a, b)' = ListDownloadEvents(a, b)
  BY <1>1, AppendKeepsLists DEF Inv, ServerSound
<1>3. Len(domainEvents) \in Nat /\ MaxEvents \in Nat /\ MaxNotifications \in Nat
  BY LenProperties DEF Inv, ServerSound, EventFeedAssumption
<1>4. ServerSound'
  BY <1>1, <1>2, <1>3 DEF Inv, ServerSound
<1>5. Tabled'
  BY <1>1 DEF Inv, Tabled
<1>6. \A q : ~Undisturbed(q)'
  BY <1>1 DEF Undisturbed, Inv, ServerSound
<1>7. ASSUME NEW c \in Clients, NEW k, Reached(c, k)
      PROVE  Reached(c, k)' /\ k \in Nat /\ k <= Len(domainEvents)
  BY <1>1, <1>2, <1>3, <1>7 DEF Reached
<1>8. ASSUME NEW c \in Clients PROVE ClientSound(c, request[c])' /\ FeedSound(c)'
  <2> DEFINE q == request[c]
  <2>1. ClientSound(c, q) /\ FeedSound(c) /\ q' = q
    BY <1>1 DEF Inv
  <2> HIDE DEF q
  <2>2. q.at \in {"list", "parked", "finalHighwater", "finalList", "answered"}
          => Reached(c, q.cursor)' /\ q.cursor \in Nat /\ q.cursor <= Len(domainEvents)
    BY <2>1, <1>7 DEF ClientSound
  <2>3. q.at \in {"snapshot", "highwater"} =>
          (q.checked => Reached(c, q.cursor)') /\ (~q.checked => q.cursor = cursor'[c])
    BY <2>1, <1>1, <1>7 DEF ClientSound
  <2>4. q.at \in {"list", "finalList"} => q.highWater \in q.cursor..Len(domainEvents)'
    BY <2>1, <2>2, <1>2, <1>3 DEF ClientSound
  <2>5. q.at = "answered" =>
          /\ q.next \in q.cursor..Len(domainEvents)'
          /\ q.items = ListDownloadEvents(q.cursor, q.next)'
    <3>1. SUFFICES ASSUME q.at = "answered"
                   PROVE  /\ q.next \in q.cursor..Len(domainEvents)'
                          /\ q.items = ListDownloadEvents(q.cursor, q.next)'
      OBVIOUS
    <3>2. /\ q.next \in q.cursor..Len(domainEvents)
          /\ q.items = ListDownloadEvents(q.cursor, q.next)
      BY <2>1, <3>1 DEF ClientSound
    <3>3. q.next \in Nat /\ q.next <= Len(domainEvents) /\ q.cursor \in Nat
      BY <2>2, <3>1, <3>2, <1>3
    <3> QED
      BY <1>2, <1>3, <2>1, <3>2, <3>3
  <2>6. ClientSound(c, q)'
    BY <2>1, <2>2, <2>3, <2>4, <2>5, <1>1, <1>6 DEF ClientSound
  <2>7. FeedSound(c)'
    BY <2>1, <1>1, <1>2, <1>3 DEF FeedSound
  <2> QED
    BY <2>6, <2>7 DEF q
<1>9. ASSUME NEW w \in Waiters PROVE WaiterSound(request[w])'
  BY <1>1, <1>6 DEF Inv, WaiterSound
<1> QED
  BY <1>4, <1>5, <1>8, <1>9 DEF Inv

\* A change of the notifications alone keeps the invariant if it closes the channel,
\* or is about to.
LEMMA SignalsKeep ==
  ASSUME Inv, UNCHANGED <<domainEvents, terminal, request, cursor, start, received>>,
         unnotified' \in Nat, signal' \in Nat, signal' + unnotified' <= MaxNotifications,
         \/ signal' = signal /\ unnotified' > 0
         \/ signal' = signal + 1
  PROVE  Inv'
<1>1. ServerSound' /\ Tabled'
  BY DEF Inv, ServerSound, Tabled
<1>2. signal \in Nat
  BY DEF Inv, ServerSound
<1>3. ASSUME NEW c \in Clients PROVE ClientSound(c, request[c])' /\ FeedSound(c)'
  <2> DEFINE q == request[c]
  <2>1. ClientSound(c, q) /\ FeedSound(c) /\ q' = q
    BY DEF Inv
  <2>2. FeedSound(c)'
    BY <2>1 DEF FeedSound, ListDownloadEvents, Selected
  <2> HIDE DEF q
  <2>3. q.at \in {"highwater", "list", "parked"} =>
          q.snapshot \in Nat /\ q.snapshot <= signal' /\ ~Undisturbed(q)'
    <3>1. SUFFICES ASSUME q.at \in {"highwater", "list", "parked"}
                   PROVE  q.snapshot \in Nat /\ q.snapshot <= signal' /\ ~Undisturbed(q)'
      OBVIOUS
    <3>2. q.snapshot \in Channels
      BY <2>1, <3>1, FeedRequestFields DEF ClientSound
    <3>3. q.snapshot \in Nat /\ q.snapshot <= signal
      BY <2>1, <3>1, <3>2 DEF ClientSound, Channels
    <3> QED
      BY <1>2, <2>1, <3>3 DEF Undisturbed
  <2>4. ClientSound(c, q)'
    BY <2>1, <2>3 DEF ClientSound, Reached, ListDownloadEvents, Selected
  <2> QED
    BY <2>2, <2>4 DEF q
<1>4. ASSUME NEW w \in Waiters PROVE WaiterSound(request[w])'
  <2> DEFINE q == request[w]
  <2>1. WaiterSound(q) /\ q' = q
    BY DEF Inv
  <2> HIDE DEF q
  <2>2. q.at \in {"read", "parked"} =>
          q.snapshot \in Nat /\ q.snapshot <= signal' /\ ~Undisturbed(q)'
    <3>1. SUFFICES ASSUME q.at \in {"read", "parked"}
                   PROVE  q.snapshot \in Nat /\ q.snapshot <= signal' /\ ~Undisturbed(q)'
      OBVIOUS
    <3>2. q.snapshot \in Channels
      BY <2>1, <3>1, WaitRequestFields DEF WaiterSound
    <3>3. q.snapshot \in Nat /\ q.snapshot <= signal
      BY <2>1, <3>1, <3>2 DEF WaiterSound, Channels
    <3> QED
      BY <1>2, <2>1, <3>3 DEF Undisturbed
  <2>3. WaiterSound(q)'
    BY <2>1, <2>2 DEF WaiterSound
  <2> QED
    BY <2>3 DEF q
<1> QED
  BY <1>1, <1>3, <1>4 DEF Inv

\* After a restart nobody waits.
LEMMA RestartKeeps ==
  ASSUME EventFeedAssumption, Inv, Restart
  PROVE  Inv'
<1>1. /\ domainEvents' = domainEvents /\ terminal' = terminal /\ unnotified' = 0
      /\ signal' = signal /\ cursor' = cursor /\ start' = start /\ received' = received
  BY DEF Restart
<1>2. request' = [r \in Clients \union Waiters |-> Idle]
  BY DEF Restart, Inv, Tabled
<1>3. ServerSound'
  BY <1>1 DEF Inv, ServerSound, EventFeedAssumption
<1>4. Tabled'
  BY <1>1, <1>2 DEF Inv, Tabled
<1>5. ASSUME NEW c \in Clients PROVE ClientSound(c, request[c])' /\ FeedSound(c)'
  <2>1. FeedSound(c)'
    BY <1>1 DEF Inv, FeedSound, ListDownloadEvents, Selected
  <2>2. request'[c] = Idle
    BY <1>2
  <2> QED
    BY <2>1, <2>2 DEF ClientSound, Idle
<1>6. ASSUME NEW w \in Waiters PROVE WaiterSound(request[w])'
  BY <1>2 DEF WaiterSound, Idle
<1> QED
  BY <1>3, <1>4, <1>5, <1>6 DEF Inv

-----------------------------------------------------------------------------
(* The theorems                                                            *)

\* The process starts with an empty table and nobody waiting.
LEMMA InitSound == ASSUME EventFeedAssumption, Init PROVE Inv
<1>1. ServerSound
  <2>1. << >> \in Seq(BOOLEAN) /\ Len(<< >>) = 0
    BY EmptySeq
  <2>2. domainEvents = << >> /\ terminal = FALSE /\ unnotified = 0 /\ signal = 0
    BY DEF Init
  <2>3. MaxEvents \in Nat /\ MaxNotifications \in Nat
    BY DEF EventFeedAssumption
  <2>4. domainEvents \in Seq(BOOLEAN) /\ Len(domainEvents) <= MaxEvents
    BY <2>1, <2>2, <2>3
  <2>5. terminal \in BOOLEAN
    BY <2>2, Zenon
  <2>6. signal + unnotified <= MaxNotifications
    <3>1. signal = 0 /\ unnotified = 0
      BY <2>2, Zenon
    <3> QED
      BY <3>1, <2>3
  <2> QED
    BY <2>2, <2>4, <2>5, <2>6 DEF ServerSound
<1>2. Tabled
  <2>1. {0, 1, Latest} \subseteq Cursors
    BY DEF Cursors, EventFeedAssumption
  <2>2. cursor \in [Clients -> Cursors] /\ start = cursor
    BY <2>1 DEF Init
  <2> QED
    BY <2>2 DEF Init, Tabled
<1>3. ASSUME NEW c \in Clients PROVE ClientSound(c, request[c]) /\ FeedSound(c)
  <2>1. request[c] = Idle /\ start[c] = cursor[c] /\ received[c] = << >>
    BY DEF Init
  <2>2. << >> \in Seq(Sequences)
    BY EmptySeq
  <2> QED
    BY <2>1, <2>2, IdleIsSound DEF FeedSound
<1>4. ASSUME NEW w \in Waiters PROVE WaiterSound(request[w])
  BY IdleIsSound DEF Init
<1> QED
  BY <1>1, <1>2, <1>3, <1>4 DEF Inv

\* Every step keeps the invariant.
LEMMA NextKeeps == ASSUME EventFeedAssumption, Inv, [Next]_vars PROVE Inv'
<1>1. CASE UNCHANGED vars
  <2>1. /\ domainEvents' = domainEvents /\ terminal' = terminal /\ unnotified' = unnotified
        /\ signal' = signal /\ cursor' = cursor /\ start' = start /\ received' = received
        /\ request' = request
    BY <1>1 DEF vars
  <2>2. ServerSound' /\ Tabled'
    BY <2>1 DEF Inv, ServerSound, Tabled
  <2>3. ASSUME NEW c \in Clients PROVE ClientSound(c, request[c])' /\ FeedSound(c)'
    BY <2>1 DEF Inv, ClientSound, FeedSound, Reached, Undisturbed, ListDownloadEvents, Selected
  <2>4. ASSUME NEW w \in Waiters PROVE WaiterSound(request[w])'
    BY <2>1 DEF Inv, WaiterSound, Undisturbed
  <2> QED
    BY <2>2, <2>3, <2>4 DEF Inv
<1>2. CASE \E selected, outcome \in BOOLEAN : commitEventTx(selected, outcome)
  BY <1>2, CommitEventKeeps
<1>3. CASE commitMutationTx \/ Notify
  <2>1. /\ signal \in Nat /\ unnotified \in Nat /\ MaxNotifications \in Nat
        /\ signal + unnotified <= MaxNotifications
    BY DEF Inv, ServerSound, EventFeedAssumption
  <2>2. /\ UNCHANGED <<domainEvents, terminal, request, cursor, start, received>>
        /\ unnotified' \in Nat /\ signal' \in Nat /\ signal' + unnotified' <= MaxNotifications
        /\ \/ signal' = signal /\ unnotified' > 0
           \/ signal' = signal + 1
    BY <1>3, <2>1 DEF commitMutationTx, Notify, MayNotify
  <2> QED
    BY <2>2, SignalsKeep
<1>4. CASE Restart
  BY <1>4, RestartKeeps
<1>5. ASSUME NEW c \in Clients,
             Reader(c) \/ DeadlineEvents(c) \/ ReceiveEvents(c)
             \/ \E wait \in BOOLEAN : BeginEvents(c, wait)
      PROVE  Inv'
  BY <1>5, BeginEventsKeeps, SnapshotEventsKeeps, ReadHighWaterKeeps, ListEventsKeeps,
     WakeEventsKeeps, DeadlineEventsKeeps, FinalHighWaterKeeps, FinalListKeeps,
     ReceiveEventsKeeps, Zenon DEF Reader
<1>6. ASSUME NEW w \in Waiters, BeginWait(w) \/ Waiter(w) \/ DeadlineWait(w) PROVE Inv'
  BY <1>6, WaiterKeeps
<1>7. ASSUME NEW r \in Clients \union Waiters, Lose(r) PROVE Inv'
  BY <1>7, IdleIsSound, ClientBecomes, WaiterBecomes DEF Lose
<1> QED
  BY <1>1, <1>2, <1>3, <1>4, <1>5, <1>6, <1>7, Zenon DEF Next

\* The invariant holds in every behaviour.
LEMMA Invariance == Spec => []Inv
<1>1. Init => Inv
  BY InitSound, EventFeedAssumption
<1>2. Inv /\ [Next]_vars => Inv'
  BY NextKeeps, EventFeedAssumption
<1> QED
  BY <1>1, <1>2, PTL DEF Spec

\* Every table, cursor, request and page keeps its type (TypeOK): no page, cursor or
\* high-water mark leaves the table, and the literal cursor never reaches a scan.
THEOREM TypeCorrect == Spec => []TypeOK
<1>1. Inv => TypeOK
  <2>1. SUFFICES ASSUME Inv PROVE TypeOK
    OBVIOUS
  <2>2. unnotified \in Channels /\ signal \in Channels
    BY <2>1, EventFeedAssumption DEF Inv, ServerSound, Channels, EventFeedAssumption
  <2> QED
    BY <2>1, <2>2
    DEF Inv, TypeOK, ServerSound, Tabled, ClientSound, FeedSound, WaiterSound
<1> QED
  BY <1>1, Invariance, PTL

\* The pages that a client has taken are exactly the selected events between where
\* its feed began and its cursor, each once and in order (FeedExact), whatever is
\* lost, repeated or committed meanwhile (serveEvents, writeEvents).
THEOREM PagesAreExact == Spec => []FeedExact
<1>1. Inv => FeedExact
  <2>1. SUFFICES ASSUME Inv, NEW c \in Clients
        PROVE  received[c] =
                 IF start[c] \in Nat /\ cursor[c] >= start[c] /\ cursor[c] <= LatestEventSequence
                 THEN ListDownloadEvents(start[c], cursor[c]) ELSE << >>
    BY DEF FeedExact
  <2>2. FeedSound(c)
    BY <2>1 DEF Inv
  <2>3. CASE start[c] = cursor[c] /\ received[c] = << >>
    <3>1. CASE start[c] \in Nat
      <4>1. Selected(start[c], start[c]) = {}
        BY <3>1 DEF Selected
      <4>2. ListDownloadEvents(start[c], start[c]) = << >>
        BY <3>1, <4>1, ListEmpty
      <4> QED
        BY <2>3, <4>2
    <3>2. CASE start[c] \notin Nat
      BY <2>3, <3>2
    <3> QED
      BY <3>1, <3>2
  <2>4. CASE /\ start[c] \in Nat /\ cursor[c] \in Nat
             /\ start[c] <= cursor[c] /\ cursor[c] <= Len(domainEvents)
             /\ received[c] = ListDownloadEvents(start[c], cursor[c])
    BY <2>4 DEF LatestEventSequence
  <2> QED
    BY <2>2, <2>3, <2>4 DEF FeedSound
<1> QED
  BY <1>1, Invariance, PTL

\* A request that is parked while what it waits for is in the database has a closed
\* channel, or one that is about to be closed (NoSleepThroughCommit): the snapshot
\* is taken before the read (Signal.Snapshot, Signal.Notify).
THEOREM NobodySleepsThroughCommits == Spec => []NoSleepThroughCommit
<1>1. Inv => NoSleepThroughCommit
  <2>1. SUFFICES ASSUME Inv, NEW r \in Clients \union Waiters,
                        request[r].at = "parked", Missing(r), ~Woken(r), ~(unnotified > 0)
                 PROVE  FALSE
    BY Zenon DEF NoSleepThroughCommit
  <2>2. Undisturbed(request[r])
    BY <2>1 DEF Undisturbed, Woken, Inv, ServerSound
  <2>3. CASE r \in Clients
    <3>1. ClientSound(r, request[r])
      BY <2>1, <2>3 DEF Inv
    <3>2. request[r].cursor = Len(domainEvents)
      BY <2>1, <2>2, <3>1 DEF ClientSound
    <3>3. Len(domainEvents) \in Nat
      BY <2>1, LenProperties DEF Inv, ServerSound
    <3>4. Selected(Len(domainEvents), Len(domainEvents)) = {}
      BY <3>3 DEF Selected
    <3>5. ListDownloadEvents(request[r].cursor, LatestEventSequence) = << >>
      BY <3>2, <3>3, <3>4, ListEmpty DEF LatestEventSequence
    <3> QED
      BY <2>1, <2>3, <3>5 DEF Missing
  <2>4. CASE r \in Waiters
    <3>1. WaiterSound(request[r]) /\ r \notin Clients
      BY <2>1, <2>4, EventFeedAssumption DEF Inv, EventFeedAssumption
    <3> QED
      BY <2>1, <2>2, <3>1 DEF WaiterSound, Missing
  <2> QED
    BY <2>1, <2>3, <2>4
<1> QED
  BY <1>1, Invariance, PTL
=============================================================================
