---------------------------- MODULE TurnPagingProofs ----------------------------
EXTENDS TurnPaging, SequenceTheorems, WellFoundedInduction, TLAPS

(***************************************************************************)
(* What the reader of turn pages promises, for every rollout, all budgets  *)
(* and every history of requests, appends, rewrites and lost answers.      *)
(*                                                                         *)
(* The invariant is IInv of TurnPaging.  Of a file that was never cut it   *)
(* says that a cursor names the start of the record it stopped in, that    *)
(* the host has exactly the turns up to there, and that what a request in  *)
(* flight has found is what the file says still; of any file, that a cut   *)
(* lies no later than its modification time and that what a request saw    *)
(* when it was opened is a later state of what its token was cut from.     *)
(*                                                                         *)
(* Scan is a recursive function of the byte it has reached, so what it     *)
(* computes is shown by a least counterexample (ScanRuns, ScanLists): a    *)
(* scan that first goes wrong at byte n was right at byte n - 1, and one   *)
(* step of Take keeps it right (TakeHolds).  What two pages list one after *)
(* the other is one list (ListsJoin), which is how a page extends what the *)
(* host already has.  The theorems are at the end, after one lemma for     *)
(* each action.                                                            *)
(***************************************************************************)

(* Arithmetic of positions in a read and in the log                        *)

LEMMA ShiftedWithin ==
  ASSUME NEW i \in Int, NEW s \in Nat, NEW p \in Nat, NEW n \in Nat, NEW l \in Nat,
         n <= l, s + p + 1 <= i, i <= s + n - 1
  PROVE  /\ i - s \in (p + 1)..(n - 1)
         /\ i - s \in 1..l
         /\ s + (i - s) = i
OBVIOUS

LEMMA Rebased ==
  ASSUME NEW o \in Nat, NEW s \in Nat, s <= o, NEW r \in Nat,
         NEW i \in (o - s + 1)..(o - s + r)
  PROVE  i - (o - s) \in 1..r /\ o + (i - (o - s)) = s + i
OBVIOUS

LEMMA SpanLength ==
  ASSUME NEW o \in Int, NEW t \in Int, NEW m, m = o + 1
  PROVE  (IF m <= t THEN t - m + 1 ELSE 0) = IF o + 1 <= t THEN t - o ELSE 0
OBVIOUS

-----------------------------------------------------------------------------
(* Least and greatest members                                              *)

LEMMA LeastMember ==
  ASSUME NEW S, S \subseteq Nat, S # {}
  PROVE  \E x \in S : \A y \in S : x <= y
<1> DEFINE R == OpToRel(<, Nat)
<1>1. IsWellFoundedOn(R, Nat)
  BY NatLessThanWellFounded
<1>2. \A x, y \in Nat : <<y, x>> \in R <=> y < x
  BY DEF OpToRel
<1> HIDE DEF R
<1>3. PICK x \in S : \A y \in S : ~(<<y, x>> \in R)
  BY <1>1, WFMin
<1>4. \A y \in S : x \in Nat /\ y \in Nat /\ ~(y < x)
  BY <1>2, <1>3
<1> QED BY <1>4

LEMMA MinIsLeast ==
  ASSUME NEW S, S \subseteq Nat, S # {}
  PROVE  Min(S) \in S /\ \A y \in S : Min(S) <= y
BY LeastMember DEF Min

LEMMA MinOfTwo ==
  ASSUME NEW a \in Int, NEW b \in Int
  PROVE  Min({a, b}) \in {a, b} /\ Min({a, b}) <= a /\ Min({a, b}) <= b
<1>1. \E x \in {a, b} : \A y \in {a, b} : x <= y
  <2>1. CASE a <= b
    BY <2>1
  <2>2. CASE ~(a <= b)
    BY <2>2
  <2> QED BY <2>1, <2>2
<1> QED BY <1>1 DEF Min

LEMMA MaxIsGreatest ==
  ASSUME NEW n \in Nat, NEW S, S \subseteq 0..n, S # {}
  PROVE  Max(S) \in S /\ \A y \in S : y <= Max(S)
<1> DEFINE T == {k \in Nat : n - k \in S}
<1>1. \A y \in S : y \in Nat /\ n - y \in T
  <2> TAKE y \in S
  <2>1. y \in Nat /\ y <= n
    OBVIOUS
  <2>2. n - y \in Nat /\ n - (n - y) = y
    BY <2>1
  <2> QED BY <2>1, <2>2
<1>2. T \subseteq Nat /\ T # {}
  BY <1>1
<1>3. PICK k \in T : \A j \in T : k <= j
  BY <1>2, LeastMember
<1>4. n - k \in S /\ \A y \in S : y <= n - k
  <2> SUFFICES ASSUME NEW y \in S PROVE y <= n - k
    BY <1>3
  <2>1. k <= n - y /\ y \in Nat /\ k \in Nat
    BY <1>1, <1>3
  <2> QED BY <2>1
<1>5. \E x \in S : \A y \in S : x >= y
  <2>1. \A y \in S : y \in Nat /\ n - k >= y
    BY <1>1, <1>3, <1>4
  <2> QED BY <1>4, <2>1
<1>6. Max(S) \in S /\ \A y \in S : Max(S) >= y
  BY <1>5 DEF Max
<1> QED BY <1>1, <1>6

-----------------------------------------------------------------------------
(* Records and the turns in them                                           *)

Boundary(content, at) == at = 0 \/ content[at] \in Newlines

LEMMA ListsMembers ==
  ASSUME NEW content, NEW starts \in Seq(Nat), NEW x, NEW y, Lists(starts, content, x, y)
  PROVE  /\ DOMAIN starts = 1..Len(starts) /\ Len(starts) \in Nat
         /\ \A i \in 1..Len(starts) : starts[i] \in Nat /\ starts[i] \in TurnStarts(content, x, y)
         /\ \A i, j \in 1..Len(starts) : i < j => starts[i] < starts[j]
<1>1. DOMAIN starts = 1..Len(starts) /\ Len(starts) \in Nat
  OBVIOUS
<1> QED BY <1>1 DEF Lists, ToSet

\* A record that is a turn joins the list, any other one leaves it as it is.
LEMMA ListsTurn ==
  ASSUME NEW content, NEW starts \in Seq(Nat), NEW x \in Nat, NEW y \in Nat, NEW z \in Nat,
         x <= y, y < z, Lists(starts, content, x, y), Boundary(content, y),
         content[z] = "turn", \A i \in (y + 1)..(z - 1) : content[i] = Byte
  PROVE  Lists(Append(starts, y), content, x, z)
<1> DEFINE more == Append(starts, y)
<1>1. /\ DOMAIN more = 1..(Len(starts) + 1) /\ more[Len(starts) + 1] = y
      /\ \A i \in 1..Len(starts) : more[i] = starts[i]
      /\ DOMAIN starts = 1..Len(starts) /\ Len(starts) \in Nat
  OBVIOUS
<1>2. \A s \in TurnStarts(content, x, y) : s < y /\ s \in Nat
  BY DEF TurnStarts, RecordAt
<1>3. /\ \A i \in 1..Len(starts) : starts[i] \in TurnStarts(content, x, y)
      /\ \A i, j \in 1..Len(starts) : i < j => starts[i] < starts[j]
  BY ListsMembers
<1> HIDE DEF more
<1>4. \A i, j \in DOMAIN more : i < j => more[i] < more[j]
  BY <1>1, <1>2, <1>3
<1>5. ToSet(more) = ToSet(starts) \cup {y}
  BY <1>1 DEF ToSet
<1>6. RecordAt(content, y, z)
  BY DEF RecordAt, Boundary
<1>7. ASSUME NEW s \in Nat, RecordAt(content, s, z) PROVE s = y
  <2>1. CASE s < y
    <3>1. content[y] \in Newlines
      BY <2>1 DEF Boundary
    <3>2. content[y] = Byte
      BY <1>7, <2>1 DEF RecordAt
    <3> QED BY <3>1, <3>2 DEF Newlines, Byte
  <2>2. CASE y < s
    <3>1. s < z /\ content[s] \in Newlines
      BY <1>7, <2>2 DEF RecordAt
    <3>2. content[s] = Byte
      BY <2>2, <3>1
    <3> QED BY <3>1, <3>2 DEF Newlines, Byte
  <2> QED BY <2>1, <2>2
<1>8. TurnStarts(content, x, z) = TurnStarts(content, x, y) \cup {y}
  <2>1. ASSUME NEW s \in TurnStarts(content, x, z)
        PROVE  s \in TurnStarts(content, x, y) \cup {y}
    <3>1. PICK end \in (x + 1)..z : content[end] = "turn" /\ RecordAt(content, s, end)
      BY DEF TurnStarts
    <3>2. CASE end = z
      BY <3>1, <3>2, <1>7 DEF TurnStarts
    <3>3. CASE end < z
      <4>1. end <= y
        BY <3>1, <3>3 DEF Byte
      <4> QED BY <3>1, <4>1 DEF TurnStarts, RecordAt
    <3> QED BY <3>2, <3>3
  <2>2. y \in TurnStarts(content, x, z)
    BY <1>6 DEF TurnStarts
  <2>3. TurnStarts(content, x, y) \subseteq TurnStarts(content, x, z)
    BY DEF TurnStarts
  <2> QED BY <2>1, <2>2, <2>3
<1> QED BY <1>4, <1>5, <1>8 DEF Lists, more

LEMMA ListsOther ==
  ASSUME NEW content, NEW starts, NEW x \in Nat, NEW y \in Nat, NEW z \in Nat,
         x <= y, y <= z, Lists(starts, content, x, y),
         \A i \in (y + 1)..z : content[i] # "turn"
  PROVE  Lists(starts, content, x, z)
<1>1. TurnStarts(content, x, z) = TurnStarts(content, x, y)
  BY DEF TurnStarts, RecordAt
<1> QED BY <1>1 DEF Lists

\* What one read listed and what the next one lists make one list.
LEMMA ListsJoin ==
  ASSUME NEW content, NEW one \in Seq(Nat), NEW two \in Seq(Nat),
         NEW x \in Nat, NEW y \in Nat, NEW z \in Nat, x <= y, y <= z,
         Lists(one, content, x, y), Lists(two, content, y, z), Boundary(content, y)
  PROVE  Lists(one \o two, content, x, z)
<1> DEFINE both == one \o two
<1>1. /\ DOMAIN both = 1..(Len(one) + Len(two)) /\ Len(one) \in Nat /\ Len(two) \in Nat
      /\ DOMAIN one = 1..Len(one) /\ DOMAIN two = 1..Len(two)
      /\ \A i \in 1..Len(one) : both[i] = one[i]
      /\ \A i \in (Len(one) + 1)..(Len(one) + Len(two)) : both[i] = two[i - Len(one)]
  OBVIOUS
<1> HIDE DEF both
<1>2. /\ \A i \in 1..Len(one) : one[i] \in Nat /\ one[i] < y
      /\ \A i, j \in 1..Len(one) : i < j => one[i] < one[j]
      /\ \A i, j \in 1..Len(two) : i < j => two[i] < two[j]
  <2>1. \A s \in TurnStarts(content, x, y) : s < y
    BY DEF TurnStarts, RecordAt
  <2> QED BY <2>1, ListsMembers
<1>3. \A i \in DOMAIN two : two[i] \in Nat /\ y <= two[i]
  <2> TAKE i \in DOMAIN two
  <2>1. two[i] \in TurnStarts(content, y, z)
    BY DEF Lists, ToSet
  <2>2. PICK end \in (y + 1)..z : RecordAt(content, two[i], end)
    BY <2>1 DEF TurnStarts
  <2>3. two[i] \in Nat
    OBVIOUS
  <2>4. CASE two[i] < y
    <3>1. content[y] = Byte
      BY <2>2, <2>3, <2>4 DEF RecordAt
    <3> QED BY <2>3, <2>4, <3>1 DEF Boundary, Newlines, Byte
  <2> QED BY <2>3, <2>4
<1>4. ASSUME NEW i \in DOMAIN both, NEW j \in DOMAIN both, i < j PROVE both[i] < both[j]
  <2>0. i \in 1..(Len(one) + Len(two)) /\ j \in 1..(Len(one) + Len(two)) /\ i < j
    BY <1>1, <1>4
  <2>1. CASE j \in 1..Len(one)
    <3>1. i \in 1..Len(one)
      BY <1>1, <2>0, <2>1
    <3>2. both[i] = one[i] /\ both[j] = one[j]
      BY <1>1, <2>1, <3>1
    <3> QED BY <1>2, <2>0, <2>1, <3>1, <3>2
  <2>2. CASE i \in (Len(one) + 1)..(Len(one) + Len(two))
    <3> DEFINE a == i - Len(one)
               b == j - Len(one)
    <3>1. j \in (Len(one) + 1)..(Len(one) + Len(two)) /\ a \in 1..Len(two) /\ b \in 1..Len(two) /\ a < b
      BY <1>1, <2>0, <2>2
    <3>2. both[i] = two[a] /\ both[j] = two[b]
      BY <1>1, <2>2, <3>1
    <3> HIDE DEF a, b
    <3> QED BY <1>2, <3>1, <3>2
  <2>3. CASE i \in 1..Len(one) /\ j \in (Len(one) + 1)..(Len(one) + Len(two))
    <3> DEFINE b == j - Len(one)
    <3>1. b \in DOMAIN two /\ both[i] = one[i] /\ both[j] = two[b]
      BY <1>1, <2>3
    <3> HIDE DEF b
    <3>2. one[i] \in Nat /\ one[i] < y /\ two[b] \in Nat /\ y <= two[b]
      BY <1>2, <1>3, <2>3, <3>1
    <3> QED BY <3>1, <3>2
  <2> QED BY <1>1, <2>0, <2>1, <2>2, <2>3
<1>5. ToSet(both) = ToSet(one) \cup ToSet(two)
  <2>1. ASSUME NEW i \in DOMAIN both PROVE both[i] \in ToSet(one) \cup ToSet(two)
    <3>1. CASE i \in 1..Len(one)
      BY <1>1, <3>1 DEF ToSet
    <3>2. CASE i \in (Len(one) + 1)..(Len(one) + Len(two))
      <4>1. i - Len(one) \in DOMAIN two /\ both[i] = two[i - Len(one)]
        BY <1>1, <3>2
      <4> QED BY <4>1 DEF ToSet
    <3> QED BY <1>1, <3>1, <3>2
  <2>2. \A i \in DOMAIN one : one[i] \in ToSet(both)
    BY <1>1 DEF ToSet
  <2>3. ASSUME NEW i \in DOMAIN two PROVE two[i] \in ToSet(both)
    <3>1. i \in Nat /\ i + Len(one) \in (Len(one) + 1)..(Len(one) + Len(two))
      BY <1>1
    <3>2. both[i + Len(one)] = two[(i + Len(one)) - Len(one)] /\ (i + Len(one)) - Len(one) = i
      BY <1>1, <3>1
    <3>3. i + Len(one) \in DOMAIN both /\ both[i + Len(one)] = two[i]
      BY <1>1, <3>1, <3>2
    <3> QED BY <3>3 DEF ToSet
  <2> QED BY <2>1, <2>2, <2>3 DEF ToSet
<1>6. TurnStarts(content, x, z) = TurnStarts(content, x, y) \cup TurnStarts(content, y, z)
  <2>1. ASSUME NEW s \in TurnStarts(content, x, z)
        PROVE  s \in TurnStarts(content, x, y) \cup TurnStarts(content, y, z)
    <3>1. PICK end \in (x + 1)..z : content[end] = "turn" /\ RecordAt(content, s, end)
      BY DEF TurnStarts
    <3>2. s \in Nat /\ s < end
      BY <3>1 DEF TurnStarts, RecordAt
    <3>3. CASE end <= y
      BY <3>1, <3>2, <3>3 DEF TurnStarts
    <3>4. CASE end > y
      BY <3>1, <3>2, <3>4 DEF TurnStarts
    <3> QED BY <3>3, <3>4
  <2>2. TurnStarts(content, x, y) \subseteq TurnStarts(content, x, z)
    BY DEF TurnStarts
  <2>3. TurnStarts(content, y, z) \subseteq TurnStarts(content, x, z)
    BY DEF TurnStarts
  <2> QED BY <2>1, <2>2, <2>3
<1> QED BY <1>4, <1>5, <1>6 DEF Lists, both

\* A list says nothing of what lies beyond it.
LEMMA ListsAgree ==
  ASSUME NEW old, NEW now, NEW starts, NEW x \in Nat, NEW z \in Nat,
         \A i \in 1..z : now[i] = old[i], Lists(starts, old, x, z)
  PROVE  Lists(starts, now, x, z)
<1>1. ASSUME NEW s \in 0..z, NEW end \in (x + 1)..z
      PROVE  RecordAt(now, s, end) <=> RecordAt(old, s, end)
  BY DEF RecordAt
<1>2. TurnStarts(now, x, z) = TurnStarts(old, x, z)
  BY <1>1 DEF TurnStarts
<1> QED BY <1>2 DEF Lists

LEMMA NothingListed ==
  ASSUME NEW content, NEW x \in Nat
  PROVE  Lists(<<>>, content, x, x)
BY DEF Lists, TurnStarts, ToSet

-----------------------------------------------------------------------------
(* The loop over complete records                                          *)

\* The recursive function that Scan is defined with exists: the bytes are taken
\* one after the other (the library's induction theorems take an operator, so
\* the least number of bytes that could not be taken is refuted instead).
LEMMA ScanRuns ==
  ASSUME NEW c, NEW bytes, Len(bytes) \in Nat
  PROVE  \E page : /\ page[0] = NothingTaken
                   /\ \A n \in 1..Len(bytes) : page[n] = Take(c, bytes, page[n - 1], n)
                   /\ Scan(c, bytes) = page[Len(bytes)]
<1> DEFINE Runs(k, p) == p = [end \in 0..k |->
                                IF end = 0 THEN NothingTaken ELSE Take(c, bytes, p[end - 1], end)]
           Missing == {k \in Nat : ~ \E p : Runs(k, p)}
           page == CHOOSE p : Runs(Len(bytes), p)
<1>1. Missing = {}
  <2> SUFFICES ASSUME Missing # {} PROVE FALSE
    OBVIOUS
  <2>1. PICK k \in Missing : \A y \in Missing : k <= y
    BY LeastMember
  <2>2. CASE k = 0
    <3>1. Runs(0, [end \in 0..0 |-> NothingTaken])
      OBVIOUS
    <3> QED BY <3>1, <2>2, <2>1
  <2>3. CASE k # 0
    <3>1. k \in Nat /\ k > 0 /\ k - 1 \in Nat /\ ~(k <= k - 1)
      BY <2>1, <2>3
    <3>2. k - 1 \notin Missing
      <4> HIDE DEF Missing
      <4> QED BY <2>1, <3>1
    <3>3. PICK p : Runs(k - 1, p)
      BY <3>1, <3>2
    <3> DEFINE q == [end \in 0..k |-> IF end = k THEN Take(c, bytes, p[k - 1], k) ELSE p[end]]
    <3>4. \A n \in 0..k : q[n] = IF n = 0 THEN NothingTaken ELSE Take(c, bytes, q[n - 1], n)
      <4> SUFFICES ASSUME NEW n \in 0..k
                   PROVE  q[n] = IF n = 0 THEN NothingTaken ELSE Take(c, bytes, q[n - 1], n)
        OBVIOUS
      <4>1. \A m \in 0..(k - 1) : q[m] = p[m]
        BY <3>1
      <4>2. q[k] = Take(c, bytes, p[k - 1], k)
        BY <3>1
      <4>3. \A m \in 0..(k - 1) : p[m] = IF m = 0 THEN NothingTaken ELSE Take(c, bytes, p[m - 1], m)
        BY <3>3
      <4> HIDE DEF q
      <4>4. CASE n = k
        BY <3>1, <4>1, <4>2, <4>4
      <4>5. CASE n \in 0..(k - 1)
        BY <3>1, <4>1, <4>3, <4>5
      <4> QED BY <3>1, <4>4, <4>5
    <3>5. Runs(k, q)
      BY <3>4
    <3> QED BY <2>1, <3>5
  <2> QED BY <2>2, <2>3
<1>2. Runs(Len(bytes), page)
  <2>1. \E p : Runs(Len(bytes), p)
    BY <1>1
  <2> HIDE DEF Runs
  <2> QED BY <2>1
<1>3. Scan(c, bytes) = page[Len(bytes)]
  BY DEF Scan
<1> HIDE DEF page
<1>4. page[0] = NothingTaken /\ \A n \in 1..Len(bytes) : page[n] = Take(c, bytes, page[n - 1], n)
  BY <1>2
<1> QED BY <1>3, <1>4

\* What the loop has when it has looked at the first n bytes.
Taken(c, bytes, content, page, n) ==
  /\ page \in [turns : Turns, consumed : 0..n, status : {"going", "malformed", "full", "no_room"}]
  /\ page.consumed = 0 \/ bytes[page.consumed] \in Newlines
  /\ page.status = "going" => \A i \in (page.consumed + 1)..n : bytes[i] = Byte
  /\ Lists(Received(page), content, c.start, c.start + page.consumed)

LEMMA ReceivedAppend ==
  ASSUME NEW page, page.turns \in Turns, NEW turn, NEW more, more.turns = Append(page.turns, turn)
  PROVE  Received(page) \in Seq(Nat) /\ Received(more) = Append(Received(page), turn.at)
<1>1. \A i \in 1..Len(page.turns) : page.turns[i].at \in Nat
  <2> TAKE i \in 1..Len(page.turns)
  <2>1. page.turns[i] \in [at : Nat, inline : BOOLEAN]
    BY ElementOfSeq DEF Turns
  <2> QED BY <2>1
<1>2. Received(page) \in Seq(Nat)
  <2>1. DOMAIN page.turns = 1..Len(page.turns) /\ Len(page.turns) \in Nat
    BY DEF Turns
  <2> QED BY <1>1, <2>1, IsASeq DEF Received
<1>3. Received(more) = Append(Received(page), turn.at)
  <2> DEFINE n == Len(page.turns)
             one == page.turns
             two == Append(one, turn)
  <2>1. /\ n \in Nat /\ DOMAIN one = 1..n /\ DOMAIN two = 1..(n + 1) /\ two[n + 1] = turn
        /\ \A i \in 1..n : two[i] = one[i]
    BY DEF Turns
  <2>2. /\ Len(Received(page)) = n
        /\ \A i \in 1..n : Received(page)[i] = one[i].at
    BY <2>1, <1>2 DEF Received
  <2>3. Append(Received(page), turn.at) =
          [i \in 1..(n + 1) |-> IF i = n + 1 THEN turn.at ELSE Received(page)[i]]
    BY <1>2, <2>2
  <2>4. Received(more) = [i \in 1..(n + 1) |-> two[i].at]
    BY <2>1 DEF Received
  <2> HIDE DEF two, one, n
  <2> QED BY <2>1, <2>2, <2>3, <2>4
<1> QED BY <1>2, <1>3

LEMMA TakeHolds ==
  ASSUME NEW c \in Cursors, NEW bytes \in Seq(Cells), NEW content, NEW n \in 1..Len(bytes),
         NEW page, Taken(c, bytes, content, page, n - 1), Boundary(content, c.start),
         \A i \in 1..Len(bytes) : content[c.start + i] = bytes[i]
  PROVE  Taken(c, bytes, content, Take(c, bytes, page, n), n)
<1> DEFINE y == c.start + page.consumed
           z == c.start + n
           next == Take(c, bytes, page, n)
<1>1. /\ n \in Nat /\ n > 0 /\ c.start \in Nat
      /\ page.consumed \in Nat /\ page.consumed < n /\ y \in Nat /\ z \in Nat /\ y < z
      /\ c.start <= y /\ page.turns \in Turns
  <2>1. page.consumed \in 0..(n - 1) /\ page.turns \in Turns
    BY DEF Taken
  <2>2. n \in Nat /\ n > 0 /\ c.start \in Nat
    BY DEF Cursors
  <2> QED BY <2>1, <2>2
<1>2. bytes[n] \in Cells /\ content[z] = bytes[n]
  BY <1>1
<1>3. Boundary(content, y)
  <2>1. CASE page.consumed = 0
    BY <1>1, <2>1
  <2>2. CASE page.consumed # 0
    <3>1. page.consumed \in 1..Len(bytes)
      BY <1>1, <2>2
    <3>2. content[y] = bytes[page.consumed] /\ bytes[page.consumed] \in Newlines
      BY <2>2, <3>1 DEF Taken
    <3> QED BY <3>2 DEF Boundary
  <2> QED BY <2>1, <2>2
<1>4. page.status = "going" => \A i \in (y + 1)..(z - 1) : content[i] = Byte
  <2> SUFFICES ASSUME page.status = "going", NEW i \in (y + 1)..(z - 1) PROVE content[i] = Byte
    OBVIOUS
  <2> DEFINE k == i - c.start
  <2>1. k \in (page.consumed + 1)..(n - 1) /\ k \in 1..Len(bytes) /\ c.start + k = i
    <3>1. i \in Int /\ c.start + page.consumed + 1 <= i /\ i <= c.start + n - 1
      BY <1>1
    <3>2. n <= Len(bytes) /\ Len(bytes) \in Nat /\ n \in Nat /\ c.start \in Nat /\ page.consumed \in Nat
      BY <1>1
    <3> HIDE DEF y, z
    <3>3. /\ i - c.start \in (page.consumed + 1)..(n - 1)
          /\ i - c.start \in 1..Len(bytes)
          /\ c.start + (i - c.start) = i
      BY <3>1, <3>2, ShiftedWithin
    <3> QED BY <3>3
  <2> HIDE DEF k
  <2>2. bytes[k] = Byte
    BY <2>1 DEF Taken
  <2>3. content[c.start + k] = bytes[k]
    BY <2>1
  <2> QED BY <2>1, <2>2, <2>3
<1>5. CASE page.status # "going" \/ bytes[n] = Byte
  <2>1. next = page
    BY <1>5 DEF Take
  <2>2. page.consumed \in 0..n
    BY <1>1
  <2>3. page.status = "going" => \A i \in (page.consumed + 1)..n : bytes[i] = Byte
    BY <1>1, <1>5 DEF Taken
  <2> QED BY <2>1, <2>2, <2>3 DEF Taken
<1>6. CASE page.status = "going" /\ bytes[n] = "malformed"
  <2>1. next = [page EXCEPT !.status = "malformed"]
    BY <1>6 DEF Take, Byte
  <2>2. next \in [turns : Turns, consumed : 0..n, status : {"going", "malformed", "full", "no_room"}]
    BY <1>1, <2>1 DEF Taken
  <2>3. next.turns = page.turns /\ next.consumed = page.consumed /\ next.status = "malformed"
    BY <2>1 DEF Taken
  <2>4. Received(next) = Received(page)
    BY <2>3 DEF Received
  <2> QED BY <2>2, <2>3, <2>4 DEF Taken
<1>7. CASE page.status = "going" /\ bytes[n] = "other"
  <2>1. next = [page EXCEPT !.consumed = n]
    BY <1>7 DEF Take, Byte
  <2>2. next \in [turns : Turns, consumed : 0..n, status : {"going", "malformed", "full", "no_room"}]
    BY <1>1, <2>1 DEF Taken
  <2>3. next.turns = page.turns /\ next.consumed = n
    BY <2>1 DEF Taken
  <2>4. Received(next) = Received(page)
    BY <2>3 DEF Received
  <2>5. Lists(Received(page), content, c.start, y)
    BY DEF Taken
  <2>6. \A i \in (y + 1)..z : content[i] # "turn"
    <3> HIDE DEF y, z, next
    <3> SUFFICES ASSUME NEW i \in (y + 1)..z PROVE content[i] # "turn"
      OBVIOUS
    <3>1. i = z \/ i \in (y + 1)..(z - 1)
      BY <1>1
    <3> QED BY <1>2, <1>4, <1>7, <3>1 DEF Byte
  <2> HIDE DEF y, z, next
  <2>7. Lists(Received(page), content, c.start, z)
    BY <1>1, <2>5, <2>6, ListsOther
  <2>8. bytes[n] \in Newlines
    BY <1>7 DEF Newlines
  <2>9. \A i \in (next.consumed + 1)..n : bytes[i] = Byte
    BY <1>1, <2>3
  <2>10. Lists(Received(next), content, c.start, c.start + next.consumed)
    BY <2>3, <2>4, <2>7 DEF z
  <2>11. bytes[next.consumed] \in Newlines
    BY <2>3, <2>8
  <2> QED BY <2>2, <2>9, <2>10, <2>11 DEF Taken, next
<1>8. CASE page.status = "going" /\ bytes[n] = "turn"
  <2>1. next = Project(c, page, n)
    BY <1>8 DEF Take, Byte
  <2>2. CASE next = [page EXCEPT !.status = IF page.turns = <<>> THEN "no_room" ELSE "full"]
    <3> DEFINE status == IF page.turns = <<>> THEN "no_room" ELSE "full"
    <3>0. status \in {"full", "no_room"}
      OBVIOUS
    <3> HIDE DEF status
    <3>1. next \in [turns : Turns, consumed : 0..n, status : {"going", "malformed", "full", "no_room"}]
      <4>1. next = [page EXCEPT !.status = status]
        BY <2>2 DEF status
      <4>2. page \in [turns : Turns, consumed : 0..(n - 1),
                      status : {"going", "malformed", "full", "no_room"}]
        BY DEF Taken
      <4> HIDE DEF next, y, z
      <4>3. page.consumed \in 0..n
        BY <1>1
      <4> QED BY <3>0, <4>1, <4>2, <4>3
    <3>2. next.turns = page.turns /\ next.consumed = page.consumed /\ next.status # "going"
      <4>1. next = [page EXCEPT !.status = status]
        BY <2>2 DEF status
      <4> HIDE DEF next, y, z
      <4> QED BY <3>0, <4>1 DEF Taken
    <3>3. Received(next) = Received(page)
      BY <3>2 DEF Received
    <3> QED BY <3>1, <3>2, <3>3 DEF Taken
  <2>3. ASSUME NEW inline \in BOOLEAN,
               next = [page EXCEPT !.turns = Append(page.turns, [at |-> y, inline |-> inline]),
                                   !.consumed = n]
        PROVE  Taken(c, bytes, content, next, n)
    <3> DEFINE turn == [at |-> y, inline |-> inline]
    <3>1. turn \in [at : Nat, inline : BOOLEAN] /\ turn.at = y
      BY <1>1
    <3> HIDE DEF turn
    <3>2. Append(page.turns, turn) \in Turns
      BY <1>1, <3>1 DEF Turns
    <3>3. next \in [turns : Turns, consumed : 0..n, status : {"going", "malformed", "full", "no_room"}]
      <4>1. next = [page EXCEPT !.turns = Append(page.turns, turn), !.consumed = n]
        BY <2>3 DEF turn
      <4>2. page \in [turns : Turns, consumed : 0..(n - 1),
                      status : {"going", "malformed", "full", "no_room"}]
        BY DEF Taken
      <4> HIDE DEF next, y, z
      <4>3. n \in 0..n
        BY <1>1
      <4> QED BY <3>2, <4>1, <4>2, <4>3
    <3>4. next.turns = Append(page.turns, turn) /\ next.consumed = n
      BY <2>3 DEF Taken, turn
    <3> HIDE DEF next, y, z
    <3>5. Received(page) \in Seq(Nat) /\ Received(next) = Append(Received(page), y)
      BY <1>1, <3>1, <3>4, ReceivedAppend
    <3>6. Lists(Received(page), content, c.start, y)
      BY DEF Taken, y
    <3>7. content[z] = "turn" /\ \A i \in (y + 1)..(z - 1) : content[i] = Byte
      BY <1>2, <1>4, <1>8
    <3>8. Lists(Append(Received(page), y), content, c.start, z)
      BY <1>1, <1>3, <3>5, <3>6, <3>7, ListsTurn
    <3>9. bytes[n] \in Newlines
      BY <1>8 DEF Newlines
    <3> QED BY <1>1, <3>3, <3>4, <3>5, <3>8, <3>9 DEF Taken, z
  <2>4. \E inline \in BOOLEAN :
          \/ next = [page EXCEPT !.turns = Append(page.turns, [at |-> y, inline |-> inline]),
                                 !.consumed = n]
          \/ next = [page EXCEPT !.status = IF page.turns = <<>> THEN "no_room" ELSE "full"]
    <3> DEFINE room == FitsIn(Append(page.turns, [at |-> y, inline |-> TRUE]), Framed(c, z))
    <3>1. room \in BOOLEAN
      BY DEF FitsIn
    <3>2. \/ next = [page EXCEPT !.turns = Append(page.turns, [at |-> y, inline |-> room]),
                                 !.consumed = n]
          \/ next = [page EXCEPT !.status = IF page.turns = <<>> THEN "no_room" ELSE "full"]
      BY <2>1 DEF Project
    <3> QED BY <3>1, <3>2
  <2> QED BY <2>2, <2>3, <2>4
<1> QED BY <1>2, <1>5, <1>6, <1>7, <1>8 DEF Cells, Newlines

\* What the loop lists is what is there, whatever its budgets and wherever it stops.
LEMMA ScanLists ==
  ASSUME NEW c \in Cursors, NEW bytes \in Seq(Cells), NEW content, Boundary(content, c.start),
         \A i \in 1..Len(bytes) : content[c.start + i] = bytes[i]
  PROVE  Taken(c, bytes, content, Scan(c, bytes), Len(bytes))
<1>1. Len(bytes) \in Nat /\ c.start \in Nat
  BY DEF Cursors
<1>2. PICK page : /\ page[0] = NothingTaken
                  /\ \A n \in 1..Len(bytes) : page[n] = Take(c, bytes, page[n - 1], n)
                  /\ Scan(c, bytes) = page[Len(bytes)]
  BY <1>1, ScanRuns
<1> DEFINE Fails == {n \in 0..Len(bytes) : ~Taken(c, bytes, content, page[n], n)}
<1>3. Taken(c, bytes, content, page[0], 0)
  <2>1. NothingTaken \in [turns : Turns, consumed : 0..0,
                          status : {"going", "malformed", "full", "no_room"}]
    BY DEF NothingTaken, Turns
  <2>2. Received(NothingTaken) = <<>>
    BY DEF NothingTaken, Received
  <2>3. Lists(<<>>, content, c.start, c.start)
    BY <1>1, NothingListed
  <2> QED BY <1>1, <1>2, <2>1, <2>2, <2>3 DEF Taken, NothingTaken
<1>4. Fails = {}
  <2> SUFFICES ASSUME Fails # {} PROVE FALSE
    OBVIOUS
  <2>1. PICK n \in Fails : \A m \in Fails : n <= m
    <3>1. Fails \subseteq Nat
      OBVIOUS
    <3> HIDE DEF Fails
    <3> QED BY <3>1, LeastMember
  <2>2. n \in 1..Len(bytes)
    BY <1>3, <2>1
  <2>3. n - 1 \in 0..Len(bytes) /\ n - 1 \notin Fails
    BY <1>1, <2>1, <2>2
  <2>4. Taken(c, bytes, content, page[n - 1], n - 1)
    BY <2>3
  <2>5. Taken(c, bytes, content, Take(c, bytes, page[n - 1], n), n)
    BY <2>2, <2>4, TakeHolds
  <2> QED BY <1>2, <2>1, <2>2, <2>5
<1> QED BY <1>1, <1>2, <1>4

LEMMA ScanTyped ==
  ASSUME NEW c \in Cursors, NEW bytes \in Seq(Cells)
  PROVE  /\ Scan(c, bytes) \in [turns : Turns, consumed : 0..Len(bytes),
                                status : {"going", "malformed", "full", "no_room"}]
         /\ Scan(c, bytes).consumed = 0 \/ bytes[Scan(c, bytes).consumed] \in Newlines
<1> DEFINE content == [i \in Nat |-> IF i = c.start THEN "other" ELSE bytes[i - c.start]]
<1>1. c.start \in Nat /\ Len(bytes) \in Nat
  BY DEF Cursors
<1>2. Boundary(content, c.start)
  BY <1>1 DEF Boundary, Newlines
<1>3. \A i \in 1..Len(bytes) : content[c.start + i] = bytes[i]
  <2> TAKE i \in 1..Len(bytes)
  <2>1. c.start + i \in Nat /\ c.start + i # c.start /\ (c.start + i) - c.start = i
    BY <1>1
  <2> QED BY <2>1
<1> HIDE DEF content
<1>4. Taken(c, bytes, content, Scan(c, bytes), Len(bytes))
  BY <1>2, <1>3, ScanLists
<1> QED BY <1>4 DEF Taken
-----------------------------------------------------------------------------
(* What a forward read finds                                               *)

\* A read never looks beyond the snapshot.
LEMMA WindowWithin ==
  ASSUME NEW c \in Cursors, Ordered(c)
  PROVE  /\ c.offset \in Nat /\ c.start \in Nat /\ c.stamp.len \in Nat
         /\ c.start <= c.offset /\ c.offset <= c.stamp.len
         /\ NativeLimit(c) \in Int /\ c.offset + NativeLimit(c) <= c.stamp.len
<1> DEFINE left == c.stamp.len - c.offset
           room == MaxRecord - (c.offset - c.start)
           source == c.budgets.source
           window == SourceWindow(c)
           limit == NativeLimit(c)
<1>1. c.stamp.len \in 0..MaxLength /\ source \in Nat /\ MaxLength \in Nat /\ MaxRecord \in Nat
  <2>1. c.stamp \in Stamps /\ c.budgets \in Budgets
    BY DEF Cursors
  <2>2. c.stamp.len \in 0..MaxLength
    BY <2>1 DEF Stamps
  <2>3. c.budgets \in [source : Nat, turns : Nat \ {0}, response : Nat]
    BY <2>1, PagingAssumption
  <2>4. source \in Nat
    BY <2>3
  <2> QED BY <2>2, <2>4, PagingAssumption
<1>2. /\ c.offset \in Nat /\ c.start \in Nat /\ c.stamp.len \in Nat
      /\ c.start <= c.offset /\ c.offset <= c.stamp.len
  BY <1>1 DEF Cursors, Ordered
<1>3. left \in Int /\ room \in Int /\ c.offset + left = c.stamp.len
  BY <1>1, <1>2
<1> HIDE DEF left, room
<1>4. window = Min({left, source}) /\ limit = Min({window, room})
  BY DEF SourceWindow, NativeLimit, left, room
<1> HIDE DEF window, limit, source
<1>5. window \in {left, source} /\ window <= left
  <2>1. left \in Int /\ source \in Int
    BY <1>1, <1>3
  <2> QED BY <1>4, <2>1, MinOfTwo
<1>6. window \in Int
  BY <1>1, <1>3, <1>5
<1>7. limit \in {window, room} /\ limit <= window
  BY <1>3, <1>4, <1>6, MinOfTwo
<1>8. limit \in Int /\ limit <= left
  BY <1>3, <1>5, <1>6, <1>7
<1>9. c.offset + limit <= c.stamp.len
  BY <1>2, <1>3, <1>8
<1> QED BY <1>2, <1>8, <1>9 DEF limit

\* The bytes a page is made from: those of the unfinished record it goes on
\* with, and after them what the file holds, never beyond the snapshot.
LEMMA BytesHold ==
  ASSUME NEW c \in Cursors, NEW content \in Seq(Cells), Ordered(c)
  PROVE  LET bytes == Bytes(c, content)
             carried == c.offset - c.start
         IN /\ bytes \in Seq(Cells) /\ Len(bytes) \in Nat
            /\ carried \in Nat /\ carried <= Len(bytes) /\ c.start + Len(bytes) <= c.stamp.len
            /\ \A i \in 1..carried : bytes[i] = Byte
            /\ \A i \in (carried + 1)..Len(bytes) :
                 c.start + i \in 1..Len(content) /\ bytes[i] = content[c.start + i]
<1> DEFINE carried == c.offset - c.start
           limit == NativeLimit(c)
           till == Min({c.offset + limit, Len(content)})
           rest == SubSeq(content, c.offset + 1, till)
           bytes == Bytes(c, content)
<1>1. /\ c.offset \in Nat /\ c.start \in Nat /\ c.stamp.len \in Nat
      /\ c.start <= c.offset /\ c.offset <= c.stamp.len
      /\ limit \in Int /\ c.offset + limit <= c.stamp.len
      /\ Len(content) \in Nat /\ carried \in Nat
  BY WindowWithin
<1>2. till \in Int /\ till <= c.stamp.len /\ till <= Len(content)
  <2> DEFINE a == c.offset + limit
             b == Len(content)
  <2>1. a \in Int /\ b \in Int /\ a <= c.stamp.len
    BY <1>1
  <2>2. till = Min({a, b})
    OBVIOUS
  <2> HIDE DEF till, a, b
  <2>3. till \in {a, b} /\ till <= a /\ till <= b
    BY <2>1, <2>2, MinOfTwo
  <2> QED BY <1>1, <2>1, <2>3 DEF b
<1>3. bytes = Prefix(c) \o rest
  BY DEF Bytes
<1> HIDE DEF limit, till, bytes
<1>4. /\ rest \in Seq(Cells) /\ Len(rest) \in Nat
      /\ Len(rest) = IF c.offset + 1 <= till THEN till - c.offset ELSE 0
      /\ \A i \in 1..Len(rest) : rest[i] = content[c.offset + i]
  <2>1. \A i \in (c.offset + 1)..till : content[i] \in Cells
    BY <1>1, <1>2
  <2> DEFINE m == c.offset + 1
  <2>2. m \in Int /\ till \in Int /\ \A i \in m..till : content[i] \in Cells
    BY <1>1, <1>2, <2>1
  <2> HIDE DEF m
  <2>3. /\ SubSeq(content, m, till) \in Seq(Cells)
        /\ Len(SubSeq(content, m, till)) = IF m <= till THEN till - m + 1 ELSE 0
        /\ \A i \in 1..(till - m + 1) : SubSeq(content, m, till)[i] = content[m + i - 1]
    BY <2>2, SubSeqProperties
  <2>4. rest = SubSeq(content, m, till)
    BY DEF m
  <2>5. m = c.offset + 1
    BY DEF m
  <2> HIDE DEF rest
  <2>6. Len(rest) = IF c.offset + 1 <= till THEN till - c.offset ELSE 0
    <3>1. Len(rest) = IF m <= till THEN till - m + 1 ELSE 0
      BY ONLY <2>3, <2>4
    <3>2. c.offset \in Int /\ till \in Int
      BY <1>1, <1>2
    <3> QED BY ONLY <2>5, <3>1, <3>2, SpanLength
  <2>7. Len(rest) \in Nat
    BY <1>1, <1>2, <2>6
  <2>8. ASSUME NEW i \in 1..Len(rest) PROVE rest[i] = content[c.offset + i]
    <3>1. i \in 1..(till - m + 1) /\ m + i - 1 = c.offset + i
      <4>1. c.offset + 1 <= till
        BY <1>1, <1>2, <2>6
      <4>2. Len(rest) = till - c.offset
        BY <2>6, <4>1
      <4>3. till - m + 1 = till - c.offset
        BY <1>1, <1>2, <2>5
      <4>4. m + i - 1 = c.offset + i
        BY <1>1, <2>5
      <4> QED BY <4>2, <4>3, <4>4
    <3> QED BY <2>3, <2>4, <3>1
  <2> QED BY <2>3, <2>4, <2>6, <2>7, <2>8
<1>5. Prefix(c) \in Seq(Cells) /\ Len(Prefix(c)) = carried /\ \A i \in 1..carried : Prefix(c)[i] = Byte
  BY <1>1 DEF Prefix, Cells
<1> HIDE DEF rest
<1>7. /\ bytes \in Seq(Cells) /\ Len(bytes) = carried + Len(rest)
      /\ \A i \in 1..carried : bytes[i] = Byte
      /\ \A i \in (carried + 1)..Len(bytes) : bytes[i] = rest[i - carried]
  <2>1. /\ Prefix(c) \o rest \in Seq(Cells)
        /\ Len(Prefix(c) \o rest) = Len(Prefix(c)) + Len(rest)
        /\ \A i \in 1..Len(Prefix(c)) + Len(rest) : (Prefix(c) \o rest)[i] =
              IF i <= Len(Prefix(c)) THEN Prefix(c)[i] ELSE rest[i - Len(Prefix(c))]
    BY <1>4, <1>5, ConcatProperties
  <2> HIDE DEF carried
  <2>2. /\ bytes \in Seq(Cells) /\ Len(bytes) = carried + Len(rest)
        /\ \A i \in 1..(carried + Len(rest)) :
              bytes[i] = IF i <= carried THEN Prefix(c)[i] ELSE rest[i - carried]
    BY <1>3, <1>5, <2>1
  <2>3. ASSUME NEW i \in 1..carried PROVE bytes[i] = Byte
    <3>1. i \in 1..(carried + Len(rest)) /\ i <= carried
      BY <1>1, <1>4
    <3> QED BY <1>5, <2>2, <3>1
  <2>4. ASSUME NEW i \in (carried + 1)..Len(bytes) PROVE bytes[i] = rest[i - carried]
    <3>1. i \in 1..(carried + Len(rest)) /\ ~(i <= carried)
      BY <1>1, <1>4, <2>2
    <3> QED BY <2>2, <3>1
  <2> QED BY <2>2, <2>3, <2>4
<1>8. carried <= Len(bytes) /\ c.start + Len(bytes) <= c.stamp.len /\ Len(bytes) \in Nat
  <2>1. CASE c.offset + 1 <= till
    <3>1. Len(bytes) = (c.offset - c.start) + (till - c.offset)
      BY <1>4, <1>7, <2>1
    <3>2. Len(bytes) = till - c.start
      BY <1>1, <1>2, <3>1
    <3>3. c.offset - c.start <= till - c.start /\ c.start + (till - c.start) = till
      BY <1>1, <1>2, <2>1
    <3>4. till - c.start \in Nat
      BY <1>1, <1>2, <2>1
    <3> QED BY <1>2, <3>2, <3>3, <3>4
  <2>2. CASE ~(c.offset + 1 <= till)
    <3>1. Len(bytes) = (c.offset - c.start) + 0
      BY <1>4, <1>7, <2>2
    <3> QED BY <1>1, <3>1
  <2> QED BY <2>1, <2>2
<1>9. ASSUME NEW i \in (carried + 1)..Len(bytes)
      PROVE  c.start + i \in 1..Len(content) /\ bytes[i] = content[c.start + i]
  <2> DEFINE k == i - carried
  <2>1. k \in 1..Len(rest) /\ c.offset + k = c.start + i /\ c.offset + k \in 1..Len(content)
    <3>1. Len(bytes) = (c.offset - c.start) + Len(rest) /\ k = i - (c.offset - c.start)
      BY <1>7
    <3>2. k \in 1..Len(rest) /\ c.offset + k = c.start + i
      <4>1. /\ c.offset \in Nat /\ c.start \in Nat /\ c.start <= c.offset
            /\ Len(rest) \in Nat /\ i \in (c.offset - c.start + 1)..(c.offset - c.start + Len(rest))
        BY <1>1, <1>4, <3>1
      <4>2. /\ i - (c.offset - c.start) \in 1..Len(rest)
            /\ c.offset + (i - (c.offset - c.start)) = c.start + i
        BY ONLY <4>1, Rebased
      <4> QED BY <3>1, <4>2
    <3> HIDE DEF k, carried
    <3>3. c.offset + 1 <= till /\ k \in 1..(till - c.offset)
      BY <1>1, <1>4, <3>2
    <3>4. c.offset + k \in 1..Len(content)
      BY <1>1, <1>2, <3>3
    <3> QED BY <3>2, <3>4
  <2>2. bytes[i] = rest[k]
    BY <1>7
  <2> HIDE DEF k
  <2> QED BY <1>4, <2>1, <2>2
<1> QED BY <1>1, <1>7, <1>8, <1>9 DEF bytes

\* A read depends on nothing beyond the snapshot it is for.
LEMMA ReadOfAgree ==
  ASSUME NEW c \in Cursors, NEW old \in Seq(Cells), NEW now \in Seq(Cells), Ordered(c),
         c.stamp.len <= Len(old), c.stamp.len <= Len(now),
         \A i \in 1..c.stamp.len : now[i] = old[i]
  PROVE  ReadOf(c, now) = ReadOf(c, old)
<1> DEFINE a == Bytes(c, now)
           b == Bytes(c, old)
           carried == c.offset - c.start
<1>1. c.start \in Nat /\ c.stamp.len \in Nat /\ Len(old) \in Nat /\ Len(now) \in Nat
  <2>1. c.stamp.len \in 0..MaxLength
    BY DEF Cursors, Stamps
  <2> QED BY <2>1, PagingAssumption DEF Cursors
<1>2. /\ a \in Seq(Cells) /\ Len(a) \in Nat /\ carried \in Nat /\ carried <= Len(a)
      /\ c.start + Len(a) <= c.stamp.len
      /\ \A i \in 1..carried : a[i] = Byte
      /\ \A i \in (carried + 1)..Len(a) : c.start + i \in 1..Len(now) /\ a[i] = now[c.start + i]
  BY BytesHold
<1>3. /\ b \in Seq(Cells) /\ Len(b) \in Nat
      /\ \A i \in 1..carried : b[i] = Byte
      /\ \A i \in (carried + 1)..Len(b) : c.start + i \in 1..Len(old) /\ b[i] = old[c.start + i]
  BY BytesHold
<1>4. Len(a) = Len(b)
  <2> DEFINE till == c.offset + NativeLimit(c)
             m == c.offset + 1
  <2>1. till \in Int /\ m \in Int /\ till <= Len(old) /\ till <= Len(now) /\ m >= 1
    BY <1>1, WindowWithin
  <2>2. /\ a = Prefix(c) \o SubSeq(now, m, Min({till, Len(now)}))
        /\ b = Prefix(c) \o SubSeq(old, m, Min({till, Len(old)}))
    BY DEF Bytes
  <2>3. Prefix(c) \in Seq(Cells)
    BY <1>2 DEF Prefix, Cells
  <2> HIDE DEF a, b, till, m
  <2>4. ASSUME NEW n \in Nat, till <= n PROVE Min({till, n}) = till
    <3>1. Min({till, n}) \in {till, n} /\ Min({till, n}) <= till /\ Min({till, n}) <= n
      <4>1. n \in Int
        OBVIOUS
      <4> QED BY <2>1, <4>1, MinOfTwo
    <3> QED BY <2>1, <2>4, <3>1
  <2>5. Min({till, Len(now)}) = till /\ Min({till, Len(old)}) = till
    BY <1>1, <2>1, <2>4
  <2>6. ASSUME NEW content \in Seq(Cells), till <= Len(content)
        PROVE  /\ SubSeq(content, m, till) \in Seq(Cells)
               /\ Len(SubSeq(content, m, till)) = IF m <= till THEN till - m + 1 ELSE 0
    <3>1. \A i \in m..till : content[i] \in Cells
      BY <2>1, <2>6
    <3> QED BY <2>1, <3>1, SubSeqProperties
  <2> DEFINE one == SubSeq(now, m, till)
             two == SubSeq(old, m, till)
  <2>7. one \in Seq(Cells) /\ two \in Seq(Cells) /\ Len(one) = Len(two)
    BY <1>1, <2>1, <2>6
  <2>8. a = Prefix(c) \o one /\ b = Prefix(c) \o two
    BY <2>2, <2>5
  <2> HIDE DEF one, two
  <2>9. Len(a) = Len(Prefix(c)) + Len(one) /\ Len(b) = Len(Prefix(c)) + Len(two)
    <3>1. \A s, t \in Seq(Cells) : Len(s \o t) = Len(s) + Len(t)
      OBVIOUS
    <3> QED BY <2>3, <2>7, <2>8, <3>1
  <2> QED BY <2>7, <2>9 DEF a, b
<1>5. \A i \in 1..Len(a) : a[i] = b[i]
  <2> HIDE DEF a, b
  <2> SUFFICES ASSUME NEW i \in 1..Len(a) PROVE a[i] = b[i]
    OBVIOUS
  <2>1. CASE i \in 1..carried
    BY <1>2, <1>3, <2>1
  <2>2. CASE i \in (carried + 1)..Len(a)
    <3>1. c.start + i \in 1..c.stamp.len
      BY <1>1, <1>2, <2>2
    <3> QED BY <1>2, <1>3, <1>4, <2>2, <3>1
  <2> QED BY <1>2, <2>1, <2>2
<1>6. a = b
  <2> HIDE DEF a, b
  <2> QED BY <1>2, <1>3, <1>4, <1>5, SeqEqual
<1> QED BY <1>6 DEF ReadOf

\* A cursor that a read may leave behind: it is for the same snapshot, and names
\* where the record begins that it stopped in.
Stop(c, at, cursor) ==
  /\ cursor \in Cursors /\ cursor.stamp = c.stamp /\ cursor.sequence = c.sequence
  /\ cursor.start = at /\ Ordered(cursor)

LEMMA StopAt ==
  ASSUME NEW c \in Cursors, NEW offset \in Nat, NEW start \in Nat,
         start <= offset, offset <= c.stamp.len
  PROVE  /\ Stop(c, start, At(c, offset, start))
         /\ At(c, offset, start).offset = offset /\ At(c, offset, start).start = start
<1> DEFINE cursor == At(c, offset, start)
<1>1. c.stamp.len \in 0..MaxLength /\ MaxLength \in Nat
  <2>1. c.stamp \in Stamps
    BY DEF Cursors
  <2> QED BY <2>1, PagingAssumption DEF Stamps
<1>2. offset \in 0..MaxLength /\ start \in 0..MaxLength
  BY <1>1
<1>3. cursor \in Cursors
  BY <1>2 DEF At, Cursors
<1>4. /\ cursor.offset = offset /\ cursor.start = start
      /\ cursor.stamp = c.stamp /\ cursor.sequence = c.sequence
  BY DEF At, Cursors
<1> QED BY <1>3, <1>4 DEF Stop, Ordered

\* Every read stops at a cursor of its own snapshot, and not before it began.
LEMMA ReadOfStops ==
  ASSUME NEW c \in Cursors, NEW content \in Seq(Cells), Ordered(c)
  PROVE  LET found == ReadOf(c, content)
             at == c.start + Scan(c, Bytes(c, content)).consumed
         IN /\ found.turns \in Turns /\ found.complete \in BOOLEAN
            /\ Stop(c, at, found.next) /\ at \in Nat /\ c.start <= at
            /\ found.complete => found.next.offset = c.stamp.len
            /\ found.checkpoint \in Cursors \cup {NoCursor}
            /\ found.checkpoint # NoCursor =>
                 Stop(c, at, found.checkpoint) /\ found.checkpoint.offset = at
<1> DEFINE bytes == Bytes(c, content)
           page == Scan(c, bytes)
           at == c.start + page.consumed
           next == Reached(c, page, bytes)
           found == ReadOf(c, content)
<1>1. /\ bytes \in Seq(Cells) /\ Len(bytes) \in Nat /\ c.offset - c.start <= Len(bytes)
      /\ c.start + Len(bytes) <= c.stamp.len
  BY BytesHold
<1>2. /\ c.offset \in Nat /\ c.start \in Nat /\ c.stamp.len \in Nat
      /\ c.start <= c.offset /\ c.offset <= c.stamp.len
  BY WindowWithin
<1> HIDE DEF bytes
<1>3. page.turns \in Turns /\ page.consumed \in 0..Len(bytes)
  BY <1>1, ScanTyped
<1>4. /\ found.turns = page.turns /\ found.next = next
      /\ found.complete = (next.offset = c.stamp.len)
      /\ found.checkpoint = IF Unframed(page, bytes) /\ page.consumed > 0
                            THEN Checkpoint(c, page) ELSE NoCursor
  BY DEF ReadOf, Complete, bytes
<1> HIDE DEF page
<1>5. /\ at \in Nat /\ c.start <= at /\ at <= c.start + Len(bytes) /\ at <= c.stamp.len
      /\ c.start + Len(bytes) \in Nat
  BY <1>1, <1>2, <1>3
<1>6. page.consumed = 0 => at = c.start
  BY <1>2
<1> HIDE DEF at, next, found
<1>7. Stop(c, at, At(c, c.start + Len(bytes), at)) /\ Stop(c, at, At(c, at, at)) /\ At(c, at, at).offset = at
  BY <1>1, <1>5, StopAt
<1>8. Stop(c, at, Checkpoint(c, page)) /\ (page.consumed > 0 => Checkpoint(c, page).offset = at)
  <2>1. CASE page.consumed = 0
    BY <1>3, <1>6, <2>1 DEF Checkpoint, Stop
  <2>2. CASE page.consumed # 0
    <3>1. Checkpoint(c, page) = At(c, at, at)
      BY <2>2 DEF Checkpoint, Framed, at
    <3> QED BY <1>7, <3>1
  <2> QED BY <2>1, <2>2
<1>9. Stop(c, at, next)
  <2>1. CASE Unframed(page, bytes)
    <3>1. next = At(c, c.start + Len(bytes), at)
      BY <2>1 DEF Reached, next, at
    <3> QED BY <1>7, <3>1
  <2>2. CASE ~Unframed(page, bytes)
    <3>1. next = Checkpoint(c, page)
      BY <2>2 DEF Reached, next
    <3> QED BY <1>8, <3>1
  <2> QED BY <2>1, <2>2
<1>10. found.complete \in BOOLEAN /\ (found.complete => found.next.offset = c.stamp.len)
  BY <1>4
<1>11. /\ found.checkpoint \in Cursors \cup {NoCursor}
       /\ found.checkpoint # NoCursor =>
            Stop(c, at, found.checkpoint) /\ found.checkpoint.offset = at
  BY <1>4, <1>8 DEF Stop
<1> QED BY <1>3, <1>4, <1>5, <1>9, <1>10, <1>11 DEF at, found, page, bytes

\* A read of a file that is as its snapshot found it lists the turns up to the
\* record it stops in, and is complete only if no record is left.
LEMMA ReadOfFinds ==
  ASSUME NEW c \in Cursors, NEW content \in Seq(Cells), Ordered(c),
         c.stamp.len <= Len(content), InRecord(content, c)
  PROVE  LET found == ReadOf(c, content)
         IN /\ Lists(Received(found), content, c.start, found.next.start)
            /\ InRecord(content, found.next)
            /\ found.checkpoint # NoCursor => InRecord(content, found.checkpoint)
            /\ found.complete => Exhausted(content, found.next)
<1> DEFINE bytes == Bytes(c, content)
           page == Scan(c, bytes)
           at == c.start + page.consumed
           next == Reached(c, page, bytes)
           found == ReadOf(c, content)
<1>1. /\ bytes \in Seq(Cells) /\ Len(bytes) \in Nat
      /\ c.offset - c.start \in Nat /\ c.offset - c.start <= Len(bytes)
      /\ c.start + Len(bytes) <= c.stamp.len
      /\ \A i \in 1..(c.offset - c.start) : bytes[i] = Byte
      /\ \A i \in (c.offset - c.start + 1)..Len(bytes) : bytes[i] = content[c.start + i]
  BY BytesHold
<1>2. /\ c.offset \in Nat /\ c.start \in Nat /\ c.stamp.len \in Nat
      /\ c.start <= c.offset /\ c.offset <= c.stamp.len
  BY WindowWithin
<1> HIDE DEF bytes
<1>3. \A i \in 1..Len(bytes) : content[c.start + i] = bytes[i]
  <2> SUFFICES ASSUME NEW i \in 1..Len(bytes) PROVE content[c.start + i] = bytes[i]
    OBVIOUS
  <2>1. CASE i \in 1..(c.offset - c.start)
    <3>1. c.start + i \in (c.start + 1)..c.offset
      BY <1>1, <1>2, <2>1
    <3> QED BY <1>1, <2>1, <3>1 DEF InRecord
  <2>2. CASE i \in (c.offset - c.start + 1)..Len(bytes)
    BY <1>1, <2>2
  <2> QED BY <1>1, <2>1, <2>2
<1>4. Boundary(content, c.start)
  BY DEF InRecord, Boundary
<1>5. Taken(c, bytes, content, page, Len(bytes))
  BY <1>1, <1>3, <1>4, ScanLists
<1>6. /\ page.turns \in Turns /\ page.consumed \in 0..Len(bytes)
      /\ page.consumed = 0 \/ bytes[page.consumed] \in Newlines
      /\ Lists(Received(page), content, c.start, at)
  BY <1>5 DEF Taken
<1>7. /\ found.turns = page.turns /\ found.next = next
      /\ found.complete => next.offset = c.stamp.len
      /\ found.checkpoint = IF Unframed(page, bytes) /\ page.consumed > 0
                            THEN Checkpoint(c, page) ELSE NoCursor
  BY DEF ReadOf, Complete, bytes
<1>8. Stop(c, at, next) /\ at \in Nat
  BY <1>7, ReadOfStops DEF bytes
<1> HIDE DEF page, found
<1>9. Received(found) = Received(page)
  BY <1>7 DEF Received
<1>10. Boundary(content, at) /\ (page.consumed = 0 => at = c.start)
  <2>1. CASE page.consumed = 0
    BY <1>2, <1>4, <2>1
  <2>2. CASE page.consumed # 0
    <3>1. page.consumed \in 1..Len(bytes)
      BY <1>1, <1>6, <2>2
    <3> QED BY <1>3, <1>6, <2>2, <3>1 DEF Boundary
  <2> QED BY <2>1, <2>2
<1>11. InRecord(content, Checkpoint(c, page))
  <2>1. CASE page.consumed = 0
    BY <2>1 DEF Checkpoint
  <2>2. CASE page.consumed # 0
    <3>1. Checkpoint(c, page) = At(c, at, at)
      BY <2>2 DEF Checkpoint, Framed
    <3>2. At(c, at, at).start = at /\ At(c, at, at).offset = at
      BY DEF At, Cursors
    <3>3. \A i \in (at + 1)..at : FALSE
      BY <1>8
    <3> HIDE DEF at
    <3> QED BY <1>10, <3>1, <3>2, <3>3 DEF InRecord, Boundary
  <2> QED BY <2>1, <2>2
<1>12. InRecord(content, next)
  <2>1. CASE Unframed(page, bytes)
    <3> DEFINE to == c.start + Len(bytes)
    <3>1. next = At(c, to, at)
      BY <2>1 DEF Reached
    <3>2. At(c, to, at).start = at /\ At(c, to, at).offset = to
      BY DEF At, Cursors
    <3>3. ASSUME NEW i \in (at + 1)..to PROVE content[i] = Byte
      <4> DEFINE k == i - c.start
      <4>1. k \in (page.consumed + 1)..Len(bytes) /\ c.start + k = i
        <5>1. i \in Int /\ c.start + page.consumed + 1 <= i /\ i <= c.start + Len(bytes)
          BY <1>1, <1>2, <1>6
        <5> HIDE DEF at
        <5> QED BY <1>1, <1>2, <1>6, <5>1
      <4>2. k \in 1..Len(bytes)
        BY <1>1, <1>6, <4>1
      <4> HIDE DEF k
      <4> QED BY <1>3, <2>1, <4>1, <4>2 DEF Unframed
    <3> HIDE DEF at, to, next
    <3> QED BY <1>10, <3>1, <3>2, <3>3 DEF InRecord, Boundary
  <2>2. CASE ~Unframed(page, bytes)
    BY <1>11, <2>2 DEF Reached
  <2> QED BY <2>1, <2>2
<1> HIDE DEF at, next
<1>13. found.complete => Exhausted(content, found.next)
  BY <1>7, <1>8, <1>12 DEF Exhausted, InRecord, Stop
<1>14. found.next.start = at
  BY <1>7, <1>8 DEF Stop
<1>15. found.checkpoint # NoCursor => InRecord(content, found.checkpoint)
  BY <1>7, <1>11
<1>16. Lists(Received(found), content, c.start, found.next.start)
  BY <1>6, <1>9, <1>14
<1> QED BY <1>7, <1>12, <1>13, <1>15, <1>16 DEF found

-----------------------------------------------------------------------------
(* The answer                                                              *)

\* Omitting bodies keeps the turns.
LEMMA FittedKeeps ==
  ASSUME NEW turns \in Turns, NEW cursor
  PROVE  /\ Fitted(turns, cursor) \in Turns /\ Len(Fitted(turns, cursor)) = Len(turns)
         /\ \A i \in 1..Len(turns) : Fitted(turns, cursor)[i].at = turns[i].at
<1>1. Len(turns) \in Nat /\ DOMAIN turns = 1..Len(turns)
      /\ \A i \in 1..Len(turns) : turns[i] \in [at : Nat, inline : BOOLEAN]
  BY ElementOfSeq, LenProperties DEF Turns
<1>2. ASSUME NEW n
      PROVE  /\ OmitLast(turns, n) \in Turns /\ Len(OmitLast(turns, n)) = Len(turns)
             /\ \A i \in 1..Len(turns) : OmitLast(turns, n)[i].at = turns[i].at
  <2> DEFINE one(i) == IF i > Len(turns) - n THEN [turns[i] EXCEPT !.inline = FALSE] ELSE turns[i]
  <2>1. \A i \in 1..Len(turns) : one(i) \in [at : Nat, inline : BOOLEAN] /\ one(i).at = turns[i].at
    BY <1>1
  <2>2. OmitLast(turns, n) = [i \in 1..Len(turns) |-> one(i)]
    BY <1>1 DEF OmitLast
  <2> HIDE DEF one
  <2>3. OmitLast(turns, n) \in [1..Len(turns) -> [at : Nat, inline : BOOLEAN]]
    BY <2>1, <2>2
  <2>4. OmitLast(turns, n) \in Turns /\ Len(OmitLast(turns, n)) = Len(turns)
    BY <1>1, <2>3 DEF Turns
  <2> QED BY <2>1, <2>2, <2>4
<1> QED BY <1>2 DEF Fitted

\* A page that is answered ends where the read stopped, or at the record
\* boundary before it; what it lists is what the read listed.
LEMMA AnswerHolds ==
  ASSUME NEW read, read.turns \in Turns, read.complete \in BOOLEAN, read.next \in Cursors,
         read.checkpoint \in Cursors \cup {NoCursor}, Answer(read).status = "page"
  PROVE  LET answer == Answer(read)
         IN \E stop \in Cursors :
              /\ stop = read.next \/ stop = read.checkpoint
              /\ answer \in Pages /\ Received(answer) = Received(read)
              /\ Len(answer.turns) = Len(read.turns) /\ (read.turns = <<>> => answer.turns = <<>>)
              /\ answer.cursor.sequence = stop.sequence + Len(read.turns)
              /\ answer.cursor.kind \in {"page", "resume"}
              /\ answer.cursor.kind = "resume" => read.complete /\ stop = read.next
              /\ answer.cursor.stamp = stop.stamp /\ answer.cursor.offset = stop.offset
              /\ answer.cursor.start = stop.start
<1> DEFINE turns == Fitted(read.turns, read.next)
           answer == Answer(read)
<1>1. turns \in Turns /\ Len(turns) = Len(read.turns) /\ \A i \in 1..Len(turns) : turns[i].at = read.turns[i].at
  BY FittedKeeps
<1>2. DOMAIN turns = 1..Len(turns) /\ DOMAIN read.turns = 1..Len(turns) /\ Len(turns) \in Nat
  BY <1>1, LenProperties DEF Turns
<1> HIDE DEF turns
<1>3. \E stop \in Cursors, complete \in BOOLEAN :
        /\ stop = read.next \/ stop = read.checkpoint
        /\ answer = Page(turns, stop, complete)
        /\ complete => read.complete /\ stop = read.next
  <2>1. CASE FitsIn(turns, read.next)
    <3>1. answer = Page(turns, read.next, read.complete)
      BY <2>1 DEF Answer, turns
    <3> QED BY <3>1
  <2>2. CASE ~FitsIn(turns, read.next) /\ read.checkpoint # NoCursor /\ FitsIn(turns, read.checkpoint)
    <3>1. answer = Page(turns, read.checkpoint, FALSE)
      BY <2>2 DEF Answer, turns
    <3>2. read.checkpoint \in Cursors
      BY <2>2
    <3> QED BY <3>1, <3>2
  <2>3. CASE ~FitsIn(turns, read.next) /\ ~(read.checkpoint # NoCursor /\ FitsIn(turns, read.checkpoint))
    <3>1. answer = [status |-> "no_room"]
      BY <2>3 DEF Answer, turns
    <3> QED BY <3>1
  <2> QED BY <2>1, <2>2, <2>3
<1>4. PICK stop \in Cursors, complete \in BOOLEAN :
        /\ stop = read.next \/ stop = read.checkpoint
        /\ answer = Page(turns, stop, complete)
        /\ complete => read.complete /\ stop = read.next
  BY <1>3
<1> HIDE DEF answer
<1> DEFINE kind == IF complete THEN "resume" ELSE "page"
           sequence == stop.sequence + Len(turns)
           cursor == [stop EXCEPT !.kind = kind, !.sequence = sequence]
<1>5. /\ cursor \in Cursors /\ cursor.stamp = stop.stamp /\ cursor.offset = stop.offset
      /\ cursor.start = stop.start /\ cursor.sequence = stop.sequence + Len(turns)
      /\ cursor.kind \in {"page", "resume"} /\ (cursor.kind = "resume" => complete)
  <2>1. kind \in {"page", "resume"} /\ (kind = "resume" => complete)
    OBVIOUS
  <2>2. stop.sequence \in Nat
    BY DEF Cursors
  <2>3. sequence \in Nat
    BY <1>2, <2>2
  <2> HIDE DEF kind, sequence
  <2>4. cursor \in Cursors
    BY <2>1, <2>3 DEF Cursors
  <2>5. /\ cursor.stamp = stop.stamp /\ cursor.offset = stop.offset
        /\ cursor.start = stop.start /\ cursor.sequence = sequence /\ cursor.kind = kind
    BY DEF Cursors
  <2> QED BY <2>1, <2>4, <2>5 DEF sequence
<1>6. answer = [status |-> "page", turns |-> turns, complete |-> complete, cursor |-> cursor]
  BY <1>4 DEF Page
<1> HIDE DEF cursor
<1>7. answer \in Pages /\ answer.turns = turns /\ answer.cursor = cursor
  BY <1>1, <1>5, <1>6 DEF Pages
<1>8. Received(answer) = Received(read)
  BY <1>1, <1>2, <1>7 DEF Received
<1>9. read.turns = <<>> => answer.turns = <<>>
  BY <1>1, <1>2, <1>7
<1> QED BY <1>1, <1>4, <1>5, <1>7, <1>8, <1>9 DEF answer

-----------------------------------------------------------------------------
(* The parts of the inductive invariant                                    *)

CallTyped ==
  call \in [pc : {"idle"}] \cup AskedCalls \cup OpenedCalls \cup ReadCalls \cup AnsweredCalls
RestTyped ==
  /\ projection \in Projections
  /\ files \in [Inodes -> Seq(Cells)] /\ Len(files[1]) + Len(files[2]) <= MaxLength
  /\ mtime \in [Inodes -> Nat] /\ live \in Inodes /\ cut \in [Inodes -> Nat]
  /\ held \in Cursors \cup {NoCursor} /\ inbox \in Seq(Nat)
  /\ anchor \in Nat /\ earlier \in Nat /\ rewrites \in Nat
  /\ memo \in [token : Cursors, answer : Answers] \cup {NoCursor}

\* What holds of the request being served, and of everything else.
Serving ==
  /\ CallTyped
  /\ call.pc # "idle" => RequestHolds
  /\ call.pc \in {"opened", "read"} => LookHolds
  /\ call.pc = "read" => ReadHolds
  /\ Answered("page") => PageHolds
  /\ OnlyRewritesGoStale /\ ReplayIdentical
Rest == RestTyped /\ CutsHold /\ HostHolds /\ MemoHolds

LEMMA Parts == IInv <=> Serving /\ Rest
BY DEF IInv, TypeOK, Serving, Rest, CallTyped, RestTyped

LEMMA CallShapes ==
  ASSUME CallTyped
  PROVE  /\ call.pc \in {"idle", "asked", "opened", "read", "answered"}
         /\ call.pc = "asked" => call \in AskedCalls
         /\ call.pc = "opened" => call \in OpenedCalls
         /\ call.pc = "read" => call \in ReadCalls
         /\ call.pc = "answered" => call \in AnsweredCalls
         /\ call.pc # "idle" => call.request \in Requests
BY DEF CallTyped, AskedCalls, OpenedCalls, ReadCalls, AnsweredCalls

LEMMA CursorFacts ==
  ASSUME NEW c \in Cursors
  PROVE  /\ c # NoCursor /\ c.kind \in {"page", "resume"} /\ c.stamp \in Stamps
         /\ c.stamp.inode \in Inodes /\ c.stamp.len \in Nat /\ c.stamp.len \in 0..MaxLength
         /\ c.stamp.mtime \in Nat /\ c.offset \in Nat /\ c.start \in Nat /\ c.sequence \in Nat
         /\ c.budgets \in Budgets /\ c.offset \in 0..MaxLength /\ c.start \in 0..MaxLength
<1>1. c.stamp \in Stamps /\ MaxLength \in Nat
  BY PagingAssumption DEF Cursors
<1>2. c.stamp.inode \in Inodes /\ c.stamp.len \in 0..MaxLength /\ c.stamp.mtime \in Nat
  BY <1>1 DEF Stamps
<1>3. c.offset \in 0..MaxLength /\ c.start \in 0..MaxLength
  BY DEF Cursors
<1>4. c.stamp.len \in Nat /\ c.offset \in Nat /\ c.start \in Nat
  BY <1>1, <1>2, <1>3
<1> QED BY <1>1, <1>2, <1>3, <1>4, NoCursorIsNone DEF Cursors

\* The stamp of a file as it is now.
LEMMA StampOfNow ==
  ASSUME RestTyped, NEW i \in Inodes
  PROVE  /\ StampOf(i) \in Stamps /\ StampOf(i).inode = i /\ StampOf(i).len = Len(files[i])
         /\ StampOf(i).mtime = mtime[i] /\ files[i] \in Seq(Cells) /\ Len(files[i]) \in Nat
<1>1. files[i] \in Seq(Cells) /\ files[1] \in Seq(Cells) /\ files[2] \in Seq(Cells)
  BY DEF RestTyped, Inodes
<1>2. Len(files[i]) \in Nat /\ Len(files[1]) \in Nat /\ Len(files[2]) \in Nat
  BY <1>1
<1>3. Len(files[i]) \in 0..MaxLength
  <2> DEFINE one == Len(files[1])
             two == Len(files[2])
             this == Len(files[i])
  <2>1. this = one \/ this = two
    BY DEF Inodes
  <2>2. one \in Nat /\ two \in Nat
    BY <1>2
  <2>3. one + two <= MaxLength /\ MaxLength \in Nat
    BY PagingAssumption DEF RestTyped
  <2> HIDE DEF one, two, this
  <2>4. this \in 0..MaxLength
    BY <2>1, <2>2, <2>3
  <2> QED BY <2>4 DEF this
<1>4. mtime[i] \in Nat
  BY DEF RestTyped
<1> QED BY <1>1, <1>2, <1>3, <1>4 DEF StampOf, Stamps

LEMMA RestStays ==
  ASSUME Rest, UNCHANGED <<projection, rollout, host, rewrites>>
  PROVE  Rest'
<1>1. UNCHANGED <<projection, files, mtime, live, cut, held, inbox, anchor, earlier, memo, rewrites>>
  BY DEF rollout, host
<1>2. RestTyped'
  BY <1>1 DEF Rest, RestTyped
<1>3. CutsHold'
  BY <1>1 DEF Rest, CutsHold
<1>4. HostHolds'
  BY <1>1 DEF Rest, HostHolds, CursorHolds, StampHolds, StampOf, Intact, Content
<1>5. MemoHolds'
  BY <1>1 DEF Rest, MemoHolds, Replays, Intact, Content
<1> QED BY <1>2, <1>3, <1>4, <1>5 DEF Rest

\* A refusal is safe if, of the host's own cursor, it says it is stale only after
\* something was rewritten.
LEMMA RefusalHolds ==
  ASSUME Serving, Rest, call.pc \in {"asked", "opened", "read"}, NEW why \in Refusals,
         Refuse(why), HandlerLeaves,
         why = "stale" /\ WellUsed(call.request) => rewrites > 0
  PROVE  Serving' /\ Rest'
<1>1. UNCHANGED <<projection, rollout, host, rewrites>> /\ held' = held /\ rewrites' = rewrites
  BY DEF HandlerLeaves, host
<1>2. Rest'
  BY <1>1, RestStays
<1>3. call' = [pc |-> "answered", request |-> call.request, answer |-> [status |-> why]]
  BY DEF Refuse, Refusal
<1>4. call.request \in Requests
  BY CallShapes DEF Serving
<1>5. CallTyped'
  <2>1. [status |-> why] \in Answers
    BY DEF Answers
  <2>2. call' \in AnsweredCalls
    BY <1>3, <1>4, <2>1 DEF AnsweredCalls
  <2> QED BY <2>2 DEF CallTyped
<1>6. call'.pc = "answered" /\ call'.request = call.request /\ call'.answer.status = why
  BY <1>3
<1>7. RequestHolds'
  BY <1>1, <1>6 DEF Serving, RequestHolds
<1>8. why # "page"
  BY DEF Refusals
<1>9. OnlyRewritesGoStale'
  BY <1>1, <1>6 DEF OnlyRewritesGoStale, Answered
<1>10. ReplayIdentical'
  BY <1>6, <1>8 DEF ReplayIdentical, Answered
<1>11. Serving'
  BY <1>5, <1>6, <1>7, <1>8, <1>9, <1>10 DEF Serving, Answered
<1> QED BY <1>2, <1>11

-----------------------------------------------------------------------------
(* The handler's steps                                                     *)

\* As long as nothing was rewritten the host's own cursor is honoured.
LEMMA RefuseTokenHolds ==
  ASSUME Serving, Rest, RefuseToken
  PROVE  Serving' /\ Rest'
<1> DEFINE r == call.request
<1>1. call.pc = "asked" /\ ~Honoured(r) /\ Refuse("stale") /\ HandlerLeaves
  BY DEF RefuseToken
<1>2. r \in Requests /\ r.token = held /\ rewrites \in Nat
  BY <1>1, CallShapes DEF Serving, RequestHolds, Rest, RestTyped
<1>3. WellUsed(r) => rewrites > 0
  <2> SUFFICES ASSUME WellUsed(r), rewrites = 0, held # NoCursor PROVE FALSE
    BY <1>1, <1>2 DEF Honoured
  <2>1. held \in Cursors /\ CursorHolds(held)
    BY DEF Rest, RestTyped, HostHolds
  <2>2. /\ held.stamp.inode = live /\ SameGeneration(held.stamp, StampOf(live))
        /\ held.offset <= held.stamp.len
    BY <2>1 DEF CursorHolds, StampHolds, Ordered
  <2>3. held.offset <= Len(files[live])
    <3>1. held.stamp.len <= Len(files[live])
      BY <2>2 DEF SameGeneration, StampOf
    <3>2. Len(files[live]) \in Nat
      BY StampOfNow DEF Rest, RestTyped
    <3> QED BY <2>1, <2>2, <3>1, <3>2, CursorFacts
  <2>4. r.mode \in {"beginning", "tail", "continuation"} /\ (r.mode = "tail" => held = NoCursor)
    BY <1>1, <1>2 DEF Requests, Serving, RequestHolds
  <2>5. r.bound /\ (IF r.mode = "continuation" THEN r.token.kind = "page" /\ r.token.budgets = r.budgets
                                               ELSE r.token.kind = "resume")
    BY <1>2, <2>4 DEF WellUsed
  <2> QED BY <1>1, <1>2, <2>2, <2>3, <2>5 DEF Honoured
<1>4. "stale" \in Refusals
  BY DEF Refusals
<1> QED BY <1>1, <1>3, <1>4, RefusalHolds

LEMMA OpenHolds ==
  ASSUME Serving, Rest, Open
  PROVE  Serving' /\ Rest'
<1> DEFINE r == call.request
           c == Position(r)
           now == files[live]
<1>1. /\ call.pc = "asked" /\ Honoured(r) /\ HandlerLeaves
      /\ call' = [pc |-> "opened", request |-> r, from |-> c, current |-> StampOf(live)]
  BY DEF Open
<1>2. /\ UNCHANGED <<projection, rollout, host, rewrites>>
      /\ UNCHANGED <<files, mtime, live, cut, held, rewrites>>
  BY <1>1 DEF HandlerLeaves, rollout, host
<1>3. Rest'
  BY <1>2, RestStays
<1>4. /\ r \in Requests /\ r.token = held /\ (r.mode = "tail" => held = NoCursor)
      /\ (r.mode = "continuation" => held # NoCursor) /\ r.budgets \in Budgets
  BY <1>1, CallShapes DEF Serving, RequestHolds, Requests
<1>5. /\ StampOf(live) \in Stamps /\ StampOf(live).inode = live /\ StampOf(live).len = Len(now)
      /\ Len(now) \in Nat /\ now \in Seq(Cells) /\ live \in Inodes /\ projection \in Projections
      /\ Len(now) \in 0..MaxLength
  BY StampOfNow DEF Rest, RestTyped, Stamps
<1>6. SameGeneration(StampOf(live), StampOf(live)) /\ StampHolds(StampOf(live))
  BY <1>5 DEF SameGeneration, StampHolds
<1>7. held # NoCursor =>
        /\ held \in Cursors /\ held.offset <= Len(now) /\ held.stamp.inode = live
        /\ SameGeneration(held.stamp, StampOf(live)) /\ held.stamp.len <= Len(now)
        /\ CursorHolds(held) /\ (cut[live] = 0 => InRecord(now, held))
        /\ (IF r.mode = "continuation" THEN held.kind = "page" /\ held.budgets = r.budgets
                                       ELSE held.kind = "resume")
  <2> SUFFICES ASSUME held # NoCursor
               PROVE  /\ held \in Cursors /\ held.offset <= Len(now) /\ held.stamp.inode = live
                      /\ SameGeneration(held.stamp, StampOf(live)) /\ held.stamp.len <= Len(now)
                      /\ CursorHolds(held) /\ (cut[live] = 0 => InRecord(now, held))
                      /\ (IF r.mode = "continuation" THEN held.kind = "page" /\ held.budgets = r.budgets
                                                     ELSE held.kind = "resume")
    OBVIOUS
  <2>1. held \in Cursors /\ CursorHolds(held)
    BY DEF Rest, RestTyped, HostHolds
  <2>2. /\ held.offset <= Len(now) /\ SameGeneration(held.stamp, StampOf(live))
        /\ (IF r.mode = "continuation" THEN held.kind = "page" /\ held.budgets = r.budgets
                                       ELSE held.kind = "resume")
    BY <1>1, <1>4 DEF Honoured
  <2>3. held.stamp.inode = live /\ held.stamp.len <= Len(now)
    BY <1>5, <2>2 DEF SameGeneration
  <2>4. cut[live] = 0 => InRecord(now, held)
    BY <2>1, <2>3 DEF CursorHolds, Intact, Content
  <2> QED BY <2>1, <2>2, <2>3, <2>4
<1>8. r.mode = "continuation" => c = held
  <2> SUFFICES ASSUME r.mode = "continuation" PROVE c = held
    OBVIOUS
  <2>1. c = [held EXCEPT !.budgets = held.budgets]
    BY <1>4, <1>7 DEF Position
  <2> QED BY <1>4, <1>7, <2>1 DEF Cursors
<1>9. r.mode # "continuation" =>
        /\ c \in Cursors /\ c.sequence = 0 /\ c.stamp = StampOf(live) /\ c.start = Origin
        /\ c.offset = IF held = NoCursor THEN 0 ELSE held.offset
  <2> DEFINE at == IF held = NoCursor THEN 0 ELSE held.offset
             since == IF held = NoCursor THEN 0 ELSE held.start
  <2> SUFFICES ASSUME r.mode # "continuation"
               PROVE  /\ c \in Cursors /\ c.sequence = 0 /\ c.stamp = StampOf(live) /\ c.start = Origin
                      /\ c.offset = at
    OBVIOUS
  <2>1. at \in 0..MaxLength /\ since \in 0..MaxLength
    BY <1>7, CursorFacts, PagingAssumption
  <2>2. since = Origin
    BY DEF Origin
  <2>3. c = [kind |-> "page", projection |-> projection, stamp |-> StampOf(live),
             budgets |-> r.budgets, offset |-> at, start |-> since, sequence |-> 0]
    BY <1>4 DEF Position
  <2> HIDE DEF at, since, c
  <2> QED BY <1>4, <1>5, <2>1, <2>2, <2>3 DEF Cursors
<1> HIDE DEF c
<1>10. c \in Cursors /\ c.start = Origin /\ (held = NoCursor => c.offset = 0)
  BY <1>4, <1>7, <1>8, <1>9 DEF Origin
<1>11. c.stamp.inode = live /\ c.stamp.len <= Len(now) /\ GoesOn(c)
  <2>1. CASE r.mode = "continuation"
    <3>1. c = held /\ held.stamp.len \in Nat
      BY <1>4, <1>7, <1>8, <2>1, CursorFacts
    <3> QED BY <1>4, <1>7, <2>1, <3>1 DEF GoesOn
  <2>2. CASE r.mode # "continuation"
    <3>1. c.stamp.inode = live /\ c.stamp.len = Len(now)
      BY <1>5, <1>9, <2>2
    <3> QED BY <1>5, <1>7, <3>1 DEF GoesOn
  <2> QED BY <2>1, <2>2
<1>12. CursorHolds(c)
  <2>1. CASE r.mode = "continuation"
    BY <1>4, <1>7, <1>8, <2>1
  <2>2. CASE r.mode # "continuation"
    <3>1. Ordered(c)
      BY <1>5, <1>7, <1>9, <2>2 DEF Origin, Ordered, CursorHolds
    <3>2. cut[live] = 0 => InRecord(now, c)
      <4>1. CASE held = NoCursor
        BY <1>9, <2>2, <4>1 DEF Origin, InRecord
      <4>2. CASE held # NoCursor
        BY <1>7, <1>9, <2>2, <4>2 DEF Origin, InRecord
      <4> QED BY <4>1, <4>2
    <3> QED BY <1>6, <1>9, <1>11, <2>2, <3>1, <3>2 DEF CursorHolds, Intact, Content
  <2> QED BY <2>1, <2>2
<1>13. RightKind(r.mode)
  BY <1>4, <1>7 DEF RightKind
<1>14. /\ call'.pc = "opened" /\ call'.request = r /\ call'.from = c /\ call'.current = StampOf(live)
  BY <1>1
<1>15. CallTyped'
  <2>1. call' \in OpenedCalls
    BY <1>1, <1>4, <1>5, <1>10 DEF OpenedCalls
  <2> QED BY <2>1 DEF CallTyped
<1>16. RequestHolds'
  BY <1>2, <1>4, <1>14 DEF RequestHolds
<1>17. LookHolds'
  <2>1. RightKind(call.request.mode)' /\ GoesOn(call.from)' /\ Origin' = Origin
    BY <1>2, <1>11, <1>13, <1>14 DEF RightKind, GoesOn, Origin
  <2>2. CursorHolds(call.from)' /\ StampHolds(call.current)'
    <3>1. StampHolds(call.current)'
      BY <1>2, <1>6, <1>14 DEF StampHolds, StampOf
    <3>2. CursorHolds(call.from)'
      BY <1>2, <1>12, <1>14 DEF CursorHolds, StampHolds, StampOf, Intact, Content
    <3> QED BY <3>1, <3>2
  <2>3. IF call'.request.mode = "continuation" THEN call'.from = held'
        ELSE call'.from.sequence = 0 /\ call'.from.stamp = call'.current
    BY <1>2, <1>8, <1>9, <1>14
  <2>4. call'.current.inode = call'.from.stamp.inode /\ call'.from.stamp.len <= call'.current.len
    BY <1>5, <1>11, <1>14
  <2>5. call'.from.start = Origin' /\ (held' = NoCursor => call'.from.offset = 0)
    BY <1>2, <1>10, <1>14, <2>1
  <2>6. held' # NoCursor => SameGeneration(held'.stamp, call'.current)
    BY <1>2, <1>7, <1>14
  <2> QED BY <1>14, <2>1, <2>2, <2>3, <2>4, <2>5, <2>6 DEF LookHolds
<1>18. OnlyRewritesGoStale' /\ ReplayIdentical'
  BY <1>14 DEF OnlyRewritesGoStale, ReplayIdentical, Answered
<1> QED BY <1>3, <1>14, <1>15, <1>16, <1>17, <1>18 DEF Serving, Answered

\* Any of the reads: a snapshot under way is served at the cursor the host holds.
LEMMA LookFacts ==
  ASSUME Serving, Rest, call.pc \in {"opened", "read"}
  PROVE  /\ LookHolds /\ call.from \in Cursors /\ call.current \in Stamps
         /\ call.request \in Requests /\ Ordered(call.from)
         /\ files[call.current.inode] \in Seq(Cells) /\ Len(files[call.current.inode]) \in Nat
         /\ call.current.len \in Nat /\ call.current.inode \in Inodes
         /\ call.request.mode = "tail" => held = NoCursor
         /\ rewrites = 0 =>
              /\ SameGeneration(call.current, StampOf(call.current.inode))
              /\ call.from.stamp.len <= Len(files[call.current.inode])
              /\ InRecord(files[call.current.inode], call.from)
<1>1. call \in OpenedCalls \/ call \in ReadCalls
  BY CallShapes DEF Serving
<1>2. /\ call.from \in Cursors /\ call.current \in Stamps
      /\ call.request \in Requests
  BY <1>1 DEF OpenedCalls, ReadCalls
<1>3. LookHolds /\ Ordered(call.from)
  BY DEF Serving, LookHolds, CursorHolds
<1>4. call.current.inode \in Inodes /\ call.current.len \in 0..MaxLength
  BY <1>2 DEF Stamps
<1>5. call.current.len \in Nat
  BY <1>4, PagingAssumption
<1>6. files[call.current.inode] \in Seq(Cells) /\ Len(files[call.current.inode]) \in Nat
  BY <1>4, StampOfNow DEF Rest
<1>7. rewrites = 0 =>
        /\ SameGeneration(call.current, StampOf(call.current.inode))
        /\ call.from.stamp.len <= Len(files[call.current.inode])
        /\ InRecord(files[call.current.inode], call.from)
  <2> SUFFICES ASSUME rewrites = 0
               PROVE  /\ SameGeneration(call.current, StampOf(call.current.inode))
                      /\ call.from.stamp.len <= Len(files[call.current.inode])
                      /\ InRecord(files[call.current.inode], call.from)
    OBVIOUS
  <2>1. call.current.inode = live /\ SameGeneration(call.current, StampOf(live))
    BY <1>3 DEF LookHolds, StampHolds
  <2>2. call.from.stamp.inode = live /\ SameGeneration(call.from.stamp, StampOf(live))
    BY <1>3 DEF LookHolds, CursorHolds, StampHolds
  <2>3. call.from.stamp.len <= Len(files[live])
    BY <2>2 DEF SameGeneration, StampOf
  <2>4. cut[live] = 0
    BY <1>4, <2>1 DEF Rest, CutsHold
  <2>5. InRecord(files[live], call.from)
    BY <1>3, <2>2, <2>4 DEF LookHolds, CursorHolds, Intact, Content
  <2> QED BY <2>1, <2>3, <2>5
<1>8. call.request.mode = "tail" => held = NoCursor
  BY DEF Serving, RequestHolds
<1> QED BY <1>2, <1>3, <1>4, <1>5, <1>6, <1>7, <1>8

\* The steps that read have this in common: what is left to show of each is what
\* it read, and where it stopped.
LEMMA ReadHoldsNext ==
  ASSUME Serving, Rest, call.pc = "opened", HandlerLeaves,
         NEW turns \in Turns, NEW next \in Cursors, NEW complete \in BOOLEAN,
         NEW checkpoint \in Cursors \cup {NoCursor},
         call' = [pc |-> "read", request |-> call.request, from |-> call.from,
                  current |-> call.current, turns |-> turns,
                  next |-> next, complete |-> complete, checkpoint |-> checkpoint],
         ReadHolds'
  PROVE  Serving' /\ Rest'
<1>1. /\ UNCHANGED <<projection, rollout, host, rewrites>>
      /\ UNCHANGED <<files, mtime, live, cut, held, rewrites>>
  BY DEF HandlerLeaves, rollout, host
<1>2. Rest'
  BY <1>1, RestStays
<1>3. /\ LookHolds /\ call.from \in Cursors /\ call.current \in Stamps
      /\ call.request \in Requests /\ RequestHolds
  BY LookFacts DEF Serving
<1>4. /\ call'.pc = "read" /\ call'.request = call.request /\ call'.from = call.from
      /\ call'.current = call.current
  OBVIOUS
<1>5. CallTyped'
  <2>1. call' \in ReadCalls
    BY <1>3 DEF ReadCalls
  <2> QED BY <2>1 DEF CallTyped
<1>6. RequestHolds'
  BY <1>1, <1>3, <1>4 DEF RequestHolds
<1>7. LookHolds'
  BY <1>1, <1>3, <1>4
     DEF LookHolds, RightKind, GoesOn, Origin, CursorHolds, StampHolds, StampOf, Intact, Content
<1>8. OnlyRewritesGoStale' /\ ReplayIdentical'
  BY <1>4 DEF OnlyRewritesGoStale, ReplayIdentical, Answered
<1> QED BY <1>2, <1>4, <1>5, <1>6, <1>7, <1>8 DEF Serving, Answered

\* Where the next page starts is a cursor like the one the read began at, and
\* names the record it stopped in, if the file still is as it was.
LEMMA StopHoldsNext ==
  ASSUME Serving, Rest, call.pc = "opened", HandlerLeaves, NEW at \in Nat, NEW next, NEW cursor,
         call'.from = call.from, call'.next = next, next.start = at, Stop(call.from, at, cursor),
         Intact(call.from) => InRecord(Content(call.from), cursor)
  PROVE  /\ cursor = next => StopHolds(call.next)'
         /\ cursor = call'.checkpoint => StopHolds(call.checkpoint)'
<1>1. UNCHANGED <<files, mtime, live, cut, held, rewrites>>
  BY DEF HandlerLeaves, rollout, host
<1>2. cursor.stamp = call.from.stamp /\ cursor.sequence = call.from.sequence /\ cursor.start = at /\ Ordered(cursor)
  BY DEF Stop
<1>3. StampHolds(cursor.stamp)
  BY <1>2 DEF Serving, LookHolds, CursorHolds
<1>4. cut[cursor.stamp.inode] = 0 => InRecord(files[cursor.stamp.inode], cursor)
  BY <1>2 DEF Intact, Content
<1> QED BY <1>1, <1>2, <1>3, <1>4
        DEF StopHolds, CursorHolds, StampHolds, StampOf, Intact, Content

LEMMA ReadTailHolds ==
  ASSUME Serving, Rest, ReadTail
  PROVE  Serving' /\ Rest'
<1> DEFINE r == call.request
           c == call.from
           len == call.current.len
           now == files[call.current.inode]
           found == Boundaries(r, len, now)
<1>1. call.pc = "opened" /\ r.mode = "tail" /\ HandlerLeaves
  BY DEF ReadTail
<1>2. /\ LookHolds /\ c \in Cursors /\ r \in Requests /\ Ordered(c) /\ held = NoCursor
      /\ now \in Seq(Cells) /\ Len(now) \in Nat /\ len \in Nat
      /\ (rewrites = 0 => SameGeneration(call.current, StampOf(call.current.inode)))
  BY <1>1, LookFacts
<1>3. "stale" \in Refusals /\ "no_boundary" \in Refusals
  BY DEF Refusals
<1>4. CASE Len(now) < len
  <2>1. Refuse("stale")
    BY <1>4 DEF ReadTail
  <2>2. rewrites > 0
    <3>1. rewrites \in Nat
      BY DEF Rest, RestTyped
    <3>2. rewrites # 0
      BY <1>2, <1>4 DEF SameGeneration, StampOf
    <3> QED BY <3>1, <3>2
  <2> QED BY <1>1, <1>3, <2>1, <2>2, RefusalHolds
<1>5. CASE ~(Len(now) < len) /\ found = {}
  <2>1. Refuse("no_boundary")
    BY <1>5 DEF ReadTail
  <2> QED BY <1>1, <1>3, <2>1, RefusalHolds
<1>6. CASE ~(Len(now) < len) /\ found # {}
  <2> DEFINE at == Max(found)
             next == Framed(c, at)
  <2>1. call' = [pc |-> "read", request |-> r, from |-> c, current |-> call.current,
                 turns |-> <<>>, next |-> next, complete |-> TRUE,
                 checkpoint |-> NoCursor]
    BY <1>6 DEF ReadTail
  <2>2. at \in found /\ \A i \in found : i <= at
    <3>1. found \subseteq 0..len
      BY DEF Boundaries, TailWindow
    <3> HIDE DEF found
    <3> QED BY <1>2, <1>6, <3>1, MaxIsGreatest
  <2>3. at \in 0..len /\ at + r.budgets.source > len /\ (at = 0 \/ now[at] \in Newlines)
    BY <2>2 DEF Boundaries, TailWindow
  <2>4. c.stamp = call.current /\ c.start = 0 /\ c.offset = 0 /\ Content(c) = now
    BY <1>1, <1>2 DEF LookHolds, Origin, Content
  <2> HIDE DEF at
  <2>5. at \in Nat /\ Stop(c, at, next) /\ next.start = at /\ next.offset = at
    <3>1. at \in Nat /\ at <= at /\ at <= c.stamp.len
      BY <1>2, <2>3, <2>4
    <3>2. next = At(c, at, at)
      BY DEF Framed
    <3> HIDE DEF next
    <3> QED BY <1>2, <3>1, <3>2, StopAt DEF Stop
  <2>6. InRecord(now, next)
    <3>1. \A i \in (at + 1)..at : FALSE
      BY <2>5
    <3> QED BY <2>3, <2>5, <3>1 DEF InRecord
  <2>7. Exhausted(now, next)
    <3>1. next.stamp.len = len
      BY <2>4, <2>5 DEF Stop
    <3>2. ASSUME NEW i \in (at + 1)..len PROVE now[i] = Byte
      <4>1. i \in 1..Len(now) /\ i \in 0..len /\ i # 0 /\ ~(i <= at)
        BY <1>2, <1>6, <2>3
      <4>2. r.budgets.source \in Nat
        <5>1. r.budgets \in Budgets
          BY <1>2 DEF Requests
        <5>2. r.budgets \in [source : Nat, turns : Nat \ {0}, response : Nat]
          BY <5>1, PagingAssumption
        <5> QED BY <5>2
      <4>3. i + r.budgets.source > len
        BY <1>2, <2>3, <2>5, <4>1, <4>2
      <4>4. now[i] \notin Newlines
        <5>1. i \notin found
          BY <2>2, <4>1
        <5> QED BY <4>1, <4>3, <5>1 DEF Boundaries, TailWindow
      <4>5. now[i] \in Cells
        BY <1>2, <4>1, ElementOfSeq
      <4> QED BY <4>4, <4>5 DEF Cells
    <3> QED BY <2>5, <3>1, <3>2 DEF Exhausted
  <2> HIDE DEF next
  <2>8. StopHolds(call.next)'
    BY <1>1, <2>1, <2>4, <2>5, <2>6, StopHoldsNext
  <2>9. <<>> \in Turns /\ next \in Cursors
    BY <2>5 DEF Turns, Stop
  <2>10. ReadHolds'
    <3>1. /\ call'.from = c /\ call'.next = next /\ call'.request = r /\ call'.checkpoint = NoCursor
          /\ call'.turns = <<>> /\ call'.complete = TRUE
      BY <2>1
    <3>2. call'.from.start <= call'.next.start
      BY <2>4, <2>5, <3>1
    <3>3. Exhausted(Content(call.from)', call'.next)
      <4>1. files' = files
        BY <1>1 DEF HandlerLeaves, rollout
      <4> QED BY <2>4, <2>7, <3>1, <4>1 DEF Content
    <3> QED BY <1>1, <2>5, <2>8, <3>1, <3>2, <3>3 DEF ReadHolds
  <2> QED BY <1>1, <2>1, <2>9, <2>10, ReadHoldsNext
<1> QED BY <1>4, <1>5, <1>6

LEMMA ReadForwardHolds ==
  ASSUME Serving, Rest, ReadForward
  PROVE  Serving' /\ Rest'
<1> DEFINE r == call.request
           c == call.from
           now == files[call.current.inode]
           bytes == Bytes(c, now)
           page == Scan(c, bytes)
           next == Reached(c, page, bytes)
           found == ReadOf(c, now)
           at == c.start + page.consumed
<1>1. call.pc = "opened" /\ r.mode # "tail" /\ HandlerLeaves
  BY DEF ReadForward
<1>2. /\ LookHolds /\ c \in Cursors /\ r \in Requests /\ Ordered(c)
      /\ now \in Seq(Cells) /\ Len(now) \in Nat
      /\ (rewrites = 0 => c.stamp.len <= Len(now) /\ InRecord(now, c))
  BY <1>1, LookFacts
<1>3. Refusals = {"stale", "no_boundary", "malformed", "no_room", "record_limit", "no_progress"}
  BY DEF Refusals
<1>4. /\ found.turns = page.turns /\ found.next = next /\ found.complete = Complete(c, next)
      /\ found.checkpoint = IF Unframed(page, bytes) /\ page.consumed > 0
                            THEN Checkpoint(c, page) ELSE NoCursor
  BY DEF ReadOf
<1>5. \/ NoLongerHolds(c, now) /\ Refuse("stale")
      \/ \E why \in {"malformed", "no_room", "record_limit", "no_progress"} : Refuse(why)
      \/ call' = [pc |-> "read", request |-> r, from |-> c, current |-> call.current,
                  turns |-> found.turns, next |-> found.next,
                  complete |-> found.complete, checkpoint |-> found.checkpoint]
  BY <1>4 DEF ReadForward
<1>6. CASE NoLongerHolds(c, now) /\ Refuse("stale")
  <2>1. c.offset + NativeLimit(c) \in Int /\ c.offset + NativeLimit(c) <= c.stamp.len /\ c.stamp.len \in Nat
    BY <1>2, WindowWithin
  <2>2. rewrites \in Nat /\ rewrites # 0
    BY <1>2, <1>6, <2>1 DEF NoLongerHolds, InRecord, Rest, RestTyped
  <2>3. rewrites > 0
    BY <2>2
  <2> QED BY <1>1, <1>3, <1>6, <2>3, RefusalHolds
<1>7. ASSUME NEW why \in {"malformed", "no_room", "record_limit", "no_progress"}, Refuse(why)
      PROVE  Serving' /\ Rest'
  <2>1. why \in Refusals /\ why # "stale"
    BY <1>3
  <2> QED BY <1>1, <1>7, <2>1, RefusalHolds
<1>8. CASE call' = [pc |-> "read", request |-> r, from |-> c, current |-> call.current,
                    turns |-> found.turns, next |-> found.next,
                    complete |-> found.complete, checkpoint |-> found.checkpoint]
  <2>1. /\ found.turns \in Turns /\ found.complete \in BOOLEAN
        /\ Stop(c, at, found.next) /\ at \in Nat /\ c.start <= at
        /\ found.checkpoint \in Cursors \cup {NoCursor}
        /\ found.checkpoint # NoCursor => Stop(c, at, found.checkpoint)
    BY <1>2, ReadOfStops
  <2>2. Content(c) = now
    BY <1>2 DEF LookHolds, Content
  <2>3. Intact(c) =>
          /\ Lists(Received(found), now, c.start, found.next.start)
          /\ InRecord(now, found.next)
          /\ found.checkpoint # NoCursor => InRecord(now, found.checkpoint)
          /\ found.complete => Exhausted(now, found.next)
    <3>1. Intact(c) => InRecord(now, c) /\ c.stamp.len <= Len(now)
      BY <1>2, <2>2 DEF LookHolds, CursorHolds, StampHolds, Intact, Content
    <3> QED BY <1>2, <3>1, ReadOfFinds
  <2> HIDE DEF at, found, bytes, page, next
  <2>4. found.next \in Cursors /\ found.next.start = at
    BY <2>1 DEF Stop
  <2>5. /\ call'.from = c /\ call'.next = found.next /\ call'.request = r
        /\ call'.checkpoint = found.checkpoint /\ call'.turns = found.turns
        /\ call'.complete = found.complete
    BY <1>8
  <2>6. StopHolds(call.next)'
    BY <1>1, <2>1, <2>2, <2>3, <2>4, <2>5, StopHoldsNext
  <2>7. found.checkpoint # NoCursor => StopHolds(call.checkpoint)'
    BY <1>1, <2>1, <2>2, <2>3, <2>4, <2>5, StopHoldsNext
  <2>8. ReadHolds'
    <3>1. files' = files /\ cut' = cut
      BY <1>1 DEF HandlerLeaves, rollout
    <3>4. call'.from.start <= call'.next.start
      BY <2>1, <2>4, <2>5
    <3>5. Content(call.from)' = now /\ (Intact(call.from)' <=> Intact(c))
      BY <2>2, <2>5, <3>1 DEF Content, Intact
    <3>6. Received(call)' = Received(found)
      BY <2>5 DEF Received
    <3>7. Intact(call.from)' =>
            /\ Lists(Received(call)', Content(call.from)', call'.from.start, call'.next.start)
            /\ call'.complete => Exhausted(Content(call.from)', call'.next)
      BY <2>3, <2>5, <3>5, <3>6
    <3>8. ReadOf(call.from, Content(call.from))' = found
      <4>1. ReadOf(call.from, Content(call.from))' = ReadOf(c, now)
        BY <2>5, <3>5 DEF ReadOf
      <4> QED BY <4>1 DEF found
    <3> QED BY <1>1, <2>5, <2>6, <2>7, <3>4, <3>7, <3>8 DEF ReadHolds
  <2> QED BY <1>1, <1>8, <2>1, <2>4, <2>8, ReadHoldsNext
<1> QED BY <1>5, <1>6, <1>7, <1>8

LEMMA FinishHolds ==
  ASSUME Serving, Rest, Finish
  PROVE  Serving' /\ Rest'
<1> DEFINE r == call.request
           c == call.from
           answer == Answer(call)
<1>1. call.pc = "read" /\ HandlerLeaves
  BY DEF Finish
<1>2. /\ UNCHANGED <<projection, rollout, host, rewrites>>
      /\ UNCHANGED <<files, mtime, live, cut, held, memo, rewrites>>
  BY <1>1 DEF HandlerLeaves, rollout, host
<1>3. Rest'
  BY <1>2, RestStays
<1>4. /\ LookHolds /\ c \in Cursors /\ r \in Requests /\ Ordered(c)
      /\ call.current.len \in Nat /\ Len(files[call.current.inode]) \in Nat
      /\ (r.mode = "tail" => held = NoCursor)
      /\ (rewrites = 0 => SameGeneration(call.current, StampOf(call.current.inode)))
  BY <1>1, LookFacts
<1>5. /\ call \in ReadCalls /\ ReadHolds /\ RequestHolds
      /\ call.turns \in Turns /\ call.next \in Cursors /\ call.complete \in BOOLEAN
      /\ call.checkpoint \in Cursors \cup {NoCursor}
  <2>1. call \in ReadCalls
    BY <1>1, CallShapes DEF Serving
  <2> QED BY <1>1, <2>1 DEF ReadCalls, Serving
<1>6. CASE ~Unchanged
  <2>1. Refuse("stale")
    BY <1>6 DEF Finish
  <2>2. rewrites \in Nat /\ rewrites # 0
    BY <1>4, <1>6 DEF Unchanged, Rest, RestTyped
  <2>3. rewrites > 0 /\ "stale" \in Refusals
    BY <2>2 DEF Refusals
  <2> QED BY <1>1, <2>1, <2>3, RefusalHolds
<1>7. CASE Unchanged
  <2>1. /\ call' = [pc |-> "answered", request |-> r, answer |-> answer]
        /\ call'.pc = "answered" /\ call'.request = r /\ call'.answer = answer
    BY <1>7 DEF Finish
  <2>2. RequestHolds'
    BY <1>2, <1>5, <2>1 DEF RequestHolds
  <2>3. CASE answer.status # "page"
    <3>1. answer = [status |-> "no_room"]
      BY <2>3 DEF Answer, Page
    <3>2. answer \in Answers /\ answer.status = "no_room"
      BY <3>1 DEF Answers, Refusals
    <3>3. CallTyped'
      <4>1. call' \in AnsweredCalls
        BY <1>4, <2>1, <3>2 DEF AnsweredCalls
      <4> QED BY <4>1 DEF CallTyped
    <3>4. OnlyRewritesGoStale' /\ ReplayIdentical'
      BY <2>1, <3>2 DEF OnlyRewritesGoStale, ReplayIdentical, Answered
    <3> QED BY <1>3, <2>1, <2>2, <3>2, <3>3, <3>4 DEF Serving, Answered
  <2>4. CASE answer.status = "page"
    <3>1. PICK stop \in Cursors :
            /\ stop = call.next \/ stop = call.checkpoint
            /\ answer \in Pages /\ Received(answer) = Received(call)
            /\ Len(answer.turns) = Len(call.turns) /\ (call.turns = <<>> => answer.turns = <<>>)
            /\ answer.cursor.sequence = stop.sequence + Len(call.turns)
            /\ answer.cursor.kind \in {"page", "resume"}
            /\ answer.cursor.kind = "resume" => call.complete /\ stop = call.next
            /\ answer.cursor.stamp = stop.stamp /\ answer.cursor.offset = stop.offset
            /\ answer.cursor.start = stop.start
      BY <1>5, <2>4, AnswerHolds
    <3> DEFINE cursor == answer.cursor
    <3>2. stop # NoCursor
      BY NoCursorIsNone
    <3>3. StopHolds(stop)
      BY <1>5, <3>1, <3>2 DEF ReadHolds
    <3>4. /\ cursor.stamp = c.stamp /\ cursor.start = call.next.start /\ CursorHolds(cursor)
          /\ cursor.sequence = c.sequence + Len(call.turns)
      BY <3>1, <3>3 DEF StopHolds, CursorHolds, Ordered, Intact, Content, InRecord
    <3>6. (Intact(cursor) <=> Intact(c)) /\ Content(cursor) = Content(c)
      BY <3>4 DEF Intact, Content
    <3>7. /\ c.start = Origin /\ Origin <= cursor.start /\ RightKind(r.mode) /\ GoesOn(cursor)
      BY <1>4, <1>5, <3>4 DEF LookHolds, ReadHolds, GoesOn
    <3>8. Intact(c) /\ cursor.kind = "resume" => Exhausted(Content(cursor), cursor)
      BY <1>5, <3>1, <3>4, <3>6 DEF ReadHolds, Exhausted
    <3>9. Len(answer.turns) \in Nat
      BY <3>1, LenProperties DEF Pages, Turns
    <3>10. cursor.sequence = Len(answer.turns) + (IF r.mode = "continuation" THEN held.sequence ELSE 0)
      <4>1. c.sequence = IF r.mode = "continuation" THEN held.sequence ELSE 0
        BY <1>4 DEF LookHolds
      <4>2. c.sequence \in Nat
        BY <1>4, CursorFacts
      <4> QED BY <3>1, <3>4, <3>9, <4>1, <4>2
    <3>11. r.mode = "tail" => answer.turns = <<>> /\ cursor.start = cursor.offset
      BY <1>5, <3>1, <3>2 DEF ReadHolds
    <3>12. Intact(c) /\ r.mode # "tail" => Lists(Received(answer), Content(cursor), Origin, cursor.start)
      BY <1>5, <3>1, <3>4, <3>6, <3>7 DEF ReadHolds
    <3>13. r.mode = "continuation" => c = held /\ Replays(answer)
      <4> SUFFICES ASSUME r.mode = "continuation", Intact(held)
                   PROVE  answer = Answer(ReadOf(held, Content(held)))
        BY <1>4 DEF LookHolds, Replays
      <4> DEFINE found == ReadOf(c, Content(c))
      <4>1. c = held
        BY <1>4 DEF LookHolds
      <4>2. call.turns = found.turns /\ call.next = found.next /\ call.complete = found.complete
            /\ call.checkpoint = found.checkpoint
        BY <1>5, <4>1 DEF ReadHolds
      <4> HIDE DEF found
      <4>3. answer = Answer(found)
        BY <4>2 DEF Answer
      <4> QED BY <3>6, <4>1, <4>3 DEF found
    <3>14. PageHolds'
      <4>1. /\ UNCHANGED <<files, cut, held>> /\ Origin' = Origin /\ Content(held)' = Content(held)
        BY <1>2 DEF Origin, Content
      <4>2. RightKind(call.request.mode)' /\ GoesOn(call.answer.cursor)'
        BY <1>2, <2>1, <3>7 DEF RightKind, GoesOn
      <4>3. CursorHolds(call.answer.cursor)'
        BY <1>2, <2>1, <3>4 DEF CursorHolds, StampHolds, StampOf, Intact, Content
      <4>4. Content(call.answer.cursor)' = Content(cursor) /\ (Intact(call.answer.cursor)' <=> Intact(c))
        BY <1>2, <2>1, <3>6 DEF Intact, Content
      <4>5. call'.request.mode = "continuation" => Replays(call.answer)'
        BY <2>1, <3>13, <4>1 DEF Replays, Intact
      <4>6. Received(call.answer)' = Received(answer)
        BY <2>1 DEF Received
      <4> QED BY <2>1, <3>7, <3>8, <3>10, <3>11, <3>12, <4>1, <4>2, <4>3, <4>4, <4>5, <4>6
              DEF PageHolds
    <3>15. CallTyped'
      <4>1. answer \in Answers
        BY <3>1 DEF Answers
      <4>2. call' \in AnsweredCalls
        BY <1>4, <2>1, <4>1 DEF AnsweredCalls
      <4> QED BY <4>2 DEF CallTyped
    <3>16. OnlyRewritesGoStale'
      BY <2>1, <2>4 DEF OnlyRewritesGoStale, Answered
    <3>17. ReplayIdentical'
      <4> SUFFICES ASSUME memo # NoCursor, memo.answer.status = "page", r.token = memo.token,
                          Intact(memo.token)
                   PROVE  answer = memo.answer
        BY <1>2, <2>1 DEF ReplayIdentical, Intact
      <4>1. held # NoCursor /\ held.kind = "page" /\ Replays(memo.answer) /\ Intact(held)
        BY DEF Rest, MemoHolds
      <4>2. r.mode = "continuation"
        BY <3>7, <4>1 DEF RightKind
      <4> QED BY <3>13, <4>1, <4>2 DEF Replays
    <3> QED BY <1>3, <2>1, <2>2, <3>14, <3>15, <3>16, <3>17 DEF Serving
  <2> QED BY <2>3, <2>4
<1> QED BY <1>6, <1>7

-----------------------------------------------------------------------------
(* The host's steps                                                        *)

\* Whatever the host asks, in whichever mode, it asks it of the cursor it holds.
LEMMA SendHolds ==
  ASSUME Serving, Rest, NEW r \in Requests, Send(r), r.token = held,
         r.mode = "tail" => held = NoCursor, r.mode = "continuation" => held # NoCursor
  PROVE  Serving' /\ Rest'
<1>1. /\ UNCHANGED <<projection, rollout, host, rewrites>> /\ held' = held
      /\ call' = [pc |-> "asked", request |-> r]
  BY DEF Send, host
<1>2. Rest'
  BY <1>1, RestStays
<1>3. call'.pc = "asked" /\ call'.request = r
  BY <1>1
<1>4. CallTyped'
  <2>1. call' \in AskedCalls
    BY <1>1 DEF AskedCalls
  <2> QED BY <2>1 DEF CallTyped
<1>5. RequestHolds'
  BY <1>1, <1>3 DEF RequestHolds
<1>6. OnlyRewritesGoStale' /\ ReplayIdentical'
  BY <1>3 DEF OnlyRewritesGoStale, ReplayIdentical, Answered
<1> QED BY <1>2, <1>3, <1>4, <1>5, <1>6 DEF Serving, Answered

LEMMA RequestTyped ==
  ASSUME NEW mode \in {"beginning", "tail", "continuation"}, NEW cursor \in Cursors \cup {NoCursor},
         NEW budgets \in Budgets
  PROVE  /\ Request(mode, cursor, budgets) \in Requests
         /\ Request(mode, cursor, budgets).token = cursor /\ Request(mode, cursor, budgets).mode = mode
BY DEF Request, Requests

LEMMA AskHolds ==
  ASSUME Serving, Rest,
         (\E b \in Budgets : Begin(b) \/ BeginAtTail(b) \/ Resume(b)) \/ Continue \/ Misuse
  PROVE  Serving' /\ Rest'
<1>1. held \in Cursors \cup {NoCursor} /\ (held # NoCursor => held \in Cursors /\ held.budgets \in Budgets)
  BY CursorFacts DEF Rest, RestTyped
<1>2. ASSUME NEW mode \in {"beginning", "continuation"}, NEW budgets \in Budgets,
             mode = "continuation" => held # NoCursor, Send(Request(mode, held, budgets))
      PROVE  Serving' /\ Rest'
  <2> DEFINE r == Request(mode, held, budgets)
  <2>1. r \in Requests /\ r.token = held /\ r.mode = mode
    BY <1>1, RequestTyped
  <2>2. Send(r)
    BY <1>2
  <2> HIDE DEF r
  <2> QED BY <1>2, <2>1, <2>2, SendHolds
<1>3. ASSUME NEW b \in Budgets, Begin(b) PROVE Serving' /\ Rest'
  BY <1>2, <1>3 DEF Begin
<1>4. ASSUME NEW b \in Budgets, BeginAtTail(b) PROVE Serving' /\ Rest'
  <2> DEFINE r == Request("tail", NoCursor, b)
  <2>1. r \in Requests /\ r.token = NoCursor /\ r.mode = "tail"
    BY RequestTyped
  <2>2. Send(r) /\ held = NoCursor
    BY <1>4 DEF BeginAtTail
  <2> HIDE DEF r
  <2> QED BY <2>1, <2>2, SendHolds
<1>5. ASSUME NEW b \in Budgets, Resume(b) PROVE Serving' /\ Rest'
  BY <1>2, <1>5 DEF Resume
<1>6. ASSUME Continue PROVE Serving' /\ Rest'
  BY <1>1, <1>2, <1>6 DEF Continue
<1>7. ASSUME Misuse PROVE Serving' /\ Rest'
  <2> DEFINE right == IF held.kind = "page" THEN "continuation" ELSE "beginning"
             wrong == IF held.kind = "page" THEN "beginning" ELSE "continuation"
             stray == [Request(right, held, held.budgets) EXCEPT !.bound = FALSE]
  <2>1. held # NoCursor /\ right \in {"beginning", "continuation"} /\ wrong \in {"beginning", "continuation"}
    BY <1>7 DEF Misuse
  <2>2. \/ Send(Request(wrong, held, held.budgets))
        \/ \E b \in Budgets : Send(Request(right, held, b))
        \/ Send(stray)
    BY <1>7 DEF Misuse
  <2> HIDE DEF right, wrong
  <2>3. CASE Send(stray)
    <3>1. stray \in Requests /\ stray.token = held /\ stray.mode = right
      BY <1>1, <2>1 DEF Request, Requests
    <3> HIDE DEF stray
    <3> QED BY <2>1, <2>3, <3>1, SendHolds
  <2> QED BY <1>1, <1>2, <2>1, <2>2, <2>3
<1> QED BY <1>3, <1>4, <1>5, <1>6, <1>7

LEMMA AcceptHolds ==
  ASSUME Serving, Rest, Accept
  PROVE  Serving' /\ Rest'
<1> DEFINE mode == call.request.mode
           answer == call.answer
           c == answer.cursor
           now == Content(c)
           received == Received(answer)
<1>1. /\ call.pc = "answered" /\ answer.status = "page"
      /\ held' = c /\ inbox' = inbox \o received
      /\ anchor' = (IF mode = "tail" THEN c.offset ELSE anchor)
      /\ earlier' = (IF mode = "continuation" THEN earlier ELSE Len(inbox))
      /\ memo' = NoCursor /\ call' = [pc |-> "idle"]
      /\ UNCHANGED <<projection, files, mtime, live, cut, rewrites>>
  BY DEF Accept, Idle, rollout
<1>2. PageHolds /\ RequestHolds
  BY <1>1 DEF Serving, Answered
<1>3. answer \in Pages /\ c \in Cursors /\ answer.turns \in Turns
  <2>1. call \in AnsweredCalls
    BY <1>1, CallShapes DEF Serving
  <2>2. answer \in Answers
    BY <2>1 DEF AnsweredCalls
  <2>3. answer \in Pages
    BY <1>1, <2>2 DEF Answers, Refusals
  <2> QED BY <2>3 DEF Pages
<1>4. /\ received \in Seq(Nat) /\ Len(received) = Len(answer.turns) /\ Len(answer.turns) \in Nat
      /\ (answer.turns = <<>> => received = <<>>)
  <2>1. received \in Seq(Nat)
    <3>1. [answer EXCEPT !.turns = Append(answer.turns, [at |-> 0, inline |-> TRUE])].turns
            = Append(answer.turns, [at |-> 0, inline |-> TRUE])
      BY <1>3 DEF Pages
    <3> QED BY <1>3, <3>1, ReceivedAppend
  <2>2. DOMAIN answer.turns = 1..Len(answer.turns) /\ Len(answer.turns) \in Nat
    BY <1>3, LenProperties DEF Turns
  <2>3. received = [i \in 1..Len(answer.turns) |-> answer.turns[i].at]
    BY <2>2 DEF Received
  <2>4. Len(received) = Len(answer.turns)
    BY <2>2, <2>3
  <2>5. answer.turns = <<>> => received = <<>>
    BY <2>1, <2>4, EmptySeq
  <2> QED BY <2>1, <2>2, <2>4, <2>5
<1>5. /\ inbox \in Seq(Nat) /\ Len(inbox) \in Nat /\ anchor \in Nat /\ earlier \in Nat
      /\ held \in Cursors \cup {NoCursor} /\ HostHolds
  BY DEF Rest, RestTyped
<1>6. /\ c # NoCursor /\ c.start \in Nat /\ c.offset \in Nat /\ c.sequence \in Nat /\ c.stamp.len \in Nat
      /\ (held # NoCursor => held \in Cursors /\ held.start \in Nat /\ held.sequence \in Nat
                             /\ held.stamp.len \in Nat)
  BY <1>3, <1>5, CursorFacts
<1>7. /\ CursorHolds(c) /\ Origin <= c.start /\ GoesOn(c) /\ RightKind(mode)
      /\ (Intact(c) /\ c.kind = "resume" => Exhausted(now, c))
      /\ c.sequence = Len(answer.turns) + (IF mode = "continuation" THEN held.sequence ELSE 0)
      /\ (mode = "tail" => answer.turns = <<>> /\ c.start = c.offset)
      /\ (Intact(c) /\ mode # "tail" => Lists(received, now, Origin, c.start))
  BY <1>2 DEF PageHolds
<1>8. (mode = "tail" => held = NoCursor) /\ (mode = "continuation" => held # NoCursor)
  BY <1>2 DEF RequestHolds
<1>9. held = NoCursor => inbox = <<>> /\ anchor = 0 /\ earlier = 0 /\ Origin = 0
  BY <1>5 DEF HostHolds, Origin
<1>10. held # NoCursor =>
         /\ anchor <= held.start /\ held.sequence + earlier = Len(inbox) /\ Origin = held.start
         /\ (Intact(c) =>
               Lists(inbox, now, anchor, held.start) /\ Boundary(now, held.start))
  <2> SUFFICES ASSUME held # NoCursor
               PROVE  /\ anchor <= held.start /\ held.sequence + earlier = Len(inbox) /\ Origin = held.start
                      /\ (Intact(c) =>
                            Lists(inbox, now, anchor, held.start) /\ Boundary(now, held.start))
    OBVIOUS
  <2>1. anchor <= held.start /\ held.sequence + earlier = Len(inbox) /\ Origin = held.start /\ CursorHolds(held)
        /\ (Intact(held) => Lists(inbox, Content(held), anchor, held.start))
    BY <1>5 DEF HostHolds, Origin
  <2>2. held.stamp.inode = c.stamp.inode /\ held.stamp.len <= c.stamp.len
    BY <1>7 DEF GoesOn
  <2>3. Content(held) = now
    BY <2>2 DEF Content
  <2>5. Intact(c) => Intact(held)
    BY <2>2 DEF Intact
  <2>6. Intact(held) => Boundary(now, held.start)
    BY <2>1, <2>3 DEF CursorHolds, InRecord, Boundary
  <2> QED BY <2>1, <2>3, <2>5, <2>6
<1> HIDE DEF received, now, c, answer, mode
<1>11. inbox' \in Seq(Nat) /\ Len(inbox') = Len(inbox) + Len(received)
  BY <1>1, <1>4, <1>5, ConcatProperties
<1>12. anchor' \in Nat /\ earlier' \in Nat /\ anchor' <= c.start
  <2>1. CASE mode = "tail"
    BY <1>1, <1>5, <1>6, <1>7, <2>1
  <2>2. CASE mode # "tail" /\ held = NoCursor
    BY <1>1, <1>5, <1>6, <1>7, <1>9, <2>2
  <2>3. CASE mode # "tail" /\ held # NoCursor
    BY <1>1, <1>5, <1>6, <1>7, <1>10, <2>3
  <2> QED BY <2>1, <2>2, <2>3
<1>13. c.sequence + earlier' = Len(inbox')
  <2>1. CASE mode = "continuation"
    <3>1. /\ c.sequence = Len(answer.turns) + held.sequence /\ earlier' = earlier
          /\ held.sequence + earlier = Len(inbox) /\ held.sequence \in Nat
      BY <1>1, <1>6, <1>7, <1>8, <1>10, <2>1
    <3>2. Len(inbox') = Len(inbox) + Len(answer.turns)
      BY <1>4, <1>11
    <3> DEFINE n == Len(answer.turns)
               m == held.sequence
    <3>3. n \in Nat /\ m \in Nat /\ earlier \in Nat
      BY <1>4, <1>5, <3>1
    <3>4. c.sequence = n + m /\ earlier' = earlier /\ Len(inbox') = (m + earlier) + n
      BY <3>1, <3>2
    <3> HIDE DEF n, m
    <3> QED BY <3>3, <3>4
  <2>2. CASE mode # "continuation"
    BY <1>1, <1>4, <1>5, <1>6, <1>7, <1>11, <2>2
  <2> QED BY <2>1, <2>2
<1>14. Intact(c) => Lists(inbox', now, anchor', c.start)
  <2> SUFFICES ASSUME Intact(c) PROVE Lists(inbox', now, anchor', c.start)
    OBVIOUS
  <2>1. CASE mode = "tail"
    <3>1. inbox' = <<>> /\ anchor' = c.start
      BY <1>1, <1>4, <1>7, <1>8, <1>9, <2>1
    <3> QED BY <1>6, <3>1, NothingListed
  <2>2. CASE mode # "tail" /\ held = NoCursor
    <3>1. inbox' = received /\ anchor' = 0
      BY <1>1, <1>4, <1>9, <2>2, ConcatEmptySeq
    <3> QED BY <1>7, <1>9, <2>2, <3>1
  <2>3. CASE mode # "tail" /\ held # NoCursor
    <3> DEFINE from == held.start
    <3>1. /\ Lists(inbox, now, anchor, from) /\ Lists(received, now, from, c.start)
          /\ Boundary(now, from) /\ from \in Nat /\ anchor <= from /\ from <= c.start
      BY <1>6, <1>7, <1>10, <2>3
    <3>2. inbox' = inbox \o received /\ anchor' = anchor
      BY <1>1, <2>3
    <3> HIDE DEF from
    <3>3. Lists(inbox \o received, now, anchor, c.start)
      BY <1>4, <1>5, <1>6, <3>1, ListsJoin
    <3> QED BY <3>2, <3>3
  <2> QED BY <2>1, <2>2, <2>3
<1>15. Content(held)' = now /\ held' # NoCursor /\ (Intact(held)' <=> Intact(c))
  BY <1>1, <1>6 DEF Content, Intact, now
<1>16. HostHolds'
  <2>1. CursorHolds(held)'
    BY <1>1, <1>7 DEF CursorHolds, StampHolds, StampOf, Intact, Content
  <2> QED BY <1>1, <1>7, <1>12, <1>13, <1>14, <1>15, <2>1 DEF HostHolds
<1>17. RestTyped' /\ MemoHolds'
  <2>1. RestTyped'
    BY <1>1, <1>3, <1>11, <1>12 DEF Rest, RestTyped
  <2>2. MemoHolds'
    BY <1>1 DEF MemoHolds
  <2> QED BY <2>1, <2>2
<1>18. Rest'
  <2>1. CutsHold'
    BY <1>1 DEF Rest, CutsHold
  <2> QED BY <1>16, <1>17, <2>1 DEF Rest
<1>19. Serving'
  BY <1>1 DEF Serving, CallTyped, OnlyRewritesGoStale, ReplayIdentical, Answered
<1> QED BY <1>18, <1>19

LEMMA RefusedHolds ==
  ASSUME Serving, Rest, Refused
  PROVE  Serving' /\ Rest'
<1>1. call' = [pc |-> "idle"] /\ UNCHANGED <<projection, files, mtime, live, cut, rewrites>>
      /\ UNCHANGED <<projection, rollout, rewrites>>
  BY DEF Refused, Idle, rollout
<1>2. Serving'
  BY <1>1 DEF Serving, CallTyped, OnlyRewritesGoStale, ReplayIdentical, Answered
<1>3. CASE StartsOver
  <2>1. held' = NoCursor /\ inbox' = <<>> /\ anchor' = 0 /\ earlier' = 0 /\ memo' = NoCursor
    BY <1>3 DEF Refused
  <2>2. RestTyped'
    <3>1. inbox' \in Seq(Nat) /\ anchor' \in Nat /\ earlier' \in Nat
      BY <2>1
    <3> QED BY <1>1, <2>1, <3>1 DEF Rest, RestTyped
  <2>3. HostHolds' /\ MemoHolds'
    BY <2>1 DEF HostHolds, MemoHolds
  <2>4. CutsHold'
    BY <1>1 DEF Rest, CutsHold
  <2> QED BY <1>2, <2>2, <2>3, <2>4 DEF Rest
<1>4. CASE ~StartsOver
  <2>1. UNCHANGED host
    BY <1>4 DEF Refused
  <2> QED BY <1>1, <1>2, <2>1, RestStays
<1> QED BY <1>3, <1>4

\* The answer that was lost to a continuation is the one a repetition will get.
LEMMA LoseHolds ==
  ASSUME Serving, Rest, Lose
  PROVE  Serving' /\ Rest'
<1> DEFINE r == call.request
<1>1. /\ call.pc = "answered" /\ call' = [pc |-> "idle"]
      /\ memo' = (IF r.mode = "continuation"
                  THEN [token |-> r.token, answer |-> call.answer] ELSE NoCursor)
      /\ UNCHANGED <<projection, files, mtime, live, cut, held, inbox, anchor, earlier, rewrites>>
  BY DEF Lose, Idle, rollout
<1>2. Serving'
  BY <1>1 DEF Serving, CallTyped, OnlyRewritesGoStale, ReplayIdentical, Answered
<1>3. call.answer \in Answers /\ RequestHolds
  <2>1. call \in AnsweredCalls
    BY <1>1, CallShapes DEF Serving
  <2> QED BY <1>1, <2>1 DEF AnsweredCalls, Serving
<1>4. r.mode = "continuation" => r.token = held /\ held # NoCursor /\ held \in Cursors
  BY <1>3 DEF RequestHolds, Rest, RestTyped
<1>5. RestTyped'
  <2>1. memo' \in [token : Cursors, answer : Answers] \cup {NoCursor}
    BY <1>1, <1>3, <1>4
  <2> QED BY <1>1, <2>1 DEF Rest, RestTyped
<1>6. MemoHolds'
  <2>1. CASE r.mode # "continuation"
    BY <1>1, <2>1 DEF MemoHolds
  <2>2. CASE r.mode = "continuation"
    <3>1. memo'.token = held /\ memo'.answer = call.answer
      BY <1>1, <1>4, <2>2
    <3>2. call.answer.status = "page" => held.kind = "page" /\ Replays(call.answer)
      BY <1>1, <2>2 DEF Serving, Answered, PageHolds, RightKind
    <3>3. memo'.answer.status = "page" => Replays(memo.answer)'
      BY <1>1, <3>1, <3>2 DEF Replays, Intact, Content
    <3> QED BY <1>1, <1>4, <2>2, <3>1, <3>2, <3>3 DEF MemoHolds
  <2> QED BY <2>1, <2>2
<1>7. HostHolds'
  <2>1. r.mode # "continuation" => memo' = NoCursor
    BY <1>1
  <2> QED BY <1>1, <1>4, <2>1
          DEF Rest, HostHolds, CursorHolds, StampHolds, StampOf, Intact, Content
<1>8. CutsHold'
  BY <1>1 DEF Rest, CutsHold
<1> QED BY <1>2, <1>5, <1>6, <1>7, <1>8 DEF Rest

-----------------------------------------------------------------------------
(* The writer's steps                                                      *)

\* A step of the environment changes at most one file, a file that was not cut
\* only at its end, and no step but appending leaves the count of rewrites at zero.
LEMMA EnvironmentHolds ==
  ASSUME RestTyped, Environment
  PROVE  /\ RestTyped'
         /\ UNCHANGED <<projection, call, held, inbox, anchor, earlier, memo>>
         /\ CutsHold => CutsHold'
         /\ rewrites' = 0 => rewrites = 0 /\ live' = live /\ Len(files'[live]) > Len(files[live])
         /\ \A i \in Inodes :
              /\ Len(files'[i]) \in Nat /\ files'[i] \in Seq(Cells)
              /\ cut'[i] = 0 =>
                   /\ cut[i] = 0 /\ Len(files'[i]) >= Len(files[i])
                   /\ \A k \in 1..Len(files[i]) : files'[i][k] = files[i][k]
<1>1. /\ live \in Inodes /\ rewrites \in Nat /\ cut \in [Inodes -> Nat] /\ mtime \in [Inodes -> Nat]
      /\ files \in [Inodes -> Seq(Cells)] /\ mtime[live] \in Nat
      /\ Len(files[1]) + Len(files[2]) <= MaxLength /\ MaxLength \in Nat
      /\ Len(files[1]) \in Nat /\ Len(files[2]) \in Nat
      /\ \A i \in Inodes : files[i] \in Seq(Cells) /\ Len(files[i]) \in Nat
  <2>1. files \in [Inodes -> Seq(Cells)] /\ 1 \in Inodes /\ 2 \in Inodes
    BY DEF RestTyped, Inodes
  <2>2. \A i \in Inodes : files[i] \in Seq(Cells) /\ Len(files[i]) \in Nat
    BY <2>1, LenProperties
  <2> QED BY <2>1, <2>2, PagingAssumption DEF RestTyped
<1>2. ASSUME NEW cell \in Cells, Grow(cell)
      PROVE  /\ RestTyped'
             /\ UNCHANGED <<projection, held, inbox, anchor, earlier, memo, call, live, cut, rewrites>>
             /\ \A i \in Inodes :
                  /\ Len(files'[i]) \in Nat /\ files'[i] \in Seq(Cells)
                  /\ Len(files'[i]) >= Len(files[i]) /\ mtime'[i] >= mtime[i]
                  /\ \A k \in 1..Len(files[i]) : files'[i][k] = files[i][k]
             /\ Len(files'[live]) > Len(files[live])
  <2> DEFINE longer == Append(files[live], cell)
  <2>1. /\ Len(files[1]) + Len(files[2]) < MaxLength
        /\ files' = [files EXCEPT ![live] = longer] /\ mtime' = [mtime EXCEPT ![live] = mtime[live] + 1]
        /\ UNCHANGED <<projection, held, inbox, anchor, earlier, memo, call, live, cut, rewrites>>
    BY <1>2 DEF Grow, host
  <2>2. /\ longer \in Seq(Cells) /\ Len(longer) = Len(files[live]) + 1
        /\ \A k \in 1..Len(files[live]) : longer[k] = files[live][k]
    BY <1>1, AppendProperties
  <2> HIDE DEF longer
  <2>3. files'[live] = longer /\ \A i \in Inodes \ {live} : files'[i] = files[i]
    BY <1>1, <2>1
  <2>4. ASSUME NEW i \in Inodes
        PROVE  /\ Len(files'[i]) \in Nat /\ files'[i] \in Seq(Cells)
               /\ Len(files'[i]) >= Len(files[i]) /\ mtime'[i] >= mtime[i]
               /\ \A k \in 1..Len(files[i]) : files'[i][k] = files[i][k]
    <3>1. CASE i = live
      BY <1>1, <2>1, <2>2, <2>3, <3>1
    <3>2. CASE i # live
      <4>1. files'[i] = files[i] /\ mtime'[i] = mtime[i] /\ mtime[i] \in Nat
        BY <1>1, <2>1, <2>3, <3>2
      <4> QED BY <1>1, <4>1
    <3> QED BY <3>1, <3>2
  <2>5. files' \in [Inodes -> Seq(Cells)]
    BY <1>1, <2>1, <2>2
  <2>6. mtime' \in [Inodes -> Nat]
    <3>1. mtime[live] + 1 \in Nat
      BY <1>1
    <3> QED BY <1>1, <2>1, <3>1
  <2>7. Len(files'[1]) + Len(files'[2]) <= MaxLength
    <3> DEFINE one == Len(files[1])
               two == Len(files[2])
               oneThen == Len(files'[1])
               twoThen == Len(files'[2])
    <3>1. \/ oneThen = one + 1 /\ twoThen = two
          \/ twoThen = two + 1 /\ oneThen = one
      <4>1. live = 1 \/ live = 2
        BY <1>1 DEF Inodes
      <4>2. CASE live = 1
        BY <2>2, <2>3, <4>2 DEF Inodes
      <4>3. CASE live = 2
        BY <2>2, <2>3, <4>3 DEF Inodes
      <4> QED BY <4>1, <4>2, <4>3
    <3>2. one \in Nat /\ two \in Nat /\ one + two < MaxLength /\ MaxLength \in Nat
      BY <1>1, <2>1
    <3> HIDE DEF one, two, oneThen, twoThen
    <3>3. oneThen + twoThen <= MaxLength
      BY <3>1, <3>2
    <3> QED BY <3>3 DEF oneThen, twoThen
  <2>8. RestTyped'
    BY <2>1, <2>5, <2>6, <2>7 DEF RestTyped
  <2>9. Len(files'[live]) > Len(files[live])
    BY <1>1, <2>2, <2>3
  <2> QED BY <2>1, <2>4, <2>8, <2>9
<1>3. ASSUME Rewrite
      PROVE  /\ rewrites' = rewrites + 1 /\ rewrites' \in Nat /\ rewrites' # 0
             /\ UNCHANGED <<projection, call, held, inbox, anchor, earlier, memo>>
  BY <1>1, <1>3 DEF Rewrite, host
<1>4. ASSUME mtime' = [mtime EXCEPT ![live] = mtime[live] + 1]
      PROVE  /\ mtime' \in [Inodes -> Nat] /\ mtime'[live] = mtime[live] + 1
             /\ \A i \in Inodes : mtime'[i] >= mtime[i]
  <2>1. mtime[live] + 1 \in Nat /\ mtime' \in [Inodes -> Nat] /\ mtime'[live] = mtime[live] + 1
    BY <1>1, <1>4
  <2>2. \A i \in Inodes \ {live} : mtime'[i] = mtime[i] /\ mtime[i] \in Nat
    BY <1>1, <1>4
  <2> QED BY <1>1, <2>1, <2>2
<1>5. ASSUME Replace \/ Touch
      PROVE  /\ RestTyped' /\ UNCHANGED <<files, cut>> /\ Rewrite
             /\ \A i \in Inodes : mtime'[i] >= mtime[i]
  <2>1. CASE Replace
    <3>1. live' \in Inodes /\ UNCHANGED <<files, mtime, cut>> /\ Rewrite
      BY <2>1 DEF Replace, Inodes
    <3>2. \A i \in Inodes : mtime'[i] = mtime[i] /\ mtime[i] \in Nat
      BY <1>1, <3>1
    <3>3. RestTyped'
      BY <1>3, <3>1 DEF RestTyped
    <3> QED BY <3>1, <3>2, <3>3
  <2>2. CASE Touch
    <3>1. /\ UNCHANGED <<files, live, cut>> /\ Rewrite
          /\ mtime' = [mtime EXCEPT ![live] = mtime[live] + 1]
      BY <2>2 DEF Touch
    <3> QED BY <1>3, <1>4, <3>1 DEF RestTyped
  <2> QED BY <1>5, <2>1, <2>2
<1>6. ASSUME Truncate
      PROVE  /\ RestTyped' /\ Rewrite
             /\ \A i \in Inodes :
                  /\ Len(files'[i]) \in Nat /\ files'[i] \in Seq(Cells)
                  /\ cut'[i] = 0 => i # live
                  /\ i # live => cut'[i] = cut[i] /\ files'[i] = files[i]
                  /\ mtime'[i] >= mtime[i]
             /\ cut'[live] = mtime'[live]
  <2>1. PICK n \in 0..(Len(files[live]) - 1) :
          files' = [files EXCEPT ![live] = SubSeq(files[live], 1, n)]
    BY <1>6 DEF Truncate
  <2> DEFINE shorter == SubSeq(files[live], 1, n)
  <2>2. n \in Nat /\ n < Len(files[live])
    BY <1>1
  <2>3. shorter \in Seq(Cells) /\ Len(shorter) = n
    <3>1. \A k \in 1..n : files[live][k] \in Cells
      BY <1>1, <2>2
    <3> QED BY <1>1, <2>2, <3>1
  <2>4. files'[live] = shorter /\ \A i \in Inodes \ {live} : files'[i] = files[i]
    BY <1>1, <2>1
  <2>5. files' \in [Inodes -> Seq(Cells)]
    BY <1>1, <2>1, <2>3
  <2> HIDE DEF shorter
  <2>6. /\ Rewrite /\ live' = live /\ cut' = [cut EXCEPT ![live] = mtime[live] + 1]
        /\ mtime' = [mtime EXCEPT ![live] = mtime[live] + 1]
    BY <1>6 DEF Truncate
  <2>7. /\ cut' \in [Inodes -> Nat] /\ cut'[live] = mtime[live] + 1 /\ cut'[live] # 0
        /\ \A i \in Inodes \ {live} : cut'[i] = cut[i]
    BY <1>1, <2>6
  <2>8. ASSUME NEW i \in Inodes
        PROVE  /\ Len(files'[i]) \in Nat /\ files'[i] \in Seq(Cells) /\ Len(files'[i]) <= Len(files[i])
               /\ cut'[i] = 0 => i # live
               /\ i # live => cut'[i] = cut[i] /\ files'[i] = files[i]
    <3>1. CASE i = live
      BY <1>1, <2>2, <2>3, <2>4, <2>7, <3>1
    <3>2. CASE i # live
      BY <1>1, <2>4, <2>7, <3>2
    <3> QED BY <3>1, <3>2
  <2>9. Len(files'[1]) + Len(files'[2]) <= MaxLength
    <3> DEFINE one == Len(files[1])
               two == Len(files[2])
               oneThen == Len(files'[1])
               twoThen == Len(files'[2])
    <3>1. oneThen \in Nat /\ twoThen \in Nat /\ oneThen <= one /\ twoThen <= two
      BY <2>8 DEF Inodes
    <3>2. one \in Nat /\ two \in Nat /\ one + two <= MaxLength /\ MaxLength \in Nat
      BY <1>1
    <3> HIDE DEF one, two, oneThen, twoThen
    <3>3. oneThen + twoThen <= MaxLength
      BY <3>1, <3>2
    <3> QED BY <3>3 DEF oneThen, twoThen
  <2>10. RestTyped'
    BY <1>1, <1>3, <1>4, <2>5, <2>6, <2>7, <2>9 DEF RestTyped
  <2> QED BY <1>4, <2>6, <2>7, <2>8, <2>10
<1>7. CASE \E cell \in Cells : Grow(cell)
  <2>1. PICK cell \in Cells : Grow(cell)
    BY <1>7
  <2>2. /\ RestTyped' /\ Len(files'[live]) > Len(files[live])
        /\ UNCHANGED <<projection, held, inbox, anchor, earlier, memo, call, live, cut, rewrites>>
        /\ \A i \in Inodes :
             /\ Len(files'[i]) \in Nat /\ files'[i] \in Seq(Cells)
             /\ Len(files'[i]) >= Len(files[i]) /\ mtime'[i] >= mtime[i]
             /\ \A k \in 1..Len(files[i]) : files'[i][k] = files[i][k]
    BY <1>2, <2>1
  <2>3. CutsHold => CutsHold'
    <3> SUFFICES ASSUME CutsHold, NEW i \in Inodes
                 PROVE  cut'[i] <= mtime'[i] /\ (rewrites' = 0 => cut'[i] = 0)
      BY DEF CutsHold
    <3>1. cut[i] <= mtime[i] /\ (rewrites = 0 => cut[i] = 0) /\ mtime'[i] >= mtime[i]
      BY <2>2 DEF CutsHold
    <3>2. cut[i] \in Nat /\ mtime[i] \in Nat /\ mtime'[i] \in Nat
      BY <2>2 DEF RestTyped
    <3> QED BY <2>2, <3>1, <3>2
  <2> QED BY <2>2, <2>3
<1>8. CASE Replace \/ Touch
  <2>1. /\ Rewrite /\ RestTyped' /\ UNCHANGED <<files, cut>>
        /\ \A i \in Inodes : mtime'[i] >= mtime[i]
    BY <1>5, <1>8
  <2>2. \A i \in Inodes : files'[i] = files[i] /\ Len(files'[i]) >= Len(files[i])
    BY <1>1, <2>1
  <2>3. CutsHold => CutsHold'
    <3> SUFFICES ASSUME CutsHold, NEW i \in Inodes PROVE cut'[i] <= mtime'[i]
      BY <1>3, <2>1 DEF CutsHold
    <3>1. cut[i] <= mtime[i] /\ cut'[i] = cut[i] /\ mtime'[i] >= mtime[i]
      BY <2>1 DEF CutsHold
    <3>2. cut[i] \in Nat /\ mtime[i] \in Nat /\ mtime'[i] \in Nat
      BY <1>1, <2>1 DEF RestTyped
    <3> QED BY <3>1, <3>2
  <2> QED BY <1>1, <1>3, <2>1, <2>2, <2>3
<1>9. CASE Truncate
  <2>1. /\ RestTyped' /\ Rewrite /\ cut'[live] = mtime'[live]
        /\ \A i \in Inodes :
             /\ Len(files'[i]) \in Nat /\ files'[i] \in Seq(Cells)
             /\ cut'[i] = 0 => i # live
             /\ i # live => cut'[i] = cut[i] /\ files'[i] = files[i]
             /\ mtime'[i] >= mtime[i]
    BY <1>6, <1>9
  <2>2. CutsHold => CutsHold'
    <3> SUFFICES ASSUME CutsHold, NEW i \in Inodes PROVE cut'[i] <= mtime'[i]
      BY <1>3, <2>1 DEF CutsHold
    <3>1. cut[i] <= mtime[i] /\ mtime'[i] >= mtime[i]
      BY <2>1 DEF CutsHold
    <3>2. cut[i] \in Nat /\ mtime[i] \in Nat /\ mtime'[i] \in Nat
      BY <1>1, <2>1 DEF RestTyped
    <3>3. CASE i = live
      BY <2>1, <3>2, <3>3
    <3>4. CASE i # live
      BY <2>1, <3>1, <3>2, <3>4
    <3> QED BY <3>3, <3>4
  <2>3. ASSUME NEW i \in Inodes, cut'[i] = 0
        PROVE  /\ cut[i] = 0 /\ Len(files'[i]) >= Len(files[i])
               /\ \A k \in 1..Len(files[i]) : files'[i][k] = files[i][k]
    <3>1. files'[i] = files[i] /\ cut[i] = 0
      BY <2>1, <2>3
    <3> QED BY <1>1, <3>1
  <2> QED BY <1>3, <2>1, <2>2, <2>3
<1> QED BY <1>7, <1>8, <1>9 DEF Environment

LEMMA StampKept ==
  ASSUME RestTyped, Environment, NEW s \in Stamps, StampHolds(s)
  PROVE  /\ rewrites' = 0 => s.inode = live' /\ SameGeneration(s, StampOf(live)')
         /\ cut'[s.inode] = 0 =>
              /\ cut[s.inode] = 0 /\ s.len <= Len(files[s.inode]) /\ s.len <= Len(files'[s.inode])
              /\ \A k \in 1..s.len : files'[s.inode][k] = files[s.inode][k]
<1> DEFINE i == s.inode
           old == files[i]
           now == files'[i]
<1>1. i \in Inodes /\ s.len \in Nat /\ Len(old) \in Nat /\ old \in Seq(Cells)
  <2>1. i \in Inodes /\ s.len \in 0..MaxLength
    BY DEF Stamps
  <2> QED BY <2>1, StampOfNow, PagingAssumption
<1>2. /\ Len(now) \in Nat
      /\ cut'[i] = 0 =>
           cut[i] = 0 /\ Len(now) >= Len(old) /\ \A k \in 1..Len(old) : now[k] = old[k]
  BY <1>1, EnvironmentHolds
<1>3. rewrites' = 0 => rewrites = 0 /\ live' = live /\ Len(files'[live]) > Len(files[live])
  BY EnvironmentHolds
<1>4. /\ cut[i] = 0 => s.len <= Len(old)
      /\ rewrites = 0 => i = live /\ SameGeneration(s, StampOf(live))
  BY DEF StampHolds
<1>5. rewrites' = 0 => i = live' /\ SameGeneration(s, StampOf(live)')
  <2> SUFFICES ASSUME rewrites' = 0 PROVE i = live' /\ SameGeneration(s, StampOf(live)')
    OBVIOUS
  <2>1. i = live /\ live' = live /\ Len(now) > Len(old) /\ s.len <= Len(old)
    BY <1>3, <1>4 DEF SameGeneration, StampOf
  <2>2. StampOf(live)'.inode = live' /\ StampOf(live)'.len = Len(now)
    BY <2>1 DEF StampOf
  <2>3. s.len <= Len(now) /\ s.len # Len(now)
    BY <1>1, <1>2, <2>1
  <2> QED BY <2>1, <2>2, <2>3 DEF SameGeneration
<1>6. ASSUME cut'[i] = 0
      PROVE  /\ cut[i] = 0 /\ s.len <= Len(old) /\ s.len <= Len(now)
             /\ \A k \in 1..s.len : now[k] = old[k]
  <2>1. cut[i] = 0 /\ s.len <= Len(old) /\ Len(now) >= Len(old)
    BY <1>2, <1>4, <1>6
  <2>2. \A k \in 1..s.len : k \in 1..Len(old)
    BY <1>1, <2>1
  <2> QED BY <1>1, <1>2, <1>6, <2>1, <2>2
<1> QED BY <1>5, <1>6

\* What a cursor says of the file it says still, as long as the file is not cut.
LEMMA CursorKept ==
  ASSUME RestTyped, Environment, NEW c \in Cursors, CursorHolds(c)
  PROVE  LET now == files'[c.stamp.inode]
             old == files[c.stamp.inode]
         IN /\ Ordered(c) /\ c.stamp.len \in Nat
            /\ rewrites' = 0 => c.stamp.inode = live' /\ SameGeneration(c.stamp, StampOf(live)')
            /\ cut'[c.stamp.inode] = 0 =>
                 /\ cut[c.stamp.inode] = 0 /\ c.stamp.len <= Len(old) /\ c.stamp.len <= Len(now)
                 /\ old \in Seq(Cells) /\ now \in Seq(Cells)
                 /\ \A k \in 1..c.stamp.len : now[k] = old[k]
                 /\ InRecord(now, c)
<1> DEFINE now == files'[c.stamp.inode]
           old == files[c.stamp.inode]
<1>1. /\ c.stamp \in Stamps /\ c.stamp.inode \in Inodes /\ c.stamp.len \in Nat
      /\ c.start \in Nat /\ c.offset \in Nat
  BY CursorFacts
<1>2. Ordered(c) /\ StampHolds(c.stamp) /\ (cut[c.stamp.inode] = 0 => InRecord(old, c))
  BY DEF CursorHolds, Intact, Content
<1>3. /\ rewrites' = 0 => c.stamp.inode = live' /\ SameGeneration(c.stamp, StampOf(live)')
      /\ cut'[c.stamp.inode] = 0 =>
           /\ cut[c.stamp.inode] = 0 /\ c.stamp.len <= Len(old) /\ c.stamp.len <= Len(now)
           /\ \A k \in 1..c.stamp.len : now[k] = old[k]
  BY <1>1, <1>2, StampKept
<1>4. old \in Seq(Cells) /\ now \in Seq(Cells)
  BY <1>1, EnvironmentHolds, StampOfNow
<1>5. cut'[c.stamp.inode] = 0 => InRecord(now, c)
  <2> SUFFICES ASSUME cut'[c.stamp.inode] = 0 PROVE InRecord(now, c)
    OBVIOUS
  <2>1. InRecord(old, c) /\ \A k \in 1..c.stamp.len : now[k] = old[k]
    BY <1>2, <1>3
  <2>2. c.start # 0 => c.start \in 1..c.stamp.len
    BY <1>1, <1>2 DEF Ordered
  <2>3. \A k \in (c.start + 1)..c.offset : k \in 1..c.stamp.len
    BY <1>1, <1>2 DEF Ordered
  <2> HIDE DEF now, old
  <2> QED BY <2>1, <2>2, <2>3 DEF InRecord
<1> QED BY <1>1, <1>2, <1>3, <1>4, <1>5

LEMMA EnvironmentRest ==
  ASSUME Rest, Environment
  PROVE  Rest'
<1>1. /\ RestTyped /\ RestTyped' /\ UNCHANGED <<held, inbox, anchor, earlier, memo>>
      /\ CutsHold'
  BY EnvironmentHolds DEF Rest
<1> DEFINE now == files'[held.stamp.inode]
           old == files[held.stamp.inode]
<1>3. ASSUME held # NoCursor
      PROVE  /\ CursorHolds(held)' /\ held \in Cursors /\ Ordered(held) /\ held.stamp.len \in Nat
             /\ held.start \in Nat /\ anchor \in Nat
             /\ cut'[held.stamp.inode] = 0 =>
                  /\ cut[held.stamp.inode] = 0 /\ held.stamp.len <= Len(old)
                  /\ held.stamp.len <= Len(now) /\ old \in Seq(Cells) /\ now \in Seq(Cells)
                  /\ \A k \in 1..held.stamp.len : now[k] = old[k]
  <2>1. held \in Cursors /\ CursorHolds(held) /\ anchor \in Nat
    BY <1>1, <1>3 DEF Rest, RestTyped, HostHolds
  <2>2. /\ Ordered(held) /\ held.stamp.len \in Nat
        /\ rewrites' = 0 => held.stamp.inode = live' /\ SameGeneration(held.stamp, StampOf(live)')
        /\ cut'[held.stamp.inode] = 0 =>
             /\ cut[held.stamp.inode] = 0 /\ held.stamp.len <= Len(old)
             /\ held.stamp.len <= Len(now) /\ old \in Seq(Cells) /\ now \in Seq(Cells)
             /\ \A k \in 1..held.stamp.len : now[k] = old[k]
             /\ InRecord(now, held)
    BY <1>1, <2>1, CursorKept
  <2>3. CursorHolds(held)'
    BY <1>1, <2>2 DEF CursorHolds, StampHolds, Intact, Content
  <2>4. held.start \in Nat
    BY <2>1, CursorFacts
  <2> QED BY <2>1, <2>2, <2>3, <2>4
<1>4. HostHolds'
  <2>1. CASE held = NoCursor
    BY <1>1, <2>1 DEF Rest, HostHolds
  <2>2. CASE held # NoCursor
    <3>1. /\ anchor <= held.start /\ held.sequence + earlier = Len(inbox)
          /\ (cut[held.stamp.inode] = 0 => Lists(inbox, old, anchor, held.start))
          /\ (cut[held.stamp.inode] = 0 /\ held.kind = "resume" => Exhausted(old, held))
      BY <2>2 DEF Rest, HostHolds, Intact, Content
    <3>2. /\ held \in Cursors /\ Ordered(held) /\ held.stamp.len \in Nat
          /\ held.start \in Nat /\ anchor \in Nat /\ CursorHolds(held)'
          /\ cut'[held.stamp.inode] = 0 =>
               cut[held.stamp.inode] = 0 /\ \A k \in 1..held.stamp.len : now[k] = old[k]
      BY <1>3, <2>2
    <3>3. \A k \in 1..held.start : k \in 1..held.stamp.len
      <4>1. held.start <= held.stamp.len
        BY <3>2, CursorFacts DEF Ordered
      <4> QED BY <3>2, <4>1
    <3>4. cut'[held.stamp.inode] = 0 => Lists(inbox, now, anchor, held.start)
      <4> SUFFICES ASSUME cut'[held.stamp.inode] = 0 PROVE Lists(inbox, now, anchor, held.start)
        OBVIOUS
      <4>1. Lists(inbox, old, anchor, held.start) /\ \A k \in 1..held.start : now[k] = old[k]
        BY <3>1, <3>2, <3>3
      <4> HIDE DEF now, old
      <4> QED BY <3>2, <4>1, ListsAgree
    <3>5. cut'[held.stamp.inode] = 0 /\ held.kind = "resume" => Exhausted(now, held)
      <4> SUFFICES ASSUME cut'[held.stamp.inode] = 0, held.kind = "resume",
                          NEW k \in (held.start + 1)..held.stamp.len
                   PROVE  now[k] = Byte
        BY DEF Exhausted
      <4>1. k \in 1..held.stamp.len
        BY <3>2
      <4> QED BY <3>1, <3>2, <4>1 DEF Exhausted
    <3>6. Content(held)' = now /\ (Intact(held)' <=> cut'[held.stamp.inode] = 0)
      BY <1>1 DEF Content, Intact
    <3> HIDE DEF now, old
    <3> QED BY <1>1, <2>2, <3>1, <3>2, <3>4, <3>5, <3>6 DEF HostHolds
  <2> QED BY <2>1, <2>2
<1>5. MemoHolds'
  <2> SUFFICES ASSUME memo # NoCursor PROVE MemoHolds'
    BY <1>1 DEF MemoHolds
  <2>1. /\ held # NoCursor /\ memo.token = held
        /\ memo.answer.status = "page" => held.kind = "page" /\ Replays(memo.answer)
    BY DEF Rest, MemoHolds
  <2>2. memo.answer.status = "page" => Replays(memo.answer)'
    <3> SUFFICES ASSUME memo.answer.status = "page", cut'[held.stamp.inode] = 0
                 PROVE  memo.answer = Answer(ReadOf(held, now))
      BY <1>1 DEF Replays, Intact, Content
    <3>1. ReadOf(held, now) = ReadOf(held, old)
      BY <1>3, <2>1, ReadOfAgree
    <3> QED BY <1>3, <2>1, <3>1 DEF Replays, Intact, Content
  <2> QED BY <1>1, <2>1, <2>2 DEF MemoHolds
<1> QED BY <1>1, <1>4, <1>5 DEF Rest

\* What an environment step leaves of what a request found.
LEMMA FindingsKept ==
  ASSUME RestTyped, Environment, NEW c \in Cursors, CursorHolds(c),
         cut'[c.stamp.inode] = 0
  PROVE  LET now == files'[c.stamp.inode]
             old == files[c.stamp.inode]
         IN /\ cut[c.stamp.inode] = 0
            /\ ReadOf(c, now) = ReadOf(c, old)
            /\ \A cursor \in Cursors : cursor.stamp = c.stamp /\ Exhausted(old, cursor) => Exhausted(now, cursor)
            /\ \A starts : \A from, to \in Nat :
                 to <= c.stamp.len /\ Lists(starts, old, from, to) => Lists(starts, now, from, to)
<1> DEFINE now == files'[c.stamp.inode]
           old == files[c.stamp.inode]
<1>1. /\ Ordered(c) /\ c.stamp.len \in Nat /\ c.stamp.len <= Len(old) /\ c.stamp.len <= Len(now)
      /\ cut[c.stamp.inode] = 0 /\ old \in Seq(Cells) /\ now \in Seq(Cells) /\ \A k \in 1..c.stamp.len : now[k] = old[k]
  BY CursorKept
<1> HIDE DEF now, old
<1>2. ReadOf(c, now) = ReadOf(c, old)
  BY <1>1, ReadOfAgree
<1>3. ASSUME NEW cursor \in Cursors, cursor.stamp = c.stamp, Exhausted(old, cursor)
      PROVE  Exhausted(now, cursor)
  <2>1. cursor.start \in Nat
    BY CursorFacts
  <2>2. \A k \in (cursor.start + 1)..c.stamp.len : k \in 1..c.stamp.len
    BY <1>1, <2>1
  <2> QED BY <1>1, <1>3, <2>2 DEF Exhausted
<1>4. ASSUME NEW starts, NEW from \in Nat, NEW to \in Nat, to <= c.stamp.len, Lists(starts, old, from, to)
      PROVE  Lists(starts, now, from, to)
  <2>1. \A k \in 1..to : now[k] = old[k]
    BY <1>1, <1>4
  <2> QED BY <1>4, <2>1, ListsAgree
<1> QED BY <1>1, <1>2, <1>3, <1>4 DEF now, old

LEMMA EnvironmentLook ==
  ASSUME Serving, Rest, Environment, call.pc \in {"opened", "read"}
  PROVE  LookHolds'
<1> DEFINE c == call.from
           current == call.current
<1>1. RestTyped /\ UNCHANGED <<call, held>>
  BY EnvironmentHolds DEF Rest
<1>2. LookHolds /\ c \in Cursors /\ current \in Stamps
  BY LookFacts
<1>3. CursorHolds(c) /\ StampHolds(current)
  BY <1>2 DEF LookHolds
<1>4. StampHolds(call.current)'
  <2>1. /\ cut'[current.inode] = 0 => current.len <= Len(files'[current.inode])
        /\ rewrites' = 0 => current.inode = live' /\ SameGeneration(current, StampOf(live)')
    BY <1>1, <1>2, <1>3, StampKept
  <2> QED BY <1>1, <2>1 DEF StampHolds
<1>5. CursorHolds(call.from)'
  <2>1. /\ Ordered(c)
        /\ rewrites' = 0 => c.stamp.inode = live' /\ SameGeneration(c.stamp, StampOf(live)')
        /\ cut'[c.stamp.inode] = 0 =>
             c.stamp.len <= Len(files'[c.stamp.inode]) /\ InRecord(files'[c.stamp.inode], c)
    BY <1>1, <1>2, <1>3, CursorKept
  <2> QED BY <1>1, <2>1 DEF CursorHolds, StampHolds, Intact, Content
<1>7. RightKind(call.request.mode)' /\ GoesOn(call.from)' /\ Origin' = Origin
  BY <1>1, <1>2 DEF LookHolds, RightKind, GoesOn, Origin
<1> QED BY <1>1, <1>2, <1>4, <1>5, <1>7 DEF LookHolds

LEMMA EnvironmentRead ==
  ASSUME Serving, Rest, Environment, call.pc = "read"
  PROVE  ReadHolds'
<1> DEFINE c == call.from
           old == files[c.stamp.inode]
           now == files'[c.stamp.inode]
           found == ReadOf(c, old)
<1>1. RestTyped /\ UNCHANGED <<call, held>>
  BY EnvironmentHolds DEF Rest
<1>2. /\ call \in ReadCalls /\ c \in Cursors /\ CursorHolds(c) /\ ReadHolds
      /\ call.next \in Cursors /\ call.checkpoint \in Cursors \cup {NoCursor}
  <2>1. call \in ReadCalls
    BY CallShapes DEF Serving
  <2> QED BY <2>1 DEF ReadCalls, Serving, LookHolds
<1>3. ASSUME NEW cursor \in Cursors, StopHolds(cursor)
      PROVE  /\ cursor.stamp = c.stamp /\ cursor.sequence = c.sequence
             /\ cursor.start = call.next.start /\ Ordered(cursor)
             /\ rewrites' = 0 => cursor.stamp.inode = live' /\ SameGeneration(cursor.stamp, StampOf(live)')
             /\ cut'[cursor.stamp.inode] = 0 =>
                  /\ cursor.stamp.len <= Len(files'[cursor.stamp.inode])
                  /\ InRecord(files'[cursor.stamp.inode], cursor)
  BY <1>1, <1>3, CursorKept DEF StopHolds
<1>4. StopHolds(call.next) /\ (call.checkpoint # NoCursor => StopHolds(call.checkpoint) /\ call.checkpoint \in Cursors)
  BY <1>2 DEF ReadHolds
<1>5. StopHolds(call.next)'
  BY <1>1, <1>2, <1>3, <1>4 DEF StopHolds, CursorHolds, StampHolds, Intact, Content
<1>6. call'.checkpoint # NoCursor => StopHolds(call.checkpoint)'
  BY <1>1, <1>3, <1>4 DEF StopHolds, CursorHolds, StampHolds, Intact, Content
<1>7. Content(call.from)' = now /\ (Intact(call.from)' <=> cut'[c.stamp.inode] = 0)
  BY <1>1 DEF Content, Intact
<1>8. Received(call)' = Received(call)
  BY <1>1 DEF Received
<1>9. cut'[c.stamp.inode] = 0 =>
        /\ cut[c.stamp.inode] = 0 /\ ReadOf(c, now) = found
        /\ Exhausted(old, call.next) => Exhausted(now, call.next)
        /\ Lists(Received(call), old, c.start, call.next.start)
             => Lists(Received(call), now, c.start, call.next.start)
  <2> SUFFICES ASSUME cut'[c.stamp.inode] = 0
               PROVE  /\ cut[c.stamp.inode] = 0 /\ ReadOf(c, now) = found
                      /\ Exhausted(old, call.next) => Exhausted(now, call.next)
                      /\ Lists(Received(call), old, c.start, call.next.start)
                           => Lists(Received(call), now, c.start, call.next.start)
    OBVIOUS
  <2>1. c.start \in Nat /\ call.next.start \in Nat /\ call.next.start <= c.stamp.len /\ call.next.stamp = c.stamp
    <3>1. call.next.stamp = c.stamp /\ Ordered(call.next)
      BY <1>4 DEF StopHolds, CursorHolds
    <3>2. /\ call.next.start \in Nat /\ call.next.offset \in Nat /\ c.stamp.len \in Nat /\ c.start \in Nat
          /\ call.next.start <= call.next.offset /\ call.next.offset <= c.stamp.len
      BY <1>2, <3>1, CursorFacts DEF Ordered
    <3> QED BY <3>1, <3>2
  <2>2. /\ cut[c.stamp.inode] = 0 /\ ReadOf(c, now) = ReadOf(c, old)
        /\ \A cursor \in Cursors : cursor.stamp = c.stamp /\ Exhausted(old, cursor) => Exhausted(now, cursor)
        /\ \A starts : \A from, to \in Nat :
             to <= c.stamp.len /\ Lists(starts, old, from, to) => Lists(starts, now, from, to)
    BY <1>1, <1>2, FindingsKept
  <2> DEFINE starts == Received(call)
  <2> HIDE DEF now, starts
  <2>3. Exhausted(old, call.next) => Exhausted(now, call.next)
    <3> HIDE DEF old
    <3> QED BY <1>2, <2>1, <2>2
  <2>4. Lists(starts, old, c.start, call.next.start) => Lists(starts, now, c.start, call.next.start)
    <3> HIDE DEF old
    <3> QED BY <2>1, <2>2
  <2> QED BY <2>2, <2>3, <2>4 DEF starts
<1>10. cut[c.stamp.inode] = 0 =>
         /\ call.complete => Exhausted(old, call.next)
         /\ call.request.mode # "tail" => Lists(Received(call), old, c.start, call.next.start)
         /\ call.request.mode = "continuation" =>
              /\ call.turns = found.turns /\ call.next = found.next
              /\ call.complete = found.complete /\ call.checkpoint = found.checkpoint
  BY <1>2 DEF ReadHolds, Intact, Content
<1>11. /\ c.start <= call.next.start
       /\ call.request.mode = "tail" => call.turns = <<>> /\ call.next.start = call.next.offset
                                        /\ call.checkpoint = NoCursor
  BY <1>2 DEF ReadHolds
<1>12. ReadOf(call.from, Content(call.from))' = ReadOf(c, now)
  BY <1>1, <1>7 DEF ReadOf
<1> HIDE DEF now, old, found
<1> QED BY <1>1, <1>5, <1>6, <1>7, <1>8, <1>9, <1>10, <1>11, <1>12 DEF ReadHolds

LEMMA EnvironmentPage ==
  ASSUME Serving, Rest, Environment, Answered("page")
  PROVE  PageHolds'
<1> DEFINE c == call.answer.cursor
           old == files[c.stamp.inode]
           now == files'[c.stamp.inode]
           mode == call.request.mode
<1>1. RestTyped /\ UNCHANGED held /\ call' = call /\ PageHolds /\ RequestHolds
  <2>1. call.pc = "answered"
    BY DEF Answered
  <2> QED BY <2>1, EnvironmentHolds DEF Rest, Serving
<1>2. c \in Cursors /\ CursorHolds(c)
  <2>1. call \in AnsweredCalls
    BY CallShapes DEF Serving, Answered
  <2>2. call.answer \in Answers
    BY <2>1 DEF AnsweredCalls
  <2>3. call.answer \in Pages
    BY <2>2 DEF Answers, Answered, Refusals
  <2> QED BY <1>1, <2>3 DEF Pages, PageHolds
<1>3. /\ Ordered(c) /\ c.stamp.len \in Nat
      /\ rewrites' = 0 => c.stamp.inode = live' /\ SameGeneration(c.stamp, StampOf(live)')
      /\ cut'[c.stamp.inode] = 0 => c.stamp.len <= Len(now) /\ InRecord(now, c)
  BY <1>1, <1>2, CursorKept
<1>4. CursorHolds(call.answer.cursor)'
  BY <1>1, <1>3 DEF CursorHolds, StampHolds, Intact, Content
<1>5. Origin' = Origin /\ RightKind(mode)' /\ GoesOn(c)'
  BY <1>1 DEF PageHolds, Origin, RightKind, GoesOn
<1>6. /\ cut[c.stamp.inode] = 0 /\ c.kind = "resume" => Exhausted(old, c)
      /\ cut[c.stamp.inode] = 0 /\ mode # "tail" => Lists(Received(call.answer), old, Origin, c.start)
  BY <1>1 DEF PageHolds, Intact, Content
<1>7. cut'[c.stamp.inode] = 0 =>
        /\ c.kind = "resume" => Exhausted(now, c)
        /\ mode # "tail" => Lists(Received(call.answer), now, Origin, c.start)
  <2> SUFFICES ASSUME cut'[c.stamp.inode] = 0
               PROVE  /\ c.kind = "resume" => Exhausted(now, c)
                      /\ mode # "tail" => Lists(Received(call.answer), now, Origin, c.start)
    OBVIOUS
  <2>1. Origin \in Nat /\ c.start \in Nat /\ c.start <= c.stamp.len
    <3>1. held # NoCursor => held \in Cursors
      BY DEF Rest, RestTyped
    <3>2. Origin \in Nat
      BY <3>1, CursorFacts DEF Origin
    <3>3. c.start \in Nat /\ c.offset \in Nat /\ c.stamp.len \in Nat /\ c.start <= c.offset /\ c.offset <= c.stamp.len
      BY <1>2, <1>3, CursorFacts DEF Ordered
    <3> QED BY <3>2, <3>3
  <2>2. /\ cut[c.stamp.inode] = 0
        /\ \A cursor \in Cursors : cursor.stamp = c.stamp /\ Exhausted(old, cursor) => Exhausted(now, cursor)
        /\ \A starts : \A from, to \in Nat :
             to <= c.stamp.len /\ Lists(starts, old, from, to) => Lists(starts, now, from, to)
    BY <1>1, <1>2, FindingsKept
  <2> DEFINE starts == Received(call.answer)
  <2> HIDE DEF now, old, starts
  <2>3. c.kind = "resume" => Exhausted(now, c)
    BY <1>2, <1>6, <2>2
  <2>4. mode # "tail" => Lists(starts, now, Origin, c.start)
    <3>1. mode # "tail" => Lists(starts, old, Origin, c.start)
      BY <1>6, <2>2 DEF starts
    <3> HIDE DEF mode
    <3> QED BY <2>1, <2>2, <3>1
  <2> QED BY <2>3, <2>4 DEF starts
<1>8. mode = "continuation" => Replays(call.answer)'
  <2> SUFFICES ASSUME mode = "continuation", cut'[held.stamp.inode] = 0
               PROVE  call.answer = Answer(ReadOf(held, files'[held.stamp.inode]))
    BY <1>1 DEF Replays, Intact, Content
  <2>1. held \in Cursors /\ CursorHolds(held)
    BY <1>1 DEF RequestHolds, Rest, RestTyped, HostHolds
  <2>2. /\ cut[held.stamp.inode] = 0
        /\ ReadOf(held, files'[held.stamp.inode]) = ReadOf(held, files[held.stamp.inode])
    BY <1>1, <2>1, FindingsKept
  <2> QED BY <1>1, <2>2 DEF PageHolds, Replays, Intact, Content
<1>9. Content(call.answer.cursor)' = now /\ (Intact(call.answer.cursor)' <=> cut'[c.stamp.inode] = 0)
  BY <1>1 DEF Content, Intact
<1>10. /\ Origin <= c.start
       /\ c.sequence = Len(call.answer.turns) + (IF mode = "continuation" THEN held.sequence ELSE 0)
       /\ mode = "tail" => call.answer.turns = <<>> /\ c.start = c.offset
  BY <1>1 DEF PageHolds
<1>11. Received(call.answer)' = Received(call.answer)
  BY <1>1 DEF Received
<1> HIDE DEF now, old
<1> QED BY <1>1, <1>4, <1>5, <1>7, <1>8, <1>9, <1>10, <1>11 DEF PageHolds

LEMMA EnvironmentKeeps ==
  ASSUME Serving, Rest, Environment
  PROVE  Serving' /\ Rest'
<1>1. Rest'
  BY EnvironmentRest
<1>2. /\ RestTyped /\ UNCHANGED <<call, held, memo>>
      /\ (rewrites' = 0 => rewrites = 0) /\ rewrites' \in Nat /\ rewrites \in Nat
  BY EnvironmentHolds DEF Rest, RestTyped
<1>3. CallTyped' /\ call' = call
  BY <1>2 DEF Serving, CallTyped
<1>4. call'.pc # "idle" => RequestHolds'
  BY <1>2, <1>3 DEF Serving, RequestHolds
<1>5. Answered("page")' <=> Answered("page")
  BY <1>3 DEF Answered
<1>6. OnlyRewritesGoStale'
  <2> SUFFICES ASSUME call'.pc = "answered", call'.answer.status = "stale", WellUsed(call'.request)
               PROVE  rewrites' > 0
    BY DEF OnlyRewritesGoStale, Answered
  <2>1. rewrites > 0
    BY <1>3 DEF Serving, OnlyRewritesGoStale, Answered
  <2> QED BY <1>2, <2>1
<1>7. ReplayIdentical'
  <2> SUFFICES ASSUME call'.pc = "answered", call'.answer.status = "page", memo # NoCursor,
                      memo.answer.status = "page", call'.request.token = memo.token,
                      cut'[memo.token.stamp.inode] = 0
               PROVE  call'.answer = memo.answer
    BY <1>2 DEF ReplayIdentical, Answered, Intact
  <2>1. memo.token \in Cursors
    BY <1>2 DEF RestTyped
  <2>2. cut[memo.token.stamp.inode] = 0
    BY <2>1, CursorFacts, EnvironmentHolds, <1>2
  <2> QED BY <1>3, <2>2 DEF Serving, ReplayIdentical, Answered, Intact
<1>8. (call.pc \in {"opened", "read"} => LookHolds)'
  BY <1>3, EnvironmentLook
<1>9. (call.pc = "read" => ReadHolds)'
  BY <1>3, EnvironmentRead
<1>10. (Answered("page") => PageHolds)'
  BY <1>5, EnvironmentPage
<1> QED BY <1>1, <1>3, <1>4, <1>6, <1>7, <1>8, <1>9, <1>10 DEF Serving

-----------------------------------------------------------------------------
(* The theorems                                                            *)

LEMMA InitHolds ==
  ASSUME Init
  PROVE  Serving /\ Rest
<1>1. /\ files = [i \in Inodes |-> <<>>] /\ mtime = [i \in Inodes |-> 0] /\ live = 1
      /\ cut = [i \in Inodes |-> 0] /\ call = [pc |-> "idle"] /\ held = NoCursor /\ inbox = <<>> /\ anchor = 0 /\ earlier = 0
      /\ memo = NoCursor /\ rewrites = 0 /\ projection \in Projections
  BY DEF Init, Idle
<1>2. Serving
  BY <1>1 DEF Serving, CallTyped, OnlyRewritesGoStale, ReplayIdentical, Answered
<1>3. RestTyped
  <2>1. files \in [Inodes -> Seq(Cells)] /\ files[1] = <<>> /\ files[2] = <<>>
    BY <1>1 DEF Inodes
  <2>2. Len(files[1]) + Len(files[2]) <= MaxLength
    <3>1. Len(files[1]) = 0 /\ Len(files[2]) = 0
      BY <2>1
    <3> QED BY <3>1, PagingAssumption
  <2>3. inbox \in Seq(Nat) /\ mtime \in [Inodes -> Nat] /\ live \in Inodes /\ cut \in [Inodes -> Nat]
    BY <1>1 DEF Inodes
  <2> QED BY <1>1, <2>1, <2>2, <2>3 DEF RestTyped
<1>4. HostHolds /\ MemoHolds /\ CutsHold
  BY <1>1 DEF HostHolds, MemoHolds, CutsHold
<1> QED BY <1>2, <1>3, <1>4 DEF Rest

LEMMA NextHolds ==
  ASSUME Serving, Rest, Next
  PROVE  Serving' /\ Rest'
<1>1. CASE Handle
  BY <1>1, RefuseTokenHolds, OpenHolds, ReadTailHolds, ReadForwardHolds, FinishHolds DEF Handle
<1>2. CASE Host
  BY <1>2, AskHolds, AcceptHolds, RefusedHolds, LoseHolds DEF Host
<1>3. CASE Environment
  BY <1>3, EnvironmentKeeps
<1> QED BY <1>1, <1>2, <1>3 DEF Next

LEMMA StutterHolds ==
  ASSUME Serving, Rest, UNCHANGED vars
  PROVE  Serving' /\ Rest'
<1>1. /\ UNCHANGED <<projection, rollout, host, rewrites>> /\ call' = call
      /\ UNCHANGED <<projection, files, mtime, live, cut, held, memo, rewrites>>
  BY DEF vars, rollout, host
<1>2. Rest'
  BY <1>1, RestStays
<1>3. /\ CallTyped' /\ OnlyRewritesGoStale' /\ ReplayIdentical'
      /\ (Answered("page")' <=> Answered("page"))
  BY <1>1 DEF Serving, CallTyped, OnlyRewritesGoStale, ReplayIdentical, Answered, Intact
<1>4. (call.pc # "idle" => RequestHolds)'
  BY <1>1 DEF Serving, RequestHolds
<1>5. (call.pc \in {"opened", "read"} => LookHolds)'
  BY <1>1 DEF Serving, LookHolds, RightKind, GoesOn, Origin, CursorHolds, StampHolds, StampOf,
              Intact, Content
<1>6. (call.pc = "read" => ReadHolds)'
  <2> SUFFICES ASSUME call.pc = "read" PROVE ReadHolds'
    BY <1>1
  <2>1. ReadHolds
    BY DEF Serving
  <2>2. /\ StopHolds(call.next)' /\ (call'.checkpoint # NoCursor => StopHolds(call.checkpoint)')
    BY <1>1, <2>1 DEF ReadHolds, StopHolds, CursorHolds, StampHolds, StampOf, Intact, Content
  <2>3. Content(call.from)' = Content(call.from) /\ (Intact(call.from)' <=> Intact(call.from))
    BY <1>1 DEF Content, Intact
  <2>4. Received(call)' = Received(call)
    BY <1>1 DEF Received
  <2>5. ReadOf(call.from, Content(call.from))' = ReadOf(call.from, Content(call.from))
    BY <1>1, <2>3 DEF ReadOf
  <2> QED BY <1>1, <2>1, <2>2, <2>3, <2>4, <2>5 DEF ReadHolds
<1>7. (Answered("page") => PageHolds)'
  <2> SUFFICES ASSUME Answered("page") PROVE PageHolds'
    BY <1>3
  <2>1. PageHolds
    BY DEF Serving
  <2>2. CursorHolds(call.answer.cursor)'
    BY <1>1, <2>1 DEF PageHolds, CursorHolds, StampHolds, StampOf, Intact, Content
  <2>3. /\ Content(call.answer.cursor)' = Content(call.answer.cursor)
        /\ (Intact(call.answer.cursor)' <=> Intact(call.answer.cursor))
    BY <1>1 DEF Content, Intact
  <2>4. Received(call.answer)' = Received(call.answer)
    BY <1>1 DEF Received
  <2>5. Replays(call.answer)' <=> Replays(call.answer)
    BY <1>1 DEF Replays, Intact, Content
  <2>6. Origin' = Origin /\ (RightKind(call.request.mode)' <=> RightKind(call.request.mode))
        /\ (GoesOn(call.answer.cursor)' <=> GoesOn(call.answer.cursor))
    BY <1>1 DEF Origin, RightKind, GoesOn
  <2> QED BY <1>1, <2>1, <2>2, <2>3, <2>4, <2>5, <2>6 DEF PageHolds
<1> QED BY <1>1, <1>2, <1>3, <1>4, <1>5, <1>6, <1>7 DEF Serving

\* Of a request that has read, only the last look makes an answer.
LEMMA OnlyFinishAnswers ==
  ASSUME Next, call.pc = "read", call'.pc = "answered"
  PROVE  Finish
<1>1. CASE Handle
  BY <1>1 DEF Handle, RefuseToken, Open, ReadTail, ReadForward
<1>2. CASE Host
  BY <1>2 DEF Host, Begin, BeginAtTail, Resume, Continue, Misuse, Send, Accept, Refused, Lose, Idle
<1>3. CASE Environment
  BY <1>3 DEF Environment, Grow, Replace, Truncate, Touch, Rewrite
<1> QED BY <1>1, <1>2, <1>3 DEF Next

\* Every reachable state satisfies the inductive invariant, for every rollout,
\* every budget and every ceiling on a record.
THEOREM Invariance == Spec => []IInv
<1>1. Init => Serving /\ Rest
  BY InitHolds
<1>2. Serving /\ Rest /\ [Next]_vars => (Serving /\ Rest)'
  BY NextHolds, StutterHolds
<1>3. Serving /\ Rest => IInv
  BY Parts
<1> QED BY <1>1, <1>2, <1>3, PTL DEF Spec

\* Type correctness of the model of session_turn_pages.rs.
THEOREM TypeCorrectness == Spec => []TypeOK
<1>1. IInv => TypeOK
  BY DEF IInv
<1> QED BY <1>1, Invariance, PTL

\* The host receives every turn between the point it began at and the record
\* boundary of its cursor once and in order, wherever the budgets cut the pages,
\* whatever was appended in between and whichever answers were lost.
THEOREM ExactlyOnceHolds == Spec => []ExactlyOnce
<1>1. IInv => ExactlyOnce
  BY DEF IInv, HostHolds, ExactlyOnce
<1> QED BY <1>1, Invariance, PTL

\* A snapshot that is reported complete leaves no complete record behind.
THEOREM CompletionIsTotalHolds == Spec => []CompletionIsTotal
<1>1. IInv => CompletionIsTotal
  BY DEF IInv, HostHolds, CompletionIsTotal, Exhausted
<1> QED BY <1>1, Invariance, PTL

\* The sequence in a cursor counts the turns of its snapshot the host has, and
\* the cursor lies in the file its snapshot covers.
THEOREM SequenceAgreesHolds == Spec => []SequenceAgrees
<1>1. IInv => SequenceAgrees
  <2> SUFFICES ASSUME IInv, held # NoCursor
               PROVE  /\ held \in Cursors /\ held.start <= held.offset /\ held.offset <= held.stamp.len
                      /\ held.sequence + earlier = Len(inbox)
    BY DEF SequenceAgrees
  <2>1. held \in Cursors
    BY DEF IInv, TypeOK
  <2>2. Ordered(held) /\ held.sequence + earlier = Len(inbox)
    BY DEF IInv, HostHolds, CursorHolds
  <2> QED BY <2>1, <2>2 DEF Ordered
<1> QED BY <1>1, Invariance, PTL

\* A continuation that is repeated because its answer was lost gets the same page.
THEOREM ReplayIdenticalHolds == Spec => []ReplayIdentical
<1>1. IInv => ReplayIdentical
  BY DEF IInv
<1> QED BY <1>1, Invariance, PTL

\* A host that presents its own cursor as it was issued is told that it is stale
\* only if something other than appending was done to the rollout.
THEOREM OnlyRewritesGoStaleHolds == Spec => []OnlyRewritesGoStale
<1>1. IInv => OnlyRewritesGoStale
  BY DEF IInv
<1> QED BY <1>1, Invariance, PTL

\* A page is answered over a file that was cut since its request was opened, or
\* since the snapshot of its token began, only if the file has grown past what was
\* found then: a file of the same length has kept its modification time.
THEOREM NoTornPageHolds == Spec => NoTornPage
<1> DEFINE Answers1 == call.pc = "read" /\ call'.pc = "answered" /\ call'.answer.status = "page"
           Safe == \A look \in Looks : cut[look.inode] > look.mtime => look.len < Len(files[look.inode])
<1>1. ASSUME IInv, Next, Answers1 PROVE Safe
  <2>1. RestTyped /\ CutsHold /\ LookHolds /\ RequestHolds /\ CallTyped
    BY <1>1, Parts DEF Serving, Rest
  <2>2. Unchanged
    <3>1. Finish
      BY <1>1, OnlyFinishAnswers
    <3>2. CASE ~Unchanged
      BY <1>1, <3>1, <3>2 DEF Finish, Refuse, Refusal
    <3> QED BY <3>2
  <2>3. call.current \in Stamps /\ (held # NoCursor => held \in Cursors)
    BY <1>1, <2>1, CallShapes DEF ReadCalls, RestTyped
  <2>4. ASSUME NEW look \in Stamps, SameGeneration(look, StampOf(look.inode)),
               cut[look.inode] > look.mtime
        PROVE  look.len < Len(files[look.inode])
    <3>1. /\ look.inode \in Inodes /\ look.len \in Nat /\ look.mtime \in Nat
      BY PagingAssumption DEF Stamps
    <3>2. /\ cut[look.inode] \in Nat /\ mtime[look.inode] \in Nat /\ Len(files[look.inode]) \in Nat
          /\ cut[look.inode] <= mtime[look.inode]
      BY <2>1, <3>1, StampOfNow DEF RestTyped, CutsHold
    <3>3. /\ look.len <= Len(files[look.inode])
          /\ look.len = Len(files[look.inode]) => look.mtime = mtime[look.inode]
      BY <2>4 DEF SameGeneration, StampOf
    <3> QED BY <2>4, <3>1, <3>2, <3>3
  <2>5. SameGeneration(call.current, StampOf(call.current.inode))
    BY <2>2 DEF Unchanged
  <2>6. ASSUME held # NoCursor
        PROVE  held.stamp \in Stamps /\ SameGeneration(held.stamp, StampOf(held.stamp.inode))
    <3>1. /\ SameGeneration(held.stamp, call.current) /\ held.stamp \in Stamps
          /\ held.stamp.inode = call.current.inode
      BY <2>1, <2>3, <2>6, CursorFacts DEF LookHolds, SameGeneration
    <3>2. /\ held.stamp.len \in Nat /\ call.current.len \in Nat /\ call.current.inode \in Inodes
      BY <2>3, <3>1, PagingAssumption DEF Stamps
    <3>3. Len(files[call.current.inode]) \in Nat
      BY <2>1, <3>2, StampOfNow
    <3> QED BY <2>5, <3>1, <3>2, <3>3 DEF SameGeneration, StampOf
  <2>7. Looks \subseteq {call.current} \cup (IF held = NoCursor THEN {} ELSE {held.stamp})
    BY <2>1 DEF Looks, RequestHolds
  <2> QED BY <2>3, <2>4, <2>5, <2>6, <2>7
<1>2. IInv /\ [Next]_vars => [Answers1 => Safe]_vars
  BY <1>1
<1> QED BY <1>2, Invariance, PTL DEF Spec, NoTornPage
=============================================================================
