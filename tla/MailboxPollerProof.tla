------------------------- MODULE MailboxPollerProof -------------------------
(* Theorems of MailboxPoller, for any folder, batch, index and bounds. *)
EXTENDS MailboxPoller, FiniteSetTheorems, TLAPS

USE PollerAssumption

LEMMA Bounds ==
    /\ MaxMail \in Nat /\ MaxRebuilds \in Nat /\ MaxExpunged \in Nat
    /\ MaxAborts \in Nat /\ MaxLosses \in Nat /\ MaxCrashes \in Nat
  OBVIOUS

-----------------------------------------------------------------------------
(* Sets of UIDs and their order.  Finite sets are well-founded under the strict *)
(* subset order, which replaces induction.                                      *)

\* A set of numbers up to n that is not empty has a largest member.
LEMMA LargestExists ==
    ASSUME NEW n \in Nat, NEW S, S \subseteq 0..n, S # {}
    PROVE  \E k \in S : \A m \in S : m <= k
  <1> DEFINE Covers == {X \in FiniteSubsetsOf(Nat) : S \subseteq X /\ \E k \in Nat : X = 0..k}
  <1>1. 0..n \in Covers
    <2>1. IsFiniteSet(0..n)
      BY FS_Interval
    <2> QED
      BY <2>1 DEF FiniteSubsetsOf
  <1>2. PICK X \in Covers : \A Y \in Covers : ~(<<Y, X>> \in StrictSubsetOrdering(Nat))
    <2>1. Covers \subseteq FiniteSubsetsOf(Nat) /\ Covers # {}
      BY <1>1
    <2>2. IsWellFoundedOn(StrictSubsetOrdering(Nat), FiniteSubsetsOf(Nat))
      BY FS_StrictSubsetOrderingWellFounded
    <2> HIDE DEF Covers
    <2> QED
      BY <2>1, <2>2, WFMin
  <1>3. PICK k \in Nat : X = 0..k /\ S \subseteq X
    OBVIOUS
  <1>4. k \in S
    <2> SUFFICES ASSUME k \notin S PROVE FALSE
      OBVIOUS
    <2>1. k # 0
      <3> SUFFICES ASSUME k = 0 PROVE FALSE
        OBVIOUS
      <3>1. PICK y \in S : TRUE
        OBVIOUS
      <3>2. y = 0
        BY <1>3, <3>1
      <3> QED
        BY <3>1, <3>2
    <2>2. S \subseteq 0..(k - 1)
      BY <1>3
    <2>3. IsFiniteSet(0..(k - 1))
      BY FS_Interval
    <2>4. 0..(k - 1) \in Covers
      BY <2>1, <2>2, <2>3 DEF FiniteSubsetsOf
    <2>5. <<0..(k - 1), X>> \in StrictSubsetOrdering(Nat)
      <3>1. k \in X /\ k \notin 0..(k - 1)
        BY <1>3
      <3>2. 0..(k - 1) \subseteq X /\ X \subseteq Nat
        BY <1>3
      <3> QED
        BY <3>1, <3>2 DEF StrictSubsetOrdering
    <2> QED
      BY <1>2, <2>4, <2>5
  <1> QED
    BY <1>3, <1>4

\* So does any finite set of numbers.
LEMMA BoundedAbove ==
    ASSUME NEW S, IsFiniteSet(S), S \subseteq Nat
    PROVE  \E n \in Nat : S \subseteq 0..n
  <1> DEFINE Unbounded == {X \in SUBSET S : ~\E n \in Nat : X \subseteq 0..n}
  <1> SUFFICES ASSUME Unbounded # {} PROVE FALSE
    OBVIOUS
  <1>1. PICK X \in Unbounded : \A Y \in Unbounded : ~(<<Y, X>> \in StrictSubsetOrdering(S))
    <2>1. Unbounded \subseteq FiniteSubsetsOf(S)
      BY FS_FiniteSubsetsOfFinite
    <2>2. IsWellFoundedOn(StrictSubsetOrdering(S), FiniteSubsetsOf(S))
      BY FS_StrictSubsetOrderingWellFounded
    <2> HIDE DEF Unbounded
    <2> QED
      BY <2>1, <2>2, WFMin
  <1>2. PICK x \in X : TRUE
    OBVIOUS
  <1>3. <<X \ {x}, X>> \in StrictSubsetOrdering(S)
    BY DEF StrictSubsetOrdering
  <1>4. PICK n \in Nat : X \ {x} \subseteq 0..n
    BY <1>1, <1>3
  <1>5. X \subseteq Nat /\ x \in Nat /\ n + x \in Nat
    OBVIOUS
  <1>6. \A y \in X : y = x \/ y \in 0..n
    BY <1>4
  <1> HIDE DEF Unbounded
  <1>7. \A y \in X : y \in 0..(n + x)
    BY <1>5, <1>6
  <1>8. X \in Unbounded /\ X \subseteq 0..(n + x)
    BY <1>7
  <1> QED
    BY <1>5, <1>8 DEF Unbounded

\* Largest is the largest member, and 0 of no members.
LEMMA LargestProperties ==
    ASSUME NEW n \in Nat, NEW S, S \subseteq 1..n
    PROVE  Largest(S) \in 0..n /\ \A m \in S : m <= Largest(S)
  <1>1. CASE S = {}
    BY <1>1 DEF Largest
  <1>2. CASE S # {}
    <2>1. S \subseteq 0..n
      OBVIOUS
    <2>2. \E k \in S : \A m \in S : m <= k
      BY <1>2, <2>1, LargestExists
    <2>3. Largest(S) = CHOOSE k \in S : \A m \in S : m <= k
      BY <1>2 DEF Largest
    <2>4. Largest(S) \in S /\ \A m \in S : m <= Largest(S)
      BY <2>2, <2>3
    <2>5. Largest(S) \in 1..n
      BY <2>4
    <2> QED
      BY <2>4, <2>5
  <1> QED
    BY <1>1, <1>2

\* A finite set of numbers has its members in ascending order.
LEMMA OrderExists ==
    ASSUME NEW S, IsFiniteSet(S), S \subseteq Nat
    PROVE  \E s \in [1..Cardinality(S) -> S] :
             \A i, j \in 1..Cardinality(S) : i < j => s[i] < s[j]
  <1> DEFINE Ordered(X) == \E s \in [1..Cardinality(X) -> X] :
                             \A i, j \in 1..Cardinality(X) : i < j => s[i] < s[j]
             Bad == {X \in SUBSET S : ~Ordered(X)}
  <1> SUFFICES ASSUME Bad # {} PROVE FALSE
    OBVIOUS
  <1>1. PICK X \in Bad : \A Y \in Bad : ~(<<Y, X>> \in StrictSubsetOrdering(S))
    <2>1. Bad \subseteq FiniteSubsetsOf(S)
      BY FS_FiniteSubsetsOfFinite
    <2>2. IsWellFoundedOn(StrictSubsetOrdering(S), FiniteSubsetsOf(S))
      BY FS_StrictSubsetOrderingWellFounded
    <2> HIDE DEF Bad
    <2> QED
      BY <2>1, <2>2, WFMin
  <1>2. IsFiniteSet(X) /\ X \subseteq Nat
    BY FS_Subset
  <1>3. X # {}
    <2> SUFFICES ASSUME X = {} PROVE FALSE
      OBVIOUS
    <2>1. Cardinality(X) = 0
      BY FS_EmptySet
    <2>2. [i \in 1..0 |-> 0] \in [1..0 -> {}]
      OBVIOUS
    <2> QED
      BY ZenonT(40), <2>1, <2>2
  <1>4. PICK x \in X : \A y \in X : y <= x
    <2>1. PICK n \in Nat : X \subseteq 0..n
      BY <1>2, BoundedAbove
    <2> QED
      BY <1>3, <2>1, LargestExists
  <1>5. Ordered(X \ {x})
    <2>1. <<X \ {x}, X>> \in StrictSubsetOrdering(S)
      BY DEF StrictSubsetOrdering
    <2> HIDE DEF Ordered
    <2> QED
      BY <1>1, <2>1
  <1>6. Cardinality(X) \in Nat \ {0} /\ Cardinality(X \ {x}) = Cardinality(X) - 1
    BY <1>2, <1>3, FS_RemoveElement, FS_CardinalityType, FS_EmptySet
  <1>7. PICK s \in [1..Cardinality(X) - 1 -> X \ {x}] :
          \A i, j \in 1..Cardinality(X) - 1 : i < j => s[i] < s[j]
    BY <1>5, <1>6
  <1>8. Ordered(X)
    <2> DEFINE n == Cardinality(X)
               t == [i \in 1..n |-> IF i = n THEN x ELSE s[i]]
    <2>1. t \in [1..n -> X]
      BY <1>6, <1>7
    <2>2. ASSUME NEW i \in 1..n, NEW j \in 1..n, i < j PROVE t[i] < t[j]
      <3>1. i \in 1..n - 1 /\ t[i] = s[i] /\ s[i] \in X \ {x}
        BY <1>6, <1>7, <2>2
      <3>2. CASE j = n
        <4>1. t[j] = x /\ s[i] <= x /\ s[i] # x /\ s[i] \in Nat /\ x \in Nat
          BY <1>2, <1>4, <3>1, <3>2
        <4> QED
          BY <3>1, <4>1
      <3>3. CASE j # n
        BY <1>6, <1>7, <2>2, <3>1, <3>3
      <3> QED
        BY <3>2, <3>3
    <2> QED
      BY <2>1, <2>2
  <1> QED
    BY <1>8

\* InOrder lists a finite set of numbers, every member once, in ascending order.
LEMMA InOrderProperties ==
    ASSUME NEW S, IsFiniteSet(S), S \subseteq Nat
    PROVE  /\ Cardinality(S) \in Nat
           /\ InOrder(S) \in [1..Cardinality(S) -> S]
           /\ \A i, j \in 1..Cardinality(S) : i < j => InOrder(S)[i] < InOrder(S)[j]
           /\ \A x \in S : \E i \in 1..Cardinality(S) : InOrder(S)[i] = x
  <1> DEFINE n == Cardinality(S)
             s == InOrder(S)
  <1>1. n \in Nat
    BY FS_CardinalityType
  <1>2. s \in [1..n -> S] /\ \A i, j \in 1..n : i < j => s[i] < s[j]
    BY OrderExists DEF InOrder
  <1>3. s \in Injection(1..n, S)
    <2>1. ASSUME NEW i \in 1..n, NEW j \in 1..n, i # j PROVE s[i] # s[j]
      <3>1. i < j \/ j < i
        BY <1>1, <2>1
      <3>2. s[i] \in S /\ s[j] \in S
        BY <1>2
      <3>3. s[i] < s[j] \/ s[j] < s[i]
        BY <1>2, <3>1
      <3>4. ASSUME NEW a \in Nat, NEW b \in Nat, a < b \/ b < a PROVE a # b
        BY <3>4
      <3> QED
        BY <3>2, <3>3, <3>4
    <2> HIDE DEF n, s
    <2> QED
      BY <1>2, <2>1 DEF Injection, IsInjective
  <1>4. s \in Surjection(1..n, S)
    <2>1. Cardinality(1..n) = n
      BY <1>1, FS_Interval
    <2> HIDE DEF s
    <2> QED
      BY <1>3, <2>1, FS_Injection
  <1> QED
    BY <1>1, <1>2, <1>4 DEF Surjection

\* A set of numbers up to n that is not empty has a smallest member.
LEMMA SmallestExists ==
    ASSUME NEW n \in Nat, NEW S, S \subseteq 0..n, S # {}
    PROVE  \E k \in S : \A m \in S : k <= m
  <1> DEFINE T == {m \in 0..n : n - m \in S}
  <1>1. T \subseteq 0..n
    OBVIOUS
  <1>2. T # {}
    <2>1. PICK m \in S : TRUE
      OBVIOUS
    <2>2. n - m \in 0..n /\ n - (n - m) = m
      BY <2>1
    <2> QED
      BY <2>1, <2>2
  <1>3. PICK t \in T : \A m \in T : m <= t
    BY <1>1, <1>2, LargestExists
  <1>4. ASSUME NEW m \in S PROVE n - t <= m
    <2>1. m \in 0..n /\ t \in 0..n
      BY <1>4, <1>3
    <2>2. n - m \in T
      BY <1>4, <2>1
    <2>3. n - m <= t
      BY <1>3, <2>2
    <2> QED
      BY <2>1, <2>3
  <1> QED
    BY <1>3, <1>4

\* A member's place in that order is no greater than the member.
LEMMA InOrderBelow ==
    ASSUME NEW S, IsFiniteSet(S), S \subseteq Nat \ {0}, NEW k \in 1..Cardinality(S)
    PROVE  k <= InOrder(S)[k]
  <1> DEFINE n == Cardinality(S)
             s == InOrder(S)
             Bad == {i \in 1..n : s[i] < i}
  <1>1. n \in Nat /\ s \in [1..n -> S] /\ \A i, j \in 1..n : i < j => s[i] < s[j]
    BY InOrderProperties
  <1> HIDE DEF n, s
  <1>2. \A i \in 1..n : s[i] \in Nat \ {0}
    BY <1>1
  <1>3. ASSUME Bad # {} PROVE FALSE
    <2>1. Bad \subseteq 0..n
      BY <1>1
    <2>2. PICK i \in Bad : \A j \in Bad : i <= j
      BY <1>1, <1>3, <2>1, SmallestExists
    <2>3. i \in 1..n /\ s[i] < i
      BY <2>2
    <2>4. i # 1
      BY <1>2, <2>3
    <2>5. i - 1 \in 1..n /\ i - 1 < i
      BY <1>1, <2>3, <2>4
    <2>6. s[i - 1] < s[i]
      BY <1>1, <2>3, <2>5
    <2>7. s[i - 1] < i - 1
      BY <1>2, <2>3, <2>5, <2>6
    <2>8. i - 1 \in Bad
      BY <2>5, <2>7
    <2> QED
      BY <1>1, <2>2, <2>3, <2>8
  <1>4. k \in 1..n
    BY DEF n
  <1>5. k <= s[k]
    BY <1>2, <1>3, <1>4
  <1> QED
    BY <1>5 DEF s

\* A function on 1..n is a sequence of length n.
LEMMA FunctionIsSequence ==
    ASSUME NEW S, NEW n \in Nat, NEW f \in [1..n -> S]
    PROVE  f \in Seq(S) /\ Len(f) = n
  OBVIOUS

\* The first n elements of a sequence.
LEMMA Prefix ==
    ASSUME NEW S, NEW s \in Seq(S), NEW n \in 0..Len(s)
    PROVE  /\ SubSeq(s, 1, n) \in Seq(S) /\ Len(SubSeq(s, 1, n)) = n
           /\ \A i \in 1..n : SubSeq(s, 1, n)[i] = s[i]
  OBVIOUS

-----------------------------------------------------------------------------
(* Types, and the folder: mail numbered in the order of delivery. *)

\* What the server, the poll and the history say of the folder: it holds the
\* mail delivered to it, in that order, and only that mail was ever handled.
FolderInv ==
    /\ Len(inbox) <= Len(header)
    /\ \A u \in 1..Len(inbox) : inbox[u] <= Len(header)
    /\ \A u, v \in 1..Len(inbox) : u < v => inbox[u] < inbox[v]
    /\ Worked \cup dropped \subseteq 1..Len(header)
    /\ hand.mail <= Len(header)

TypedFolder == TypeOK /\ FolderInv

\* The numbers from 1 to n.
LEMMA IntervalSize ==
    ASSUME NEW n \in Nat
    PROVE  IsFiniteSet(1..n) /\ Cardinality(1..n) = n
  <1>1. 1 \in Int /\ n \in Int
    OBVIOUS
  <1>2. IsFiniteSet(1..n) /\ Cardinality(1..n) = IF 1 > n THEN 0 ELSE n - 1 + 1
    BY <1>1, FS_Interval, Zenon
  <1> QED
    BY <1>2

\* The mail in the folder is a finite set of UIDs.
LEMMA PresentProperties ==
    ASSUME TypeOK
    PROVE  /\ Len(inbox) \in 0..MaxMail
           /\ Present \subseteq 1..Len(inbox) /\ Present \subseteq Nat \ {0}
           /\ Present \subseteq Uid \ {0}
           /\ IsFiniteSet(Present)
           /\ Cardinality(Present) \in 0..Len(inbox)
           /\ Largest(Present) \in 0..Len(inbox) /\ Largest(Present) \in Uid
           /\ \A u \in Present : u <= Largest(Present)
  <1>1. Len(inbox) \in 0..MaxMail /\ Len(inbox) \in Nat
    BY DEF TypeOK
  <1>2. Present \subseteq 1..Len(inbox)
    BY DEF Present
  <1>3. IsFiniteSet(1..Len(inbox)) /\ Cardinality(1..Len(inbox)) = Len(inbox)
    BY <1>1, IntervalSize
  <1>4. IsFiniteSet(Present) /\ Cardinality(Present) \in Nat
        /\ Cardinality(Present) <= Len(inbox)
    BY <1>2, <1>3, FS_Subset, FS_CardinalityType
  <1>5. Largest(Present) \in 0..Len(inbox) /\ \A u \in Present : u <= Largest(Present)
    BY <1>1, <1>2, LargestProperties
  <1>6. 1..Len(inbox) \subseteq Nat \ {0} /\ 1..Len(inbox) \subseteq Uid \ {0}
        /\ 0..Len(inbox) \subseteq Uid
    BY <1>1 DEF Uid
  <1> QED
    BY <1>1, <1>2, <1>4, <1>5, <1>6

LEMMA InboxType ==
    ASSUME TypeOK
    PROVE  \A u \in 1..Len(inbox) : inbox[u] \in Mail
  <1>1. inbox \in Seq(Mail)
    BY DEF TypeOK
  <1> QED
    BY <1>1

\* What a baseline moves past is mail.
LEMMA PassedType ==
    ASSUME TypeOK
    PROVE  \A b : Passed(b) \subseteq Mail
  BY InboxType, PresentProperties DEF Passed

\* A search returns UIDs above the position, in ascending order, none left out.
LEMMA SearchProperties ==
    ASSUME TypeOK, NEW since \in Nat
    PROVE  /\ SearchUids(since) \in Seq(Uid \ {0})
           /\ \A i \in 1..Len(SearchUids(since)) :
                 SearchUids(since)[i] \in Present /\ SearchUids(since)[i] > since
           /\ \A i, j \in 1..Len(SearchUids(since)) :
                 i < j => SearchUids(since)[i] < SearchUids(since)[j]
           /\ \A u \in Present : u > since =>
                 \E i \in 1..Len(SearchUids(since)) : SearchUids(since)[i] = u
  <1> DEFINE S == {u \in Present : u > since}
             s == SearchUids(since)
  <1>1. S \subseteq Present /\ IsFiniteSet(S) /\ S \subseteq Nat /\ S \subseteq Uid \ {0}
    BY PresentProperties, FS_Subset
  <1>2. /\ Cardinality(S) \in Nat
        /\ s \in [1..Cardinality(S) -> S]
        /\ \A i, j \in 1..Cardinality(S) : i < j => s[i] < s[j]
        /\ \A x \in S : \E i \in 1..Cardinality(S) : s[i] = x
    <2> HIDE DEF S
    <2>1. S = {u \in Present : u > since}
      BY DEF S
    <2>2. s = InOrder(S)
      BY <2>1 DEF SearchUids
    <2> QED
      BY <1>1, <2>2, InOrderProperties
  <1>3. s \in Seq(S) /\ Len(s) = Cardinality(S)
    <2> HIDE DEF S, s
    <2> QED
      BY <1>2, FunctionIsSequence
  <1>4. \A i \in 1..Len(s) : s[i] \in S
    <2> HIDE DEF S, s
    <2> QED
      BY <1>2, <1>3
  <1>5. s \in Seq(Uid \ {0})
    <2>1. ASSUME NEW T, NEW A \in SUBSET T, NEW t \in Seq(A) PROVE t \in Seq(T)
      OBVIOUS
    <2> HIDE DEF S, s
    <2> QED
      BY <1>1, <1>3, <2>1
  <1> QED
    BY <1>2, <1>3, <1>4, <1>5

\* The index of Message-IDs keeps its type and its size.
LEMMA RecordedType ==
    ASSUME seen \in Seq(Name), Len(seen) <= SeenCap, NEW name \in Name
    PROVE  Recorded(name) \in Seq(Name) /\ Len(Recorded(name)) <= SeenCap
  <1> DEFINE longer == IF \E i \in 1..Len(seen) : seen[i] = name
                       THEN seen ELSE Append(seen, name)
  <1>1. longer \in Seq(Name) /\ Len(longer) <= SeenCap + 1
    OBVIOUS
  <1>2. Recorded(name) = IF Len(longer) > SeenCap THEN Tail(longer) ELSE longer
    BY DEF Recorded
  <1> HIDE DEF longer
  <1>3. Len(longer) \in Nat /\ SeenCap \in Nat
    BY <1>1
  <1>4. CASE Len(longer) > SeenCap
    <2>1. longer # <<>>
      BY <1>1, <1>4
    <2>2. Tail(longer) \in Seq(Name) /\ Len(Tail(longer)) = Len(longer) - 1
      BY <1>1, <2>1
    <2> QED
      BY <1>1, <1>2, <1>3, <1>4, <2>2
  <1> QED
    BY <1>1, <1>2, <1>3, <1>4

\* A message has a name, and what is counted of it is a tally.
LEMMA MsgIdType ==
    ASSUME TypeOK, FolderInv
    PROVE  /\ MsgId \in Name /\ <<"unread", hand.uid>> \in Name
           /\ hand.uid \in Uid /\ hand.mail \in {0} \cup 1..Len(header)
  <1>1. hand.uid \in Uid /\ hand.mail \in {0} \cup 1..Len(header)
    BY DEF TypeOK, FolderInv, Mail
  <1>2. <<"unread", hand.uid>> \in Name /\ <<"generated", hand.uid>> \in Name
    BY <1>1 DEF Name
  <1>3. ASSUME hand.mail # 0, header[hand.mail] # NoId
        PROVE  header[hand.mail] \in Name
    <2>1. header \in Seq(MessageId \cup {NoId}) /\ hand.mail \in 1..Len(header)
      BY <1>1, <1>3 DEF TypeOK
    <2>2. header[hand.mail] \in MessageId \cup {NoId}
      BY <2>1
    <2> QED
      BY <1>3, <2>2 DEF Name
  <1> QED
    BY <1>1, <1>2, <1>3 DEF MsgId

LEMMA TallyTypes ==
    /\ NoTally \in Tally
    /\ [NoTally EXCEPT !.arrived = 1, !.errors = 1] \in Tally
    /\ [NoTally EXCEPT !.dups = 1] \in Tally
    /\ [NoTally EXCEPT !.arrived = 1, !.analysed = 1] \in Tally
    /\ \A a, b \in Tally : AddTally(a, b) \in Tally
  <1>1. /\ NoTally \in Tally
        /\ [NoTally EXCEPT !.arrived = 1, !.errors = 1] \in Tally
        /\ [NoTally EXCEPT !.dups = 1] \in Tally
        /\ [NoTally EXCEPT !.arrived = 1, !.analysed = 1] \in Tally
    BY DEF Tally, NoTally
  <1>2. ASSUME NEW a \in Tally, NEW b \in Tally PROVE AddTally(a, b) \in Tally
    <2>1. /\ a.arrived + b.arrived \in Nat /\ a.analysed + b.analysed \in Nat
          /\ a.dups + b.dups \in Nat /\ a.errors + b.errors \in Nat
      BY DEF Tally
    <2> QED
      BY <2>1 DEF Tally, AddTally
  <1> QED
    BY <1>1, <1>2

\* The steps of a poll that handle one message.
LEMMA HandleType ==
    ASSUME TypeOK, FolderInv
    PROVE  \A name \in Name, poll \in Tally : Handle(name, poll) =>
             /\ cp' \in [has : BOOLEAN, uv : Nat, last : Uid, sum : Tally]
             /\ seen' \in Seq(Name) /\ Len(seen') <= SeenCap
             /\ hand' \in [uid : Uid, mail : {0} \cup Mail]
             /\ hand'.mail <= Len(header)
             /\ tally' \in [sum : Tally, highest : Uid]
  <1> SUFFICES ASSUME NEW name \in Name, NEW poll \in Tally, Handle(name, poll)
               PROVE  /\ cp' \in [has : BOOLEAN, uv : Nat, last : Uid, sum : Tally]
                      /\ seen' \in Seq(Name) /\ Len(seen') <= SeenCap
                      /\ hand' \in [uid : Uid, mail : {0} \cup Mail]
                      /\ hand'.mail <= Len(header)
                      /\ tally' \in [sum : Tally, highest : Uid]
    OBVIOUS
  <1>1. hand.uid \in Uid
    BY MsgIdType
  <1>2. cp \in [has : BOOLEAN, uv : Nat, last : Uid, sum : Tally]
        /\ tally \in [sum : Tally, highest : Uid]
    BY DEF TypeOK
  <1>3. cp' \in [has : BOOLEAN, uv : Nat, last : Uid, sum : Tally]
    BY <1>1, <1>2 DEF Handle, AdvanceCheckpoint
  <1>4. seen' \in Seq(Name) /\ Len(seen') <= SeenCap
    <2>1. seen \in Seq(Name) /\ Len(seen) <= SeenCap /\ seen' = Recorded(name)
      BY DEF TypeOK, Handle, AdvanceCheckpoint
    <2> QED
      BY <2>1, RecordedType
  <1>5. hand' = [uid |-> 0, mail |-> 0]
    BY DEF Handle, Nobody
  <1>6. hand' \in [uid : Uid, mail : {0} \cup Mail] /\ hand'.mail <= Len(header)
    <2>1. 0 \in Uid /\ 0 <= Len(header)
      BY DEF Uid, TypeOK
    <2> QED
      BY <1>5, <2>1
  <1>7. tally' \in [sum : Tally, highest : Uid]
    <2>1. AddTally(tally.sum, poll) \in Tally
      BY <1>2, TallyTypes
    <2>2. tally' = [sum |-> AddTally(tally.sum, poll),
                    highest |-> IF hand.uid > tally.highest THEN hand.uid ELSE tally.highest]
      BY DEF Handle
    <2> QED
      BY <1>1, <1>2, <2>1, <2>2
  <1> QED
    BY <1>3, <1>4, <1>6, <1>7

\* Every step keeps the types and the folder in the order of delivery.
LEMMA FolderStep ==
    TypedFolder /\ [Next]_vars => TypedFolder'
  <1> SUFFICES ASSUME TypedFolder, [Next]_vars PROVE TypedFolder'
    OBVIOUS
  <1> USE DEF TypedFolder
  <1>1. CASE Deliver
    <2>1. Len(header) < MaxMail /\ header' \in Seq(MessageId \cup {NoId})
          /\ Len(header') = Len(header) + 1 /\ Len(header) \in Nat
      <3>1. header \in Seq(MessageId \cup {NoId})
        BY DEF TypeOK
      <3>2. Len(header) < MaxMail
            /\ \E id \in MessageId \cup {NoId} : header' = Append(header, id)
        BY <1>1 DEF Deliver
      <3> QED
        BY <3>1, <3>2
    <2>2. Len(header) + 1 \in Mail /\ inbox \in Seq(Mail) /\ Len(inbox) \in Nat
          /\ Len(inbox) <= Len(header) /\ inbox' = Append(inbox, Len(header) + 1)
      <3>1. Len(header) + 1 \in 1..MaxMail
        BY <2>1, Bounds
      <3>2. inbox \in Seq(Mail) /\ Len(inbox) <= Len(header)
        BY DEF TypeOK, FolderInv
      <3>3. inbox' = Append(inbox, Len(header) + 1)
        BY <1>1 DEF Deliver
      <3> QED
        BY <3>1, <3>2, <3>3 DEF Mail
    <2>3. /\ inbox' \in Seq(Mail) /\ Len(inbox') = Len(inbox) + 1
          /\ \A u \in 1..Len(inbox) : inbox'[u] = inbox[u] /\ inbox[u] \in Mail
          /\ inbox'[Len(inbox) + 1] = Len(header) + 1
      BY <2>2
    <2>4. /\ Len(inbox') <= Len(header') /\ Len(inbox') <= MaxMail
          /\ gone \subseteq 1..Len(inbox')
      <3>1. Len(inbox') <= Len(header') /\ Len(inbox') <= MaxMail
        BY <2>1, <2>2, <2>3, Bounds
      <3>2. gone \subseteq 1..Len(inbox)
        BY DEF TypeOK
      <3>3. 1..Len(inbox) \subseteq 1..Len(inbox')
        BY <2>2, <2>3
      <3> QED
        BY <3>1, <3>2, <3>3
    <2>5. UNCHANGED <<production, gone, validity, daemon, disk, cases, history, bounds>>
      BY <1>1 DEF Deliver
    <2>6. TypeOK'
      <3>1. Len(header') <= MaxMail
        BY <2>1, Bounds
      <3> QED
        BY <2>1, <2>3, <2>4, <2>5, <3>1 DEF TypeOK, daemon, history, bounds
    <2>7. \A u \in 1..Len(inbox') : u \in 1..Len(inbox) \/ u = Len(inbox) + 1
      BY <2>2, <2>3
    <2>8. \A u \in 1..Len(inbox') : inbox'[u] <= Len(header')
      BY SMTT(30), <2>1, <2>2, <2>3, <2>7 DEF FolderInv, Mail
    <2>9. \A u, v \in 1..Len(inbox') : u < v => inbox'[u] < inbox'[v]
      BY SMTT(30), <2>1, <2>2, <2>3, <2>7 DEF FolderInv, Mail
    <2>10. (Worked \cup dropped)' \subseteq 1..Len(header') /\ hand'.mail <= Len(header')
      <3>1. Worked \cup dropped \subseteq 1..Len(header) /\ hand.mail \in {0} \cup 1..Len(header)
        BY MsgIdType DEF FolderInv
      <3>2. Worked' = Worked /\ dropped' = dropped /\ hand' = hand
        BY <2>5 DEF Worked, Analysed, daemon, history
      <3>3. 1..Len(header) \subseteq 1..Len(header') /\ hand.mail <= Len(header')
        BY <2>1, <3>1
      <3> QED
        BY <3>1, <3>2, <3>3
    <2> QED
      BY <2>4, <2>6, <2>8, <2>9, <2>10 DEF FolderInv
  <1>2. CASE Expunge
    <2>1. gone' \subseteq 1..Len(inbox)
      BY <1>2 DEF Expunge, TypeOK, Present
    <2>2. expunged' \in 0..MaxExpunged
      <3>1. expunged \in 0..MaxExpunged /\ expunged < MaxExpunged /\ expunged' = expunged + 1
        BY <1>2 DEF Expunge, TypeOK
      <3> QED
        BY <3>1, Bounds
    <2> QED
      BY <1>2, <2>1, <2>2
      DEF TypeOK, FolderInv, Expunge, daemon, history, Worked, Analysed
  <1>3. CASE Rebuild
    <2> DEFINE n == Cardinality(Present)
               at == InOrder(Present)
    <2>1. n \in 0..Len(inbox) /\ n \in Nat /\ at \in [1..n -> Present]
          /\ \A i, j \in 1..n : i < j => at[i] < at[j]
      BY PresentProperties, InOrderProperties
    <2>2. /\ inbox' = [i \in 1..n |-> inbox[at[i]]] /\ gone' = {}
          /\ validity' = validity + 1 /\ validity < FirstValidity + MaxRebuilds
          /\ pc' = IF pc = "search" THEN "idle" ELSE pc
          /\ UNCHANGED <<production, header, cp, seen, todo, hand, tally, disk,
                         cases, history, bounds>>
      BY <1>3 DEF Rebuild
    <2> HIDE DEF n, at
    <2>3. /\ Present \subseteq 1..Len(inbox) /\ Len(inbox) \in 0..MaxMail
          /\ Len(inbox) <= Len(header) /\ inbox \in Seq(Mail) /\ MaxMail \in Nat
          /\ Len(header) \in Nat
      <3>1. header \in Seq(MessageId \cup {NoId})
        BY DEF TypeOK
      <3>2. Len(header) \in Nat
        BY <3>1
      <3> QED
        BY <3>2, PresentProperties, Bounds DEF TypeOK, FolderInv
    <2>4. \A i \in 1..n : at[i] \in 1..Len(inbox) /\ inbox[at[i]] \in Mail
      BY <2>1, <2>3
    <2>5. inbox' \in Seq(Mail) /\ Len(inbox') = n
      <3>1. inbox' \in [1..n -> Mail]
        BY <2>2, <2>4
      <3> QED
        BY <2>1, <3>1, FunctionIsSequence
    <2>6. Len(inbox') <= Len(header') /\ Len(inbox') <= MaxMail /\ gone' \subseteq 1..Len(inbox')
      BY <2>1, <2>2, <2>3, <2>5
    <2>7. validity' \in FirstValidity..(FirstValidity + MaxRebuilds)
      <3>1. FirstValidity \in Nat /\ validity \in FirstValidity..(FirstValidity + MaxRebuilds)
        BY DEF TypeOK
      <3> QED
        BY <2>2, <3>1, Bounds
    <2>8. pc' \in {"down", "idle", "search", "loop", "fetched", "persist"}
      BY <2>2 DEF TypeOK
    <2>9. TypeOK'
      BY <2>2, <2>5, <2>6, <2>7, <2>8 DEF TypeOK, history, bounds
    <2>10. \A i \in 1..n : inbox'[i] = inbox[at[i]] /\ inbox'[i] <= Len(header)
      BY <2>2, <2>4 DEF FolderInv
    <2>11. \A i, j \in 1..n : i < j => inbox'[i] < inbox'[j]
      BY <2>1, <2>4, <2>10 DEF FolderInv
    <2> QED
      BY <2>2, <2>5, <2>6, <2>9, <2>10, <2>11 DEF FolderInv, history, Worked, Analysed
  <1>4. CASE Start
    BY <1>4 DEF Start, TypeOK, FolderInv, server, history, bounds, Worked, Analysed
  <1>5. CASE OpenFolder
    <2>1. Largest(Present) \in Uid /\ validity \in Nat
      <3>1. FirstValidity \in Nat /\ validity \in FirstValidity..(FirstValidity + MaxRebuilds)
        BY DEF TypeOK
      <3> QED
        BY <3>1, PresentProperties, Bounds
    <2>2. SeedFromTelemetry \in [has : BOOLEAN, uv : Nat, last : Uid, sum : Tally]
      BY DEF TypeOK, SeedFromTelemetry
    <2>3. cp' \in [has : BOOLEAN, uv : Nat, last : Uid, sum : Tally]
      BY <1>5, <2>1, <2>2 DEF OpenFolder, Rebaselined
    <2>4. skipped' \subseteq Mail
      BY <1>5, PassedType DEF OpenFolder, TypeOK
    <2>5. /\ pc' = "search" /\ lastSeen' = validity
          /\ UNCHANGED <<production, server, seen, todo, hand, tally, disk, cases,
                         analysed, failed, dropped, bounds>>
      BY <1>5 DEF OpenFolder
    <2> QED
      BY <2>1, <2>3, <2>4, <2>5 DEF TypeOK, FolderInv, server, bounds, Worked, Analysed
  <1>6. CASE SkipHistorical
    <2>1. Largest(Present) \in Uid
      BY PresentProperties
    <2>2. Passed(Largest(Present)) \subseteq Mail
      BY PassedType
    <2>3. /\ cp' = [cp EXCEPT !.has = TRUE, !.last = Largest(Present)]
          /\ tally' = [sum |-> NoTally, highest |-> Largest(Present)]
          /\ skipped' = skipped \cup Passed(Largest(Present))
          /\ pc' = "persist"
          /\ UNCHANGED <<production, server, seen, todo, hand, disk, cases, analysed,
                         failed, dropped, lastSeen, bounds>>
      BY <1>6 DEF SkipHistorical
    <2>4. cp' \in [has : BOOLEAN, uv : Nat, last : Uid, sum : Tally]
      BY <2>1, <2>3 DEF TypeOK
    <2>5. tally' \in [sum : Tally, highest : Uid]
      BY <2>1, <2>3, TallyTypes
    <2> QED
      BY <2>2, <2>3, <2>4, <2>5 DEF TypeOK, FolderInv, server, bounds, Worked, Analysed
  <1>7. CASE Search
    <2>1. cp.last \in Uid /\ cp.last \in Nat
      BY DEF TypeOK, Uid
    <2> DEFINE uids == SearchUids(cp.last)
    <2>2. uids \in Seq(Uid \ {0})
      BY <2>1, SearchProperties
    <2>3. /\ todo' = IF Len(uids) > Batch THEN SubSeq(uids, 1, Batch) ELSE uids
          /\ tally' = [sum |-> NoTally, highest |-> cp.last] /\ pc' = "loop"
          /\ UNCHANGED <<production, server, cp, seen, hand, disk, cases, history, bounds>>
      BY <1>7 DEF Search
    <2> HIDE DEF uids
    <2>4. todo' \in Seq(Uid \ {0}) /\ Len(todo') <= Batch
      <3>1. CASE Len(uids) > Batch
        <4>1. Batch \in 0..Len(uids)
          BY <2>2, <3>1
        <4> QED
          BY <2>2, <2>3, <3>1, <4>1, Prefix
      <3>2. CASE ~(Len(uids) > Batch)
        BY <2>2, <2>3, <3>2
      <3> QED
        BY <3>1, <3>2
    <2>5. tally' \in [sum : Tally, highest : Uid]
      BY <2>1, <2>3, TallyTypes
    <2> QED
      BY <2>3, <2>4, <2>5 DEF TypeOK, FolderInv, server, history, bounds, Worked, Analysed
  <1>8. CASE Fetch
    <2>1. /\ todo \in Seq(Uid \ {0}) /\ todo # <<>> /\ todo' = Tail(todo)
          /\ hand' = [uid |-> Head(todo),
                      mail |-> IF Head(todo) \in Present THEN inbox[Head(todo)] ELSE 0]
          /\ pc' = "fetched"
          /\ UNCHANGED <<production, server, cp, seen, tally, disk, cases, history, bounds>>
      BY <1>8 DEF Fetch, TypeOK
    <2>2. Head(todo) \in Uid \ {0} /\ todo' \in Seq(Uid \ {0}) /\ Len(todo') <= Batch
      <3>1. Head(todo) \in Uid \ {0} /\ todo' \in Seq(Uid \ {0}) /\ Len(todo') = Len(todo) - 1
            /\ Len(todo) \in Nat
        BY <2>1
      <3>2. Len(todo) <= Batch /\ Batch \in Nat
        BY DEF TypeOK
      <3> QED
        BY <3>1, <3>2
    <2>3. \A u \in Present : inbox[u] \in Mail /\ inbox[u] <= Len(header)
      BY InboxType, PresentProperties DEF FolderInv
    <2>4. hand' \in [uid : Uid, mail : {0} \cup Mail] /\ hand'.mail <= Len(header)
      <3>1. 0 <= Len(header)
        BY DEF TypeOK
      <3> QED
        BY <2>1, <2>2, <2>3, <3>1
    <2> QED
      BY <2>1, <2>2, <2>4 DEF TypeOK, FolderInv, server, history, bounds, Worked, Analysed
  <1>9. ASSUME NEW name \in Name, NEW poll \in Tally, Handle(name, poll),
               cases' \in [Mail -> {0} \cup Mail], losses' \in 0..MaxLosses,
               analysed' \in [Mail -> Nat],
               failed' \subseteq Mail, dropped' \subseteq Mail,
               (Worked \cup dropped)' \subseteq 1..Len(header)
        PROVE  TypedFolder'
    <2>1. /\ cp' \in [has : BOOLEAN, uv : Nat, last : Uid, sum : Tally]
          /\ seen' \in Seq(Name) /\ Len(seen') <= SeenCap
          /\ hand' \in [uid : Uid, mail : {0} \cup Mail]
          /\ hand'.mail <= Len(header)
          /\ tally' \in [sum : Tally, highest : Uid]
      BY <1>9, HandleType
    <2>2. /\ pc' = "loop"
          /\ UNCHANGED <<production, server, todo, disk, skipped, lastSeen, expunged,
                         aborts, crashes>>
      BY <1>9 DEF Handle
    <2>3. TypeOK'
      BY <1>9, <2>1, <2>2 DEF TypeOK, server
    <2> QED
      BY <1>9, <2>1, <2>2, <2>3 DEF FolderInv, server
  <1>10. /\ hand.mail \in {0} \cup 1..Len(header) /\ 1..Len(header) \subseteq Mail
         /\ Worked \cup dropped \subseteq 1..Len(header)
         /\ cases \in [Mail -> {0} \cup Mail] /\ losses \in 0..MaxLosses
         /\ analysed \in [Mail -> Nat] /\ failed \subseteq Mail /\ dropped \subseteq Mail
         /\ hand.mail \in {0} \cup Mail
    <2>1. Len(header) \in Nat /\ Len(header) <= MaxMail
      <3>1. header \in Seq(MessageId \cup {NoId}) /\ Len(header) <= MaxMail
        BY DEF TypeOK
      <3> QED
        BY <3>1
    <2>2. 1..Len(header) \subseteq Mail
      BY <2>1, Bounds DEF Mail
    <2>3. hand.mail \in {0} \cup 1..Len(header)
      BY MsgIdType
    <2> QED
      BY <2>2, <2>3 DEF TypeOK, FolderInv
  <1>11. CASE MessageError
    <2>1. PICK name \in {<<"unread", hand.uid>>, MsgId} :
             Handle(name, [NoTally EXCEPT !.arrived = 1, !.errors = 1])
      BY <1>11 DEF MessageError
    <2>2. /\ UNCHANGED <<cases, analysed, dropped, losses>>
          /\ failed' = failed \cup ({hand.mail} \ {0})
      BY <1>11 DEF MessageError
    <2>3. failed' \subseteq Mail /\ (Worked \cup dropped)' \subseteq 1..Len(header)
      BY <1>10, <2>2 DEF Worked, Analysed
    <2> QED
      BY <1>9, <1>10, <2>1, <2>2, <2>3, MsgIdType, TallyTypes
  <1>12. CASE Duplicate
    <2>1. /\ Handle(MsgId, [NoTally EXCEPT !.dups = 1])
          /\ UNCHANGED <<cases, analysed, failed, losses>>
          /\ dropped' = dropped \cup ({hand.mail} \ {0})
      BY <1>12 DEF Duplicate
    <2>2. dropped' \subseteq Mail /\ (Worked \cup dropped)' \subseteq 1..Len(header)
      BY <1>10, <2>1 DEF Worked, Analysed
    <2> QED
      BY <1>9, <1>10, <2>1, <2>2, MsgIdType, TallyTypes
  <1>13. CASE Analyse
    <2>1. /\ Handle(MsgId, [NoTally EXCEPT !.arrived = 1, !.analysed = 1])
          /\ analysed' = IF hand.mail = 0 THEN analysed
                         ELSE [analysed EXCEPT ![hand.mail] = @ + 1]
          /\ SaveCase
          /\ UNCHANGED <<failed, dropped>>
      BY <1>13 DEF Analyse
    <2>2. analysed' \in [Mail -> Nat] /\ \A m \in Mail : analysed'[m] # analysed[m] => m = hand.mail
      BY SMTT(30), <1>10, <2>1
    <2>3. (Worked \cup dropped)' \subseteq 1..Len(header)
      BY <1>10, <2>1, <2>2 DEF Worked, Analysed
    <2>4. cases' \in [Mail -> {0} \cup Mail] /\ losses' \in 0..MaxLosses
      <3>1. losses' = losses \/ (losses < MaxLosses /\ losses' = losses + 1)
        BY <2>1 DEF SaveCase
      <3>2. losses' \in 0..MaxLosses
        BY <1>10, <3>1, Bounds
      <3> QED
        BY <1>10, <2>1, <3>2 DEF SaveCase
    <2> QED
      BY <1>9, <1>10, <2>1, <2>2, <2>3, <2>4, MsgIdType, TallyTypes
  <1>14. CASE RecordStats
    <2>1. AddTally(cp.sum, tally.sum) \in Tally
      BY TallyTypes DEF TypeOK
    <2>2. /\ cp' = [cp EXCEPT !.has = TRUE,
                              !.last = IF tally.highest > @ THEN tally.highest ELSE @,
                              !.sum = AddTally(@, tally.sum)]
          /\ pc' = "persist"
          /\ UNCHANGED <<production, server, seen, todo, hand, tally, disk, cases,
                         history, bounds>>
      BY <1>14 DEF RecordStats, RecordPollStats
    <2>3. cp' \in [has : BOOLEAN, uv : Nat, last : Uid, sum : Tally]
      BY <2>1, <2>2 DEF TypeOK
    <2> QED
      BY <2>2, <2>3 DEF TypeOK, FolderInv, server, history, bounds, Worked, Analysed
  <1>15. CASE Persist
    <2>1. AddTally(disk.sum, tally.sum) \in Tally
      BY TallyTypes DEF TypeOK
    <2>2. disk' \in [has : BOOLEAN, last : Uid, sum : Tally] /\ losses' \in 0..MaxLosses
      <3>1. losses' = losses \/ (losses < MaxLosses /\ losses' = losses + 1)
        BY <1>15 DEF Persist
      <3>2. losses \in 0..MaxLosses /\ tally.highest \in Uid
            /\ disk \in [has : BOOLEAN, last : Uid, sum : Tally]
        BY DEF TypeOK
      <3>3. losses' \in 0..MaxLosses
        BY <3>1, <3>2, Bounds
      <3>4. disk' = disk \/ RecordPoll(tally.sum, tally.highest)
        BY <1>15 DEF Persist
      <3>5. disk' \in [has : BOOLEAN, last : Uid, sum : Tally]
        <4>1. CASE disk' = disk
          BY <3>2, <4>1
        <4>2. CASE RecordPoll(tally.sum, tally.highest)
          <5>1. disk' = [has |-> TRUE,
                         last |-> IF tally.highest > disk.last THEN tally.highest ELSE disk.last,
                         sum |-> AddTally(disk.sum, tally.sum)]
            BY <4>2 DEF RecordPoll
          <5> QED
            BY <2>1, <3>2, <5>1
        <4> QED
          BY <3>4, <4>1, <4>2
      <3> QED
        BY <3>3, <3>5
    <2>3. tally' \in [sum : Tally, highest : Uid]
      <3>1. tally' = [sum |-> NoTally, highest |-> 0] /\ 0 \in Uid
        BY <1>15 DEF Persist, Uid
      <3> QED
        BY <3>1, TallyTypes
    <2>4. /\ pc' = "idle"
          /\ UNCHANGED <<production, server, cp, seen, todo, hand, cases, history,
                         expunged, aborts, crashes>>
      BY <1>15 DEF Persist
    <2> QED
      BY <2>2, <2>3, <2>4 DEF TypeOK, FolderInv, server, history, Worked, Analysed
  <1>16. /\ [sum |-> NoTally, highest |-> 0] \in [sum : Tally, highest : Uid]
         /\ Nobody \in [uid : Uid, mail : {0} \cup Mail] /\ Nobody.mail = 0
         /\ <<>> \in Seq(Uid \ {0}) /\ <<>> \in Seq(Name)
         /\ Len(<<>>) <= Batch /\ Len(<<>>) <= SeenCap
         /\ NoCheckpoint \in [has : BOOLEAN, uv : Nat, last : Uid, sum : Tally]
         /\ 0 <= Len(header)
    BY TallyTypes DEF Uid, Nobody, NoCheckpoint, TypeOK
  <1>17. CASE PollAborts
    <2>1. aborts' \in 0..MaxAborts
      <3>1. aborts \in 0..MaxAborts /\ aborts < MaxAborts /\ aborts' = aborts + 1
        BY <1>17 DEF PollAborts, TypeOK
      <3> QED
        BY <3>1, Bounds
    <2>2. /\ pc' = "idle" /\ todo' = <<>> /\ hand' = Nobody
          /\ tally' = [sum |-> NoTally, highest |-> 0]
          /\ UNCHANGED <<production, server, cp, seen, disk, cases, history,
                         expunged, losses, crashes>>
      BY <1>17 DEF PollAborts
    <2>3. TypeOK'
      BY <1>16, <2>1, <2>2 DEF TypeOK, server, history
    <2>4. FolderInv'
      BY <1>16, <2>2 DEF FolderInv, server, history, Worked, Analysed
    <2> QED
      BY <2>3, <2>4
  <1>18. CASE Crash
    <2>1. crashes' \in 0..MaxCrashes
      <3>1. crashes \in 0..MaxCrashes /\ crashes < MaxCrashes /\ crashes' = crashes + 1
        BY <1>18 DEF Crash, TypeOK
      <3> QED
        BY <3>1, Bounds
    <2>2. /\ pc' = "down" /\ cp' = NoCheckpoint /\ seen' = <<>> /\ todo' = <<>>
          /\ hand' = Nobody /\ tally' = [sum |-> NoTally, highest |-> 0]
          /\ UNCHANGED <<production, server, disk, cases, history, expunged, aborts, losses>>
      BY <1>18 DEF Crash
    <2>3. TypeOK'
      BY <1>16, <2>1, <2>2 DEF TypeOK, server, history
    <2>4. FolderInv'
      BY <1>16, <2>2 DEF FolderInv, server, history, Worked, Analysed
    <2> QED
      BY <2>3, <2>4
  <1>19. CASE UNCHANGED vars
    BY <1>19 DEF vars, server, daemon, history, bounds, TypeOK, FolderInv, Worked, Analysed
  <1> QED
    BY <1>1, <1>2, <1>3, <1>4, <1>5, <1>6, <1>7, <1>8, <1>11, <1>12, <1>13, <1>14, <1>15,
       <1>17, <1>18, <1>19 DEF Next, Poll

LEMMA TypedFolderInvariant == Spec => []TypedFolder
  <1>1. Init => TypedFolder
    <2> SUFFICES ASSUME Init PROVE TypedFolder
      OBVIOUS
    <2>1. /\ 0 \in Uid /\ <<>> \in Seq(Mail) /\ <<>> \in Seq(Name) /\ <<>> \in Seq(Uid \ {0})
          /\ <<>> \in Seq(MessageId \cup {NoId}) /\ Len(<<>>) = 0 /\ Nobody.mail = 0
          /\ Nobody \in [uid : Uid, mail : {0} \cup Mail]
          /\ NoCheckpoint \in [has : BOOLEAN, uv : Nat, last : Uid, sum : Tally]
          /\ NoTelemetry \in [has : BOOLEAN, last : Uid, sum : Tally]
          /\ [sum |-> NoTally, highest |-> 0] \in [sum : Tally, highest : Uid]
      BY TallyTypes DEF Uid, Nobody, NoCheckpoint, NoTelemetry
    <2>2. /\ Len(header) <= MaxMail /\ Len(inbox) <= MaxMail
          /\ Len(seen) <= SeenCap /\ Len(todo) <= Batch
          /\ validity \in FirstValidity..(FirstValidity + MaxRebuilds) /\ lastSeen \in Nat
      BY <2>1, Bounds DEF Init
    <2>3. cases \in [Mail -> {0} \cup Mail] /\ analysed \in [Mail -> Nat]
      BY DEF Init
    <2>4. expunged \in 0..MaxExpunged /\ aborts \in 0..MaxAborts
          /\ losses \in 0..MaxLosses /\ crashes \in 0..MaxCrashes
      BY Bounds DEF Init
    <2>5. TypeOK
      BY <2>1, <2>2, <2>3, <2>4 DEF Init, TypeOK
    <2>6. Worked \cup dropped = {}
      BY DEF Init, Worked, Analysed
    <2> QED
      BY <2>1, <2>5, <2>6 DEF TypedFolder, FolderInv, Init
  <1> QED
    BY <1>1, FolderStep, PTL DEF Spec

\* The state of folder, daemon and disk keeps its types, the position and every
\* UID within the folder's bound and index and batch within theirs, for any
\* folder, batch, index and bounds.
THEOREM PollerTypeCorrect == Spec => []TypeOK
  <1>1. TypedFolder => TypeOK
    BY DEF TypedFolder
  <1> QED
    BY <1>1, TypedFolderInvariant, PTL

-----------------------------------------------------------------------------
(* The daemon: the poll in progress and what it remembers. *)

\* What a poll has still to do lies ahead of the checkpoint, in ascending order.
LoopInv ==
    /\ pc \in {"loop", "fetched", "persist"} => tally.highest = cp.last
    /\ \A i, j \in 1..Len(todo) : i < j => todo[i] < todo[j]
    /\ pc = "loop" => \A i \in 1..Len(todo) : todo[i] > cp.last
    /\ pc = "fetched" => hand.uid > cp.last /\ \A i \in 1..Len(todo) : todo[i] > hand.uid

\* A daemon without totals has no position either: it has polled nothing, unless
\* it does not poll for production.  One that never died has what the file has.
MemoryInv ==
    /\ pc = "down" => ~cp.has /\ cp.last = 0 /\ seen = <<>>
    /\ production /\ ~cp.has =>
          cp.last = 0 /\ seen = <<>> /\ pc \notin {"loop", "fetched", "persist"}
    /\ pc = "persist" => cp.has
    /\ crashes = 0 /\ disk.has => cp.has

\* What advancing past a message changes in the checkpoint.
LEMMA HandleChange ==
    ASSUME TypedFolder, LoopInv
    PROVE  \A name \in Name, poll \in Tally : Handle(name, poll) =>
             /\ pc = "fetched" /\ pc' = "loop"
             /\ hand.uid > cp.last /\ cp'.last = hand.uid
             /\ cp'.has = cp.has /\ cp'.uv = cp.uv /\ cp'.sum = cp.sum
             /\ tally'.highest = hand.uid /\ tally'.sum = AddTally(tally.sum, poll)
             /\ hand' = Nobody /\ todo' = todo /\ seen' = Recorded(name)
             /\ UNCHANGED <<production, server, disk, skipped, lastSeen, expunged,
                            aborts, crashes>>
  <1> SUFFICES ASSUME NEW name \in Name, NEW poll \in Tally, Handle(name, poll)
               PROVE  /\ pc = "fetched" /\ pc' = "loop"
                      /\ hand.uid > cp.last /\ cp'.last = hand.uid
                      /\ cp'.has = cp.has /\ cp'.uv = cp.uv /\ cp'.sum = cp.sum
                      /\ tally'.highest = hand.uid /\ tally'.sum = AddTally(tally.sum, poll)
                      /\ hand' = Nobody /\ todo' = todo /\ seen' = Recorded(name)
                      /\ UNCHANGED <<production, server, disk, skipped, lastSeen,
                                     expunged, aborts, crashes>>
    OBVIOUS
  <1>1. /\ pc = "fetched" /\ pc' = "loop" /\ hand' = Nobody /\ seen' = Recorded(name)
        /\ cp' = IF hand.uid > cp.last THEN [cp EXCEPT !.last = hand.uid] ELSE cp
        /\ tally' = [sum |-> AddTally(tally.sum, poll),
                     highest |-> IF hand.uid > tally.highest THEN hand.uid ELSE tally.highest]
        /\ UNCHANGED <<production, server, todo, disk, skipped, lastSeen, expunged,
                       aborts, crashes>>
    BY DEF Handle, AdvanceCheckpoint
  <1>2. /\ cp \in [has : BOOLEAN, uv : Nat, last : Uid, sum : Tally]
        /\ hand.uid > cp.last /\ tally.highest = cp.last
    BY <1>1 DEF TypedFolder, TypeOK, LoopInv
  <1> QED
    BY <1>1, <1>2

\* A step that handles a message is MessageError, Duplicate or Analyse.
LEMMA HandleSteps ==
    ASSUME TypedFolder, MessageError \/ Duplicate \/ Analyse
    PROVE  \E name \in Name, poll \in Tally : Handle(name, poll)
  BY MsgIdType, TallyTypes DEF TypedFolder, MessageError, Duplicate, Analyse

\* What opening the folder does to the checkpoint.
LEMMA OpenFolderChange ==
    ASSUME TypedFolder, MemoryInv, OpenFolder
    PROVE  /\ pc = "idle" /\ pc' = "search" /\ lastSeen' = validity /\ cp'.uv = validity
           /\ UNCHANGED <<production, server, seen, todo, hand, tally, disk, cases,
                          analysed, failed, dropped, bounds>>
           /\ cp'.has <=> cp.has \/ (production /\ disk.has)
           /\ \/ /\ cp'.last = cp.last /\ cp'.sum = cp.sum /\ (cp'.has <=> cp.has)
                 /\ cp.uv = validity \/ ~cp.has
                 /\ skipped' = skipped
              \/ /\ production /\ ~cp.has /\ disk.has /\ cp.uv = validity
                 /\ cp'.last = disk.last /\ cp'.sum = disk.sum
                 /\ skipped' = skipped
              \/ /\ cp'.has /\ cp'.last = Largest(Present) /\ cp.uv # validity
                 /\ cp'.sum = (IF cp.has THEN cp.sum ELSE disk.sum)
                 /\ skipped' = IF validity = lastSeen THEN skipped
                               ELSE skipped \cup Passed(Largest(Present))
  <1>1. /\ cp \in [has : BOOLEAN, uv : Nat, last : Uid, sum : Tally]
        /\ disk \in [has : BOOLEAN, last : Uid, sum : Tally]
    BY DEF TypedFolder, TypeOK
  <1> DEFINE seeded == SeedFromTelemetry
  <1>2. /\ pc = "idle" /\ pc' = "search" /\ lastSeen' = validity
        /\ UNCHANGED <<production, server, seen, todo, hand, tally, disk, cases,
                       analysed, failed, dropped, bounds>>
    BY DEF OpenFolder
  <1>3. /\ seeded \in [has : BOOLEAN, uv : Nat, last : Uid, sum : Tally]
        /\ seeded.uv = cp.uv /\ (seeded.has <=> cp.has \/ (production /\ disk.has))
        /\ cp.has \/ ~(production /\ disk.has) => seeded = cp
        /\ production /\ ~cp.has /\ disk.has =>
              seeded.last = disk.last /\ seeded.sum = disk.sum
    <2>1. CASE production /\ ~cp.has /\ disk.has
      <3>1. seeded = [cp EXCEPT !.has = TRUE, !.last = disk.last, !.sum = disk.sum]
        BY <2>1 DEF SeedFromTelemetry
      <3> HIDE DEF seeded
      <3> QED
        BY <1>1, <2>1, <3>1
    <2>2. CASE ~(production /\ ~cp.has /\ disk.has)
      <3>1. seeded = cp
        BY <2>2 DEF SeedFromTelemetry
      <3> HIDE DEF seeded
      <3> QED
        BY <1>1, <2>2, <3>1
    <2> QED
      BY <2>1, <2>2
  <1> HIDE DEF seeded
  <1>4. CASE seeded.has /\ seeded.uv # validity
    <2>1. cp' = [seeded EXCEPT !.uv = validity, !.last = Largest(Present)]
          /\ skipped' = IF validity = lastSeen THEN skipped ELSE skipped \cup Passed(cp'.last)
      BY <1>4 DEF OpenFolder, Rebaselined, seeded
    <2>2. cp'.has /\ cp'.uv = validity /\ cp'.last = Largest(Present) /\ cp'.sum = seeded.sum
      BY <1>3, <1>4, <2>1
    <2> QED
      BY <1>2, <1>3, <1>4, <2>1, <2>2
  <1>5. CASE seeded.has /\ seeded.uv = validity
    <2>1. cp' = seeded /\ skipped' = skipped
      BY <1>5 DEF OpenFolder, seeded
    <2> QED
      BY <1>2, <1>3, <1>5, <2>1
  <1>6. CASE ~seeded.has
    <2>1. cp' = [seeded EXCEPT !.uv = validity] /\ skipped' = skipped
      BY <1>6 DEF OpenFolder, seeded
    <2>2. seeded = cp /\ ~cp.has
      BY <1>1, <1>3, <1>6
    <2> QED
      BY <1>2, <1>3, <1>6, <2>1, <2>2
  <1> QED
    BY <1>4, <1>5, <1>6

\* Every step keeps the poll ahead of its checkpoint.
LEMMA LoopStep ==
    TypedFolder /\ LoopInv /\ [Next]_vars => LoopInv'
  <1> SUFFICES ASSUME TypedFolder, LoopInv, [Next]_vars PROVE LoopInv'
    OBVIOUS
  <1>1. CASE Deliver \/ Expunge \/ Rebuild \/ UNCHANGED vars
    BY <1>1 DEF Deliver, Expunge, Rebuild, vars, daemon, LoopInv
  <1>2. CASE Start
    BY <1>2 DEF Start, LoopInv
  <1>3. CASE OpenFolder
    BY <1>3 DEF OpenFolder, LoopInv
  <1>4. CASE SkipHistorical
    <2>1. cp'.last = Largest(Present) /\ tally'.highest = Largest(Present)
      BY <1>4 DEF SkipHistorical, TypedFolder, TypeOK
    <2> QED
      BY <1>4, <2>1 DEF SkipHistorical, LoopInv
  <1>5. CASE Search
    <2> DEFINE uids == SearchUids(cp.last)
    <2>1. cp.last \in Nat
      BY DEF TypedFolder, TypeOK, Uid
    <2>2. /\ uids \in Seq(Uid \ {0})
          /\ \A i \in 1..Len(uids) : uids[i] > cp.last
          /\ \A i, j \in 1..Len(uids) : i < j => uids[i] < uids[j]
      BY <2>1, SearchProperties DEF TypedFolder
    <2>3. /\ todo' = IF Len(uids) > Batch THEN SubSeq(uids, 1, Batch) ELSE uids
          /\ tally' = [sum |-> NoTally, highest |-> cp.last] /\ pc' = "loop" /\ cp' = cp
      BY <1>5 DEF Search
    <2> HIDE DEF uids
    <2>4. Len(todo') <= Len(uids) /\ Len(todo') \in Nat
          /\ \A i \in 1..Len(todo') : todo'[i] = uids[i]
      <3>1. CASE Len(uids) > Batch
        <4>1. Batch \in 0..Len(uids)
          BY <2>2, <3>1
        <4> QED
          BY <2>2, <2>3, <3>1, <4>1, Prefix
      <3>2. CASE ~(Len(uids) > Batch)
        BY <2>2, <2>3, <3>2
      <3> QED
        BY <3>1, <3>2
    <2>5. 1..Len(todo') \subseteq 1..Len(uids)
      BY <2>2, <2>4
    <2> QED
      BY <2>2, <2>3, <2>4, <2>5 DEF LoopInv
  <1>6. CASE Fetch
    <2>1. /\ todo \in Seq(Uid \ {0}) /\ todo # <<>> /\ todo' = Tail(todo)
          /\ hand'.uid = Head(todo) /\ pc = "loop" /\ pc' = "fetched" /\ cp' = cp /\ tally' = tally
      BY <1>6 DEF Fetch, TypedFolder, TypeOK
    <2>2. Len(todo') \in Nat /\ Len(todo') = Len(todo) - 1 /\ hand'.uid = todo[1]
          /\ \A i \in 1..Len(todo') : todo'[i] = todo[i + 1] /\ i + 1 \in 1..Len(todo)
                                     /\ 1 \in 1..Len(todo) /\ 1 < i + 1
      BY <2>1
    <2>3. \A i, j \in 1..Len(todo') : i < j => i + 1 < j + 1
      BY <2>2
    <2>4. hand'.uid > cp.last
      BY <2>1, <2>2 DEF LoopInv
    <2>5. \A i \in 1..Len(todo') : todo'[i] > hand'.uid
      <3> SUFFICES ASSUME NEW i \in 1..Len(todo') PROVE todo'[i] > hand'.uid
        OBVIOUS
      <3>1. todo[1] < todo[i + 1] /\ todo[1] \in Uid /\ todo[i + 1] \in Uid
        BY <2>1, <2>2 DEF LoopInv
      <3> QED
        BY <2>2, <3>1 DEF Uid
    <2> QED
      BY <2>1, <2>2, <2>3, <2>4, <2>5 DEF LoopInv
  <1>7. CASE MessageError \/ Duplicate \/ Analyse
    <2>1. PICK name \in Name, poll \in Tally : Handle(name, poll)
      BY <1>7, HandleSteps
    <2>2. /\ pc = "fetched" /\ pc' = "loop" /\ cp'.last = hand.uid
          /\ tally'.highest = hand.uid /\ todo' = todo
      BY <2>1, HandleChange
    <2> QED
      BY <2>2 DEF LoopInv
  <1>8. CASE RecordStats
    <2>1. cp'.last = cp.last /\ tally' = tally /\ todo' = todo /\ pc' = "persist" /\ pc = "loop"
      BY <1>8 DEF RecordStats, RecordPollStats, TypedFolder, TypeOK, LoopInv
    <2> QED
      BY <2>1 DEF LoopInv
  <1>9. CASE Persist
    BY <1>9 DEF Persist, LoopInv
  <1>10. CASE PollAborts \/ Crash
    BY <1>10 DEF PollAborts, Crash, LoopInv
  <1> QED
    BY <1>1, <1>2, <1>3, <1>4, <1>5, <1>6, <1>7, <1>8, <1>9, <1>10 DEF Next, Poll

\* Every step keeps what a daemon without totals is.
LEMMA MemoryStep ==
    TypedFolder /\ LoopInv /\ MemoryInv /\ [Next]_vars => MemoryInv'
  <1> SUFFICES ASSUME TypedFolder, LoopInv, MemoryInv, [Next]_vars PROVE MemoryInv'
    OBVIOUS
  <1>0. /\ cp \in [has : BOOLEAN, uv : Nat, last : Uid, sum : Tally]
        /\ crashes \in Nat /\ production \in BOOLEAN
    BY Bounds DEF TypedFolder, TypeOK
  <1>1. CASE Deliver \/ Expunge \/ Rebuild \/ UNCHANGED vars
    BY SMTT(30), <1>1 DEF Deliver, Expunge, Rebuild, vars, daemon, bounds, MemoryInv
  <1>2. CASE Start
    BY <1>2 DEF Start, bounds, MemoryInv
  <1>3. CASE OpenFolder
    <2>1. /\ pc' = "search" /\ (cp'.has <=> cp.has \/ (production /\ disk.has))
          /\ UNCHANGED <<production, seen, disk, crashes>>
          /\ cp'.has \/ cp'.last = cp.last
      BY <1>3, OpenFolderChange DEF bounds
    <2> QED
      BY <2>1 DEF MemoryInv
  <1>4. CASE SkipHistorical
    <2>1. cp'.has /\ pc' = "persist"
      BY <1>0, <1>4 DEF SkipHistorical
    <2> QED
      BY <2>1 DEF MemoryInv
  <1>5. CASE Search
    BY <1>5 DEF Search, InitialSync, MemoryInv, bounds
  <1>6. CASE Fetch
    BY <1>6 DEF Fetch, MemoryInv, bounds
  <1>7. CASE MessageError \/ Duplicate \/ Analyse
    <2>1. PICK name \in Name, poll \in Tally : Handle(name, poll)
      BY <1>7, HandleSteps
    <2>2. /\ pc = "fetched" /\ pc' = "loop" /\ cp'.has = cp.has
          /\ UNCHANGED <<production, disk, crashes>>
      BY <2>1, HandleChange
    <2> QED
      BY <2>2 DEF MemoryInv
  <1>8. CASE RecordStats
    <2>1. cp'.has /\ pc' = "persist"
      BY <1>0, <1>8 DEF RecordStats, RecordPollStats
    <2> QED
      BY <2>1 DEF MemoryInv
  <1>9. CASE Persist
    BY <1>9 DEF Persist, MemoryInv
  <1>10. CASE PollAborts
    BY <1>10 DEF PollAborts, MemoryInv
  <1>11. CASE Crash
    <2>1. ~cp'.has /\ cp'.last = 0 /\ seen' = <<>> /\ pc' = "down" /\ crashes' # 0
      BY <1>0, <1>11 DEF Crash, NoCheckpoint
    <2> QED
      BY <2>1 DEF MemoryInv
  <1> QED
    BY <1>1, <1>2, <1>3, <1>4, <1>5, <1>6, <1>7, <1>8, <1>9, <1>10, <1>11 DEF Next, Poll

-----------------------------------------------------------------------------
(* No mail is analysed twice by one daemon. *)

\* A mail ahead of the checkpoint, or in hand, was analysed by no daemon that is
\* still running; the one in hand comes no second time.
OnceInv ==
    /\ \A u \in Present : u > cp.last => analysed[inbox[u]] <= crashes
    /\ pc = "fetched" /\ hand.mail # 0 =>
          /\ analysed[hand.mail] <= crashes
          /\ \A u \in Present : inbox[u] = hand.mail => u <= hand.uid
    /\ AnalysedOnce

\* Positions and counters are numbers.
LEMMA Numbers ==
    ASSUME TypedFolder
    PROVE  /\ cp.last \in Nat /\ disk.last \in Nat /\ hand.uid \in Nat /\ hand.mail \in Nat
           /\ tally.highest \in Nat /\ crashes \in Nat /\ cp.uv \in Nat /\ lastSeen \in Nat
           /\ losses \in Nat /\ expunged \in Nat /\ validity \in Nat
           /\ \A u \in Present : u \in Nat /\ inbox[u] \in Mail
           /\ \A m \in Mail : m \in Nat /\ analysed[m] \in Nat
  <1>1. /\ cp.last \in Uid /\ disk.last \in Uid /\ hand.uid \in Uid /\ hand.mail \in {0} \cup Mail
        /\ tally.highest \in Uid /\ cp.uv \in Nat /\ lastSeen \in Nat
        /\ losses \in 0..MaxLosses /\ expunged \in 0..MaxExpunged /\ crashes \in 0..MaxCrashes
        /\ validity \in FirstValidity..(FirstValidity + MaxRebuilds)
        /\ analysed \in [Mail -> Nat]
    BY DEF TypedFolder, TypeOK
  <1>2. Uid \subseteq Nat /\ Mail \subseteq Nat /\ FirstValidity \in Nat
    BY DEF Uid, Mail
  <1>3. validity \in Nat /\ losses \in Nat /\ expunged \in Nat /\ crashes \in Nat
    BY <1>1, <1>2, Bounds
  <1>4. \A u \in Present : u \in Nat /\ inbox[u] \in Mail
    BY PresentProperties, InboxType DEF TypedFolder
  <1>5. \A m \in Mail : m \in Nat /\ analysed[m] \in Nat
    <2>1. analysed \in [Mail -> Nat]
      BY <1>1
    <2>2. \A m \in Mail : analysed[m] \in Nat
      BY <2>1
    <2> QED
      BY <1>2, <2>2
  <1>6. hand.mail \in Nat
    BY <1>1, Bounds DEF Mail
  <1>7. cp.last \in Nat /\ disk.last \in Nat /\ hand.uid \in Nat /\ tally.highest \in Nat
    BY <1>1, <1>2
  <1> QED
    BY <1>1, <1>3, <1>4, <1>5, <1>6, <1>7

\* And after a step.
LEMMA NextPosition ==
    ASSUME TypedFolder'
    PROVE  cp'.last \in Nat
  <1>1. cp'.last \in Uid
    BY DEF TypedFolder, TypeOK
  <1> QED
    BY <1>1 DEF Uid

\* OnceInv when nothing more is analysed and no position moves back to mail.
LEMMA OnceAdvance ==
    ASSUME TypedFolder, TypedFolder', OnceInv,
           UNCHANGED <<header, inbox, gone>>, UNCHANGED <<analysed, crashes>>,
           (\A u \in Present : u <= cp'.last) \/ cp'.last >= cp.last,
           pc' # "fetched" \/ (pc = "fetched" /\ UNCHANGED hand)
    PROVE  OnceInv'
  <1>1. Present' = Present /\ inbox' = inbox /\ \A u \in Present : u \in Nat
    BY Numbers DEF Present
  <1>2. cp.last \in Nat /\ cp'.last \in Nat
    BY NextPosition, Numbers
  <1>3. \A u \in Present : u > cp'.last => u > cp.last
    BY <1>1, <1>2
  <1>4. AnalysedOnce'
    BY DEF OnceInv, AnalysedOnce
  <1> QED
    BY <1>1, <1>3, <1>4 DEF OnceInv

\* OnceInv when a message is handled, and analysed only if it is the one in hand.
LEMMA OnceHandle ==
    ASSUME TypedFolder, TypedFolder', LoopInv, OnceInv,
           NEW name \in Name, NEW poll \in Tally, Handle(name, poll),
           \/ UNCHANGED analysed
           \/ hand.mail # 0 /\ analysed' = [analysed EXCEPT ![hand.mail] = @ + 1]
    PROVE  OnceInv'
  <1>1. /\ pc = "fetched" /\ pc' = "loop" /\ hand.uid > cp.last /\ cp'.last = hand.uid
        /\ inbox' = inbox /\ gone' = gone /\ crashes' = crashes
    BY HandleChange DEF server
  <1>2. Present' = Present /\ \A u \in Present : u \in Nat /\ inbox[u] \in Mail
    BY <1>1, Numbers DEF Present
  <1>3. \A m \in Mail : m # hand.mail => analysed'[m] = analysed[m]
    BY DEF TypedFolder, TypeOK
  <1>4. ASSUME hand.mail # 0 PROVE hand.mail \in Mail /\ analysed'[hand.mail] <= crashes + 1
    <2>1. hand.mail \in Mail /\ analysed[hand.mail] \in Nat /\ analysed[hand.mail] <= crashes
          /\ crashes \in Nat /\ analysed \in [Mail -> Nat]
      BY <1>1, <1>4, Numbers DEF OnceInv, TypedFolder, TypeOK
    <2> QED
      BY <2>1
  <1>5. AnalysedOnce'
    <2> SUFFICES ASSUME NEW m \in Mail PROVE analysed'[m] <= 1 + crashes
      BY <1>1 DEF AnalysedOnce
    <2>1. CASE m = hand.mail
      <3>1. hand.mail # 0
        BY <2>1 DEF Mail
      <3> QED
        BY <1>4, <2>1, <3>1, Numbers
    <2>2. CASE m # hand.mail
      BY <1>3, <2>2 DEF OnceInv, AnalysedOnce
    <2> QED
      BY <2>1, <2>2
  <1>6. ASSUME NEW u \in Present, u > hand.uid PROVE analysed'[inbox[u]] <= crashes
    <2>1. u \in Nat /\ inbox[u] \in Mail /\ hand.uid \in Nat /\ cp.last \in Nat
      BY Numbers
    <2>2. inbox[u] # hand.mail
      <3>1. inbox[u] # 0
        BY <2>1 DEF Mail
      <3>2. CASE hand.mail = 0
        BY <3>1, <3>2
      <3>3. CASE hand.mail # 0
        BY <1>1, <1>6, <2>1, <3>3 DEF OnceInv
      <3> QED
        BY <3>2, <3>3
    <2>3. u > cp.last
      BY <1>1, <1>6, <2>1
    <2> QED
      BY <1>3, <2>1, <2>2, <2>3 DEF OnceInv
  <1> QED
    BY <1>1, <1>2, <1>5, <1>6 DEF OnceInv

\* Every step keeps what was analysed behind the checkpoint.
LEMMA OnceStep ==
    TypedFolder /\ TypedFolder' /\ LoopInv /\ MemoryInv /\ OnceInv /\ [Next]_vars => OnceInv'
  <1> SUFFICES ASSUME TypedFolder, TypedFolder', LoopInv, MemoryInv, OnceInv, [Next]_vars
               PROVE  OnceInv'
    OBVIOUS
  <1>0. /\ Present \subseteq 1..Len(inbox) /\ inbox \in Seq(Mail) /\ Len(inbox) \in Nat
        /\ cp.last \in Nat /\ crashes \in Nat
    <2>1. inbox \in Seq(Mail)
      BY DEF TypedFolder, TypeOK
    <2>2. Len(inbox) \in Nat
      BY <2>1
    <2> QED
      BY <2>1, <2>2, PresentProperties, Numbers DEF TypedFolder
  <1>1. CASE Deliver
    <2>1. /\ inbox' = Append(inbox, Len(header) + 1) /\ gone' = gone /\ hand' = hand
          /\ pc' = pc /\ cp' = cp /\ analysed' = analysed /\ crashes' = crashes
      BY <1>1 DEF Deliver, daemon, history, bounds
    <2> DEFINE new == Len(header) + 1
    <2>2. new \in Mail /\ header \in Seq(MessageId \cup {NoId}) /\ Len(header) \in Nat
      <3>1. header \in Seq(MessageId \cup {NoId}) /\ Len(header) < MaxMail
        BY <1>1 DEF Deliver, TypedFolder, TypeOK
      <3>2. Len(header) \in Nat
        BY <3>1
      <3> QED
        BY <3>1, <3>2, Bounds DEF Mail
    <2>3. analysed[new] = 0 /\ hand.mail # new
      <3>1. Worked \cup dropped \subseteq 1..Len(header) /\ hand.mail <= Len(header)
        BY DEF TypedFolder, FolderInv
      <3>2. new \notin 1..Len(header) /\ hand.mail # new
        BY SMTT(30), <2>2, <3>1, Numbers
      <3>3. new \notin Analysed
        BY <3>1, <3>2 DEF Worked
      <3> HIDE DEF new
      <3>4. analysed[new] \in Nat /\ ~(analysed[new] > 0)
        BY <2>2, <3>3, Numbers DEF Analysed
      <3> QED
        BY <3>2, <3>4
    <2> HIDE DEF new
    <2>4. \A u \in Present' : (u \in Present /\ inbox'[u] = inbox[u]) \/ inbox'[u] = new
      BY <1>0, <2>1 DEF Present, new
    <2>5. \A u \in Present' : u > cp.last => analysed[inbox'[u]] <= crashes
      <3> SUFFICES ASSUME NEW u \in Present', u > cp.last
                   PROVE  analysed[inbox'[u]] <= crashes
        OBVIOUS
      <3>1. CASE u \in Present /\ inbox'[u] = inbox[u]
        BY <3>1 DEF OnceInv
      <3>2. CASE inbox'[u] = new
        BY <1>0, <2>3, <3>2
      <3> QED
        BY <2>4, <3>1, <3>2
    <2>6. pc = "fetched" /\ hand.mail # 0 =>
            \A u \in Present' : inbox'[u] = hand.mail => u <= hand.uid
      BY <2>3, <2>4 DEF OnceInv
    <2> QED
      BY <2>1, <2>5, <2>6 DEF OnceInv, AnalysedOnce
  <1>2. CASE Expunge
    <2>1. /\ inbox' = inbox /\ hand' = hand /\ pc' = pc /\ cp' = cp
          /\ analysed' = analysed /\ crashes' = crashes /\ Present' \subseteq Present
      BY <1>2 DEF Expunge, daemon, history, Present
    <2> QED
      BY <2>1 DEF OnceInv, AnalysedOnce
  <1>3. CASE Rebuild
    <2> DEFINE n == Cardinality(Present)
               at == InOrder(Present)
    <2>1. /\ n \in Nat /\ at \in [1..n -> Present]
          /\ \A i \in 1..n : i <= at[i]
      BY PresentProperties, InOrderProperties, InOrderBelow DEF TypedFolder
    <2>2. /\ inbox' = [i \in 1..n |-> inbox[at[i]]] /\ gone' = {}
          /\ (pc' = "fetched" => pc = "fetched")
          /\ cp' = cp /\ hand' = hand /\ analysed' = analysed /\ crashes' = crashes
      BY <1>3 DEF Rebuild, history, bounds
    <2> HIDE DEF n, at
    <2>3. Present' \subseteq 1..n
      <3>1. \A i \in 1..n : inbox[at[i]] \in Mail
        BY <2>1, Numbers
      <3>2. inbox' \in [1..n -> Mail]
        BY <2>2, <3>1
      <3>3. Len(inbox') = n
        BY <2>1, <3>2, FunctionIsSequence
      <3> QED
        BY <2>2, <3>3 DEF Present
    <2>4. \A i \in Present' : /\ inbox'[i] = inbox[at[i]] /\ at[i] \in Present
                              /\ i \in Nat /\ at[i] \in Nat /\ i <= at[i]
      <3> SUFFICES ASSUME NEW i \in Present'
                   PROVE  /\ inbox'[i] = inbox[at[i]] /\ at[i] \in Present
                          /\ i \in Nat /\ at[i] \in Nat /\ i <= at[i]
        OBVIOUS
      <3>1. i \in 1..n
        BY <2>3
      <3>2. at[i] \in Present /\ inbox'[i] = inbox[at[i]] /\ i <= at[i] /\ i \in Nat
        BY <2>1, <2>2, <3>1
      <3> QED
        BY <3>2, Numbers
    <2>5. \A i \in Present' : i > cp.last => at[i] > cp.last
      BY <1>0, <2>4
    <2>6. \A i \in Present' : i > cp.last => analysed[inbox'[i]] <= crashes
      BY <2>4, <2>5 DEF OnceInv
    <2>7. pc = "fetched" /\ hand.mail # 0 =>
            \A i \in Present' : inbox'[i] = hand.mail => i <= hand.uid
      <3> SUFFICES ASSUME pc = "fetched", hand.mail # 0,
                          NEW i \in Present', inbox'[i] = hand.mail
                   PROVE  i <= hand.uid
        OBVIOUS
      <3>1. at[i] <= hand.uid
        BY <2>4 DEF OnceInv
      <3> QED
        BY <2>4, <3>1, Numbers
    <2> QED
      BY <2>2, <2>6, <2>7 DEF OnceInv, AnalysedOnce
  <1>4. CASE Start
    BY <1>0, <1>4, OnceAdvance DEF Start, server, history, bounds
  <1>5. CASE OpenFolder
    <2>1. /\ UNCHANGED <<header, inbox, gone>> /\ UNCHANGED <<analysed, crashes>>
          /\ pc' # "fetched"
          /\ \/ cp'.last = cp.last
             \/ production /\ ~cp.has
             \/ cp'.last = Largest(Present)
      BY <1>5, OpenFolderChange DEF server, bounds
    <2>2. (\A u \in Present : u <= cp'.last) \/ cp'.last >= cp.last
      <3>1. production /\ ~cp.has => cp.last = 0
        BY DEF MemoryInv
      <3>2. cp'.last \in Nat
        BY NextPosition
      <3>3. CASE cp'.last = Largest(Present)
        BY <3>3, PresentProperties DEF TypedFolder
      <3>4. CASE cp'.last # Largest(Present)
        BY <1>0, <2>1, <3>1, <3>2, <3>4
      <3> QED
        BY <3>3, <3>4
    <2> QED
      BY <2>1, <2>2, OnceAdvance
  <1>6. CASE SkipHistorical
    <2>1. cp'.last = Largest(Present) /\ pc' # "fetched"
          /\ UNCHANGED <<header, inbox, gone>> /\ UNCHANGED <<analysed, crashes>>
      BY <1>6 DEF SkipHistorical, server, bounds, TypedFolder, TypeOK
    <2>2. \A u \in Present : u <= cp'.last
      BY <2>1, PresentProperties DEF TypedFolder
    <2> QED
      BY <2>1, <2>2, OnceAdvance
  <1>7. CASE Search
    BY <1>0, <1>7, OnceAdvance DEF Search, server, history, bounds
  <1>8. CASE Fetch
    <2>1. /\ UNCHANGED <<inbox, gone>> /\ UNCHANGED <<analysed, crashes, cp>> /\ pc = "loop"
          /\ hand' = [uid |-> Head(todo),
                      mail |-> IF Head(todo) \in Present THEN inbox[Head(todo)] ELSE 0]
      BY <1>8 DEF Fetch, server, history, bounds
    <2>2. Head(todo) = todo[1] /\ 1 \in 1..Len(todo)
      BY <1>8 DEF Fetch, TypedFolder, TypeOK
    <2>3. Head(todo) > cp.last
      BY <2>1, <2>2 DEF LoopInv
    <2>4. ASSUME hand'.mail # 0
          PROVE  /\ analysed[hand'.mail] <= crashes
                 /\ \A u \in Present : inbox[u] = hand'.mail => u <= hand'.uid
      <3>1. Head(todo) \in Present /\ hand'.mail = inbox[Head(todo)] /\ hand'.uid = Head(todo)
        BY <2>1, <2>4
      <3>2. analysed[hand'.mail] <= crashes
        BY <2>3, <3>1 DEF OnceInv
      <3>3. ASSUME NEW u \in Present, inbox[u] = inbox[Head(todo)] PROVE u <= Head(todo)
        <4>1. u \in 1..Len(inbox) /\ Head(todo) \in 1..Len(inbox)
          BY <1>0, <3>1
        <4>2. inbox[u] \in Nat
          BY Numbers
        <4>3. ~(Head(todo) < u)
          BY SMTT(30), <3>3, <4>1, <4>2 DEF TypedFolder, FolderInv
        <4> QED
          BY <1>0, <4>1, <4>3
      <3> QED
        BY <3>1, <3>2, <3>3
    <2>5. Present' = Present
      BY <2>1 DEF Present
    <2> QED
      BY <2>1, <2>4, <2>5 DEF OnceInv, AnalysedOnce
  <1>9. CASE MessageError \/ Duplicate
    <2>1. PICK name \in Name, poll \in Tally : Handle(name, poll)
      BY <1>9, HandleSteps
    <2>2. UNCHANGED analysed
      BY <1>9 DEF MessageError, Duplicate
    <2> QED
      BY <2>1, <2>2, OnceHandle
  <1>10. CASE Analyse
    <2>1. PICK name \in Name, poll \in Tally : Handle(name, poll)
      BY <1>10, HandleSteps
    <2>2. \/ UNCHANGED analysed
          \/ hand.mail # 0 /\ analysed' = [analysed EXCEPT ![hand.mail] = @ + 1]
      BY <1>10 DEF Analyse
    <2> QED
      BY <2>1, <2>2, OnceHandle
  <1>11. CASE RecordStats
    <2>1. cp'.last = cp.last /\ pc' = "persist"
          /\ UNCHANGED <<header, inbox, gone>> /\ UNCHANGED <<analysed, crashes>>
      BY <1>11 DEF RecordStats, RecordPollStats, server, history, bounds,
                   TypedFolder, TypeOK, LoopInv
    <2> QED
      BY <1>0, <2>1, OnceAdvance
  <1>12. CASE Persist
    BY <1>0, <1>12, OnceAdvance DEF Persist, server, history
  <1>13. CASE PollAborts
    BY <1>0, <1>13, OnceAdvance DEF PollAborts, server, history
  <1>14. CASE Crash
    <2>1. crashes' = crashes + 1 /\ analysed' = analysed /\ inbox' = inbox /\ gone' = gone
          /\ pc' = "down"
      BY <1>14 DEF Crash, server, history
    <2>2. Present' = Present
      BY <2>1 DEF Present
    <2>3. \A m \in Mail : analysed[m] <= crashes'
      BY <1>0, <2>1, Numbers DEF OnceInv, AnalysedOnce
    <2>4. \A u \in Present : analysed[inbox[u]] <= crashes'
      BY <2>3, Numbers
    <2>5. AnalysedOnce'
      <3> SUFFICES ASSUME NEW m \in Mail PROVE analysed[m] <= 1 + (crashes + 1)
        BY <2>1 DEF AnalysedOnce
      <3>1. analysed[m] \in Nat /\ analysed[m] <= crashes + 1
        BY <2>1, <2>3, Numbers
      <3> QED
        BY <1>0, <3>1
    <2> QED
      BY <2>1, <2>2, <2>4, <2>5 DEF OnceInv
  <1>15. CASE UNCHANGED vars
    BY <1>0, <1>15, OnceAdvance DEF vars, server, daemon, history, bounds
  <1> QED
    BY <1>1, <1>2, <1>3, <1>4, <1>5, <1>6, <1>7, <1>8, <1>9, <1>10, <1>11, <1>12, <1>13,
       <1>14, <1>15 DEF Next, Poll

\* The poll, the daemon's memory and what was analysed, together.
PollInv == TypedFolder /\ LoopInv /\ MemoryInv /\ OnceInv

LEMMA PollInvariant == Spec => []PollInv
  <1>1. Init => LoopInv /\ MemoryInv /\ OnceInv
    <2> SUFFICES ASSUME Init PROVE LoopInv /\ MemoryInv /\ OnceInv
      OBVIOUS
    <2>1. LoopInv /\ MemoryInv
      BY DEF Init, LoopInv, MemoryInv, NoCheckpoint, NoTelemetry
    <2>2. Present = {}
      BY DEF Init, Present
    <2>3. AnalysedOnce
      BY DEF Init, AnalysedOnce
    <2> QED
      BY <2>1, <2>2, <2>3 DEF Init, OnceInv
  <1>2. TypedFolder /\ TypedFolder' /\ LoopInv /\ MemoryInv /\ OnceInv /\ [Next]_vars
          => LoopInv' /\ MemoryInv' /\ OnceInv'
    BY LoopStep, MemoryStep, OnceStep
  <1> QED
    BY <1>1, <1>2, TypedFolderInvariant, PTL DEF Spec, PollInv

\* A mail is analysed twice only if the daemon died in between, however short the
\* index of Message-IDs, whatever is aborted, expunged or renumbered.
THEOREM MailAnalysedOnce == Spec => []AnalysedOnce
  <1>1. PollInv => AnalysedOnce
    BY DEF PollInv, OnceInv
  <1> QED
    BY <1>1, PollInvariant, PTL
=============================================================================
