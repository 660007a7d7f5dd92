----------------------------- MODULE ListProofs ------------------------------
(***************************************************************************)
(* What the operations on the lists of util/list.h do to their members.    *)
(***************************************************************************)
EXTENDS Lists, TLAPS

(***************************************************************************)
(* Lists: list has the members of S, each once.                            *)
(***************************************************************************)
ListOf(list, S) ==
    /\ list \in Seq(S)
    /\ \A i, j \in 1..Len(list) : list[i] = list[j] => i = j
    /\ \A x \in S : \E i \in 1..Len(list) : list[i] = x

\* The length and the entries of two sequences, one after the other.
LEMMA JoinedIs ==
    ASSUME NEW S, NEW a \in Seq(S), NEW b \in Seq(S)
    PROVE  /\ a \o b \in Seq(S) /\ Len(a \o b) = Len(a) + Len(b)
           /\ \A i \in 1..Len(a) + Len(b) : (a \o b)[i] = IF i <= Len(a) THEN a[i] ELSE b[i - Len(a)]
  OBVIOUS

\* A list of S is injective and has the set S of entries.
LEMMA ListOfIsSet ==
    ASSUME NEW list, NEW S, ListOf(list, S)
    PROVE  IsInjective(list) /\ Range(list) = S /\ Len(list) \in Nat
<1>1. list \in Seq(S) /\ DOMAIN list = 1..Len(list)
  BY DEF ListOf
<1>2. Range(list) = S
  BY <1>1 DEF ListOf, Range
<1> QED BY <1>1, <1>2 DEF ListOf, IsInjective

\* list_insert_tail of an item that is not on the list.
LEMMA AppendLink ==
    ASSUME NEW list, NEW S, ListOf(list, S), NEW f, f \notin S
    PROVE  ListOf(Append(list, f), S \cup {f}) /\ Len(Append(list, f)) = Len(list) + 1
<1> DEFINE new == Append(list, f)
<1>1. /\ list \in Seq(S) /\ Len(list) \in Nat
      /\ \A i \in 1..Len(list) : list[i] \in S
  BY DEF ListOf
<1>0. list \in Seq(S \cup {f})
  BY <1>1
<1>2. new \in Seq(S \cup {f}) /\ Len(new) = Len(list) + 1 /\ new[Len(list) + 1] = f
  BY <1>0
<1>3. \A i \in 1..Len(list) : new[i] = list[i]
  BY <1>0
<1> HIDE DEF new
<1>i. \A i, j \in 1..Len(list) : list[i] = list[j] => i = j
  BY DEF ListOf
<1>4. \A i, j \in 1..Len(new) : new[i] = new[j] => i = j
  <2> SUFFICES ASSUME NEW i \in 1..Len(new), NEW j \in 1..Len(new), new[i] = new[j]
               PROVE  i = j
    OBVIOUS
  <2>1. \A m \in 1..Len(new) : m # Len(list) + 1 => m \in 1..Len(list)
    BY <1>1, <1>2
  <2>2. CASE i = Len(list) + 1 \/ j = Len(list) + 1
    BY <1>1, <1>2, <1>3, <2>1, <2>2
  <2>3. CASE i # Len(list) + 1 /\ j # Len(list) + 1
    BY <1>3, <1>i, <2>1, <2>3
  <2> QED BY <2>2, <2>3
<1>5. ASSUME NEW x \in S \cup {f} PROVE \E i \in 1..Len(new) : new[i] = x
  <2>1. CASE x = f
    <3>1. Len(list) + 1 \in 1..Len(new)
      BY <1>1, <1>2
    <3> QED BY <1>2, <2>1, <3>1
  <2>2. CASE x # f
    <3>1. PICK k \in 1..Len(list) : list[k] = x
      BY <2>2 DEF ListOf
    <3>2. k \in 1..Len(new) /\ new[k] = x
      BY <1>1, <1>2, <1>3, <3>1
    <3> QED BY <3>2
  <2> QED BY <2>1, <2>2
<1> QED BY <1>2, <1>4, <1>5 DEF ListOf, new

\* list_insert_head of an item that is not on the list.
LEMMA PushLink ==
    ASSUME NEW list, NEW S, ListOf(list, S), NEW f, f \notin S
    PROVE  ListOf(<<f>> \o list, S \cup {f})
<1> DEFINE new == <<f>> \o list
<1>1. /\ list \in Seq(S) /\ Len(list) \in Nat
      /\ \A i \in 1..Len(list) : list[i] \in S
  BY DEF ListOf
<1>0. list \in Seq(S \cup {f}) /\ <<f>> \in Seq(S \cup {f}) /\ Len(<<f>>) = 1 /\ <<f>>[1] = f
  BY <1>1
<1>2. /\ new \in Seq(S \cup {f}) /\ Len(new) = Len(<<f>>) + Len(list)
      /\ \A i \in 1..Len(<<f>>) + Len(list) :
            new[i] = IF i <= Len(<<f>>) THEN <<f>>[i] ELSE list[i - Len(<<f>>)]
  BY <1>0, JoinedIs, Zenon
<1> HIDE DEF new
<1>3. /\ Len(new) = Len(list) + 1 /\ new[1] = f
      /\ \A i \in 1..Len(list) : new[i + 1] = list[i]
      /\ \A i \in 2..Len(new) : i - 1 \in 1..Len(list) /\ new[i] = list[i - 1]
  BY <1>0, <1>1, <1>2
<1>4. \A i, j \in 1..Len(new) : new[i] = new[j] => i = j
  <2> SUFFICES ASSUME NEW i \in 1..Len(new), NEW j \in 1..Len(new), new[i] = new[j], i # j
               PROVE  FALSE
    OBVIOUS
  <2>1. CASE i = 1
    BY <1>1, <1>3, <2>1
  <2>2. CASE j = 1
    BY <1>1, <1>3, <2>2
  <2>3. CASE i # 1 /\ j # 1
    <3>1. \A m, n \in 1..Len(list) : list[m] = list[n] => m = n
      BY DEF ListOf
    <3>2. i \in 2..Len(new) /\ j \in 2..Len(new)
      BY <1>1, <1>3, <2>3
    <3>3. i - 1 = j - 1
      BY <1>3, <3>1, <3>2
    <3> QED BY <3>2, <3>3
  <2> QED BY <2>1, <2>2, <2>3
<1>5. \A x \in S \cup {f} : \E i \in 1..Len(new) : new[i] = x
  <2> SUFFICES ASSUME NEW x \in S \cup {f} PROVE \E i \in 1..Len(new) : new[i] = x
    OBVIOUS
  <2>1. CASE x = f
    <3>1. 1 \in 1..Len(new)
      BY <1>1, <1>3
    <3> QED BY <2>1, <3>1, <1>3
  <2>2. CASE x # f
    <3>1. PICK k \in 1..Len(list) : list[k] = x
      BY <2>2 DEF ListOf
    <3>2. k + 1 \in 1..Len(new) /\ new[k + 1] = x
      BY <1>1, <1>3, <3>1
    <3> QED BY <3>2
  <2> QED BY <2>1, <2>2
<1> QED BY <1>2, <1>4, <1>5 DEF ListOf, new

\* Unlinking the first item.
LEMMA HeadLink ==
    ASSUME NEW list, NEW S, ListOf(list, S), list # << >>
    PROVE  /\ Head(list) \in S
           /\ ListOf(Tail(list), S \ {Head(list)})
           /\ Len(Tail(list)) = Len(list) - 1
<1> DEFINE f == Head(list)
           new == Tail(list)
<1>1. /\ list \in Seq(S) /\ Len(list) \in Nat /\ Len(list) >= 1
      /\ f = list[1] /\ f \in S
      /\ \A i \in 1..Len(list) : list[i] \in S
  BY DEF ListOf
<1>2. /\ new \in Seq(S) /\ Len(new) = Len(list) - 1
      /\ \A i \in 1..Len(new) : new[i] = list[i + 1]
  BY <1>1
<1> HIDE DEF new, f
<1>i. \A i, j \in 1..Len(list) : list[i] = list[j] => i = j
  BY DEF ListOf
<1>s. \A i \in 1..Len(new) : i + 1 \in 1..Len(list) /\ i + 1 # 1
  BY <1>1, <1>2
<1>3. \A i \in 1..Len(new) : new[i] \in S \ {f}
  <2>1. 1 \in 1..Len(list)
    BY <1>1
  <2> QED BY <1>1, <1>2, <1>i, <1>s, <2>1
<1>4. new \in Seq(S \ {f})
  BY <1>2, <1>3
<1>5. \A i, j \in 1..Len(new) : new[i] = new[j] => i = j
  <2>1. ASSUME NEW i \in 1..Len(new), NEW j \in 1..Len(new), new[i] = new[j] PROVE i = j
    <3>1. i + 1 = j + 1
      BY <1>2, <1>i, <1>s, <2>1
    <3> QED BY <3>1
  <2> QED BY <2>1
<1>6. ASSUME NEW x \in S \ {f} PROVE \E i \in 1..Len(new) : new[i] = x
  <2>1. PICK k \in 1..Len(list) : list[k] = x
    BY DEF ListOf
  <2>2. k - 1 \in 1..Len(new) /\ new[k - 1] = x
    BY <1>1, <1>2, <2>1
  <2> QED BY <2>2
<1> QED BY <1>1, <1>2, <1>4, <1>5, <1>6 DEF ListOf, new, f

\* new is old, a sequence over S, with one entry of t taken out.
TakenOut(S, old, new, t) ==
    /\ new \in Seq(S)
    /\ Len(new) = Len(old) - 1
    /\ \E k \in 1..Len(old) :
          /\ old[k] = t
          /\ \A i \in 1..Len(old) - 1 : new[i] = IF i < k THEN old[i] ELSE old[i + 1]

\* list_remove takes out an entry of t, and moves those behind it up by one.
LEMMA RemovePlaces ==
    ASSUME NEW S, NEW old \in Seq(S), NEW t, \E i \in 1..Len(old) : old[i] = t
    PROVE  TakenOut(S, old, list_remove(old, t), t)
<1> DEFINE new == list_remove(old, t)
           links == {i \in DOMAIN old : old[i] = t}
           k == CHOOSE i \in links : TRUE
<1>0. old \in Seq(S) /\ DOMAIN old = 1..Len(old)
  OBVIOUS
<1>1. links # {}
  BY <1>0
<1>2. k \in 1..Len(old) /\ old[k] = t
  <2>1. k \in links
    BY <1>1
  <2> QED BY <1>0, <2>1
<1>3. new = SubSeq(old, 1, k - 1) \o SubSeq(old, k + 1, Len(old))
  BY Zenon, <1>1 DEF list_remove
<1> HIDE DEF k, links
<1>4. /\ new \in Seq(S)
      /\ Len(new) = Len(old) - 1
      /\ \A i \in 1..Len(new) : new[i] = IF i < k THEN old[i] ELSE old[i + 1]
  <2> DEFINE a == SubSeq(old, 1, k - 1)
             b == SubSeq(old, k + 1, Len(old))
             c == a \o b
  <2>0. /\ k \in Int /\ k \in 1..Len(old) /\ old \in Seq(S) /\ Len(old) \in Nat
        /\ \A i \in 1..Len(old) : old[i] \in S
    BY <1>0, <1>2
  <2>1. a \in Seq(S) /\ Len(a) = k - 1 /\ \A i \in 1..k - 1 : a[i] = old[i]
    BY ONLY <2>0
  <2>2. b \in Seq(S) /\ Len(b) = Len(old) - k /\ \A i \in 1..Len(old) - k : b[i] = old[k + i]
    BY ONLY <2>0
  <2> HIDE DEF a, b
  <2>3. /\ c \in Seq(S)
        /\ Len(c) = Len(a) + Len(b)
        /\ \A i \in 1..Len(a) + Len(b) : c[i] = IF i <= Len(a) THEN a[i] ELSE b[i - Len(a)]
    BY <2>1, <2>2, JoinedIs, Zenon
  <2>4. new = c
    BY <1>3 DEF a, b
  <2> HIDE DEF c, new
  <2>5. new \in Seq(S) /\ Len(new) = Len(old) - 1
    <3>1. new \in Seq(S) /\ Len(new) = Len(a) + Len(b)
      BY <2>3, <2>4, Zenon
    <3>2. Len(a) + Len(b) = Len(old) - 1
      BY <2>0, <2>1, <2>2
    <3> QED BY <3>1, <3>2, Zenon
  <2>6. ASSUME NEW i \in 1..Len(new) PROVE new[i] = IF i < k THEN old[i] ELSE old[i + 1]
    <3>0. i \in 1..Len(a) + Len(b)
      BY <2>0, <2>1, <2>2, <2>5
    <3>1. CASE i < k
      BY <3>0, <3>1, <2>0, <2>1, <2>2, <2>3, <2>4
    <3>2. CASE ~ (i < k)
      <4>1. c[i] = b[i - Len(a)] /\ i - Len(a) \in 1..Len(old) - k /\ i - Len(a) = i - k + 1
        BY <3>0, <3>2, <2>0, <2>1, <2>2, <2>3
      <4>2. b[i - k + 1] = old[k + (i - k + 1)]
        BY <4>1, <2>2
      <4> QED BY <4>1, <4>2, <3>2, <2>0, <2>4
    <3> QED BY <3>1, <3>2
  <2> QED BY <2>5, <2>6
<1> HIDE DEF new
<1>5. TakenOut(S, old, new, t)
  BY <1>2, <1>4 DEF TakenOut
<1> QED BY <1>5 DEF new

\* list_remove of an item that is on the list.
LEMMA RemoveLink ==
    ASSUME NEW list, NEW S, ListOf(list, S), NEW f \in S
    PROVE  ListOf(list_remove(list, f), S \ {f}) /\ Len(list_remove(list, f)) = Len(list) - 1
<1> DEFINE new == list_remove(list, f)
<1>0. /\ list \in Seq(S) /\ Len(list) \in Nat
      /\ \A i \in 1..Len(list) : list[i] \in S
      /\ \E i \in 1..Len(list) : list[i] = f
  BY DEF ListOf
<1>1. TakenOut(S, list, new, f)
  BY <1>0, RemovePlaces, Zenon
<1> HIDE DEF new
<1>2. PICK k \in 1..Len(list) :
          /\ list[k] = f
          /\ \A i \in 1..Len(list) - 1 : new[i] = IF i < k THEN list[i] ELSE list[i + 1]
  BY <1>1 DEF TakenOut
<1>4. /\ new \in Seq(S)
      /\ Len(new) = Len(list) - 1
      /\ \A i \in 1..Len(new) : new[i] = IF i < k THEN list[i] ELSE list[i + 1]
  BY <1>1, <1>2 DEF TakenOut
<1>5. \A i \in 1..Len(new) : \E j \in 1..Len(list) : j # k /\ new[i] = list[j]
  <2> SUFFICES ASSUME NEW i \in 1..Len(new)
               PROVE  \E j \in 1..Len(list) : j # k /\ new[i] = list[j]
    OBVIOUS
  <2>1. CASE i < k
    BY <2>1, <1>0, <1>2, <1>4
  <2>2. CASE ~ (i < k)
    <3>1. i + 1 \in 1..Len(list) /\ i + 1 # k /\ new[i] = list[i + 1]
      BY <2>2, <1>0, <1>2, <1>4
    <3> QED BY <3>1
  <2> QED BY <2>1, <2>2
<1>6. \A i \in 1..Len(new) : new[i] \in S \ {f}
  <2>1. \A i, j \in 1..Len(list) : list[i] = list[j] => i = j
    BY DEF ListOf
  <2> QED BY <1>0, <1>2, <1>5, <2>1
<1>7. new \in Seq(S \ {f})
  BY <1>4, <1>6
<1>8. \A i, j \in 1..Len(new) : new[i] = new[j] => i = j
  <2> DEFINE old(i) == IF i < k THEN i ELSE i + 1
  <2>1. \A i, j \in 1..Len(list) : list[i] = list[j] => i = j
    BY DEF ListOf
  <2>2. \A i \in 1..Len(new) : old(i) \in 1..Len(list) /\ new[i] = list[old(i)]
    BY <1>0, <1>2, <1>4
  <2>3. \A i, j \in 1..Len(new) : old(i) = old(j) => i = j
    BY <1>0, <1>2, <1>4
  <2> HIDE DEF old
  <2> QED BY <2>1, <2>2, <2>3
<1>9. ASSUME NEW x \in S \ {f} PROVE \E i \in 1..Len(new) : new[i] = x
  <2>1. PICK j \in 1..Len(list) : list[j] = x
    BY DEF ListOf
  <2>2. CASE j < k
    BY <2>1, <2>2, <1>0, <1>2, <1>4
  <2>3. CASE j > k
    <3>1. j - 1 \in 1..Len(new) /\ new[j - 1] = x
      BY <2>1, <2>3, <1>0, <1>2, <1>4
    <3> QED BY <3>1
  <2> QED BY <2>1, <2>2, <2>3, <1>2
<1> QED BY <1>4, <1>7, <1>8, <1>9 DEF ListOf, new

\* Where the elements of two sequences end up in their concatenation.
LEMMA ConcatPlaces ==
    ASSUME NEW S, NEW a \in Seq(S), NEW b \in Seq(S)
    PROVE  /\ a \o b \in Seq(S)
           /\ \A i \in 1..Len(a) : i \in 1..Len(a \o b) /\ (a \o b)[i] = a[i]
           /\ \A i \in 1..Len(b) : Len(a) + i \in 1..Len(a \o b) /\ (a \o b)[Len(a) + i] = b[i]
           /\ \A i \in 1..Len(a \o b) : i \in 1..Len(a) \/ \E j \in 1..Len(b) : i = Len(a) + j
<1> DEFINE c == a \o b
<1>1. /\ c \in Seq(S) /\ Len(c) = Len(a) + Len(b)
      /\ \A i \in 1..Len(a) + Len(b) : c[i] = IF i <= Len(a) THEN a[i] ELSE b[i - Len(a)]
  BY JoinedIs, Zenon
<1> HIDE DEF c
<1>2. Len(a) \in Nat /\ Len(b) \in Nat
  OBVIOUS
<1>3. ASSUME NEW i \in 1..Len(a) PROVE i \in 1..Len(c) /\ c[i] = a[i]
  BY <1>1, <1>2
<1>4. ASSUME NEW i \in 1..Len(b) PROVE Len(a) + i \in 1..Len(c) /\ c[Len(a) + i] = b[i]
  <2>1. Len(a) + i \in 1..Len(a) + Len(b) /\ ~ (Len(a) + i <= Len(a)) /\ (Len(a) + i) - Len(a) = i
    BY <1>2
  <2> QED BY <2>1, <1>1
<1>5. ASSUME NEW i \in 1..Len(c) PROVE i \in 1..Len(a) \/ \E j \in 1..Len(b) : i = Len(a) + j
  <2>1. CASE i <= Len(a)
    BY <2>1, <1>2
  <2>2. CASE i > Len(a)
    <3>1. i - Len(a) \in 1..Len(b) /\ i = Len(a) + (i - Len(a))
      BY <2>2, <1>1, <1>2
    <3> QED BY <3>1
  <2> QED BY <2>1, <2>2, <1>2
<1> QED BY <1>1, <1>3, <1>4, <1>5, Zenon DEF c

\* Moving all of one list behind another.
LEMMA ConcatLinks ==
    ASSUME NEW a, NEW b, NEW S, NEW T, ListOf(a, S), ListOf(b, T), S \cap T = {}
    PROVE  ListOf(a \o b, S \cup T)
<1> DEFINE new == a \o b
<1>0. /\ a \in Seq(S) /\ b \in Seq(T) /\ Len(a) \in Nat /\ Len(b) \in Nat
      /\ \A i, j \in 1..Len(a) : a[i] = a[j] => i = j
      /\ \A i, j \in 1..Len(b) : b[i] = b[j] => i = j
      /\ \A i \in 1..Len(a) : a[i] \in S
      /\ \A i \in 1..Len(b) : b[i] \in T
      /\ \A x \in S : \E i \in 1..Len(a) : a[i] = x
      /\ \A x \in T : \E i \in 1..Len(b) : b[i] = x
  BY DEF ListOf
<1>1. /\ new \in Seq(S \cup T)
      /\ \A i \in 1..Len(a) : i \in 1..Len(new) /\ new[i] = a[i]
      /\ \A i \in 1..Len(b) : Len(a) + i \in 1..Len(new) /\ new[Len(a) + i] = b[i]
      /\ \A i \in 1..Len(new) : i \in 1..Len(a) \/ \E j \in 1..Len(b) : i = Len(a) + j
  <2>1. a \in Seq(S \cup T) /\ b \in Seq(S \cup T)
    BY <1>0
  <2> DEFINE U == S \cup T
  <2>2. a \in Seq(U) /\ b \in Seq(U)
    BY <2>1
  <2> HIDE DEF U
  <2>3. /\ new \in Seq(U)
        /\ \A i \in 1..Len(a) : i \in 1..Len(new) /\ new[i] = a[i]
        /\ \A i \in 1..Len(b) : Len(a) + i \in 1..Len(new) /\ new[Len(a) + i] = b[i]
        /\ \A i \in 1..Len(new) : i \in 1..Len(a) \/ \E j \in 1..Len(b) : i = Len(a) + j
    BY ONLY <2>2, ConcatPlaces, Zenon
  <2> HIDE DEF new
  <2> QED BY <2>3, Zenon DEF U
<1> HIDE DEF new
<1>2. \A i, j \in 1..Len(new) : new[i] = new[j] => i = j
  <2> SUFFICES ASSUME NEW i \in 1..Len(new), NEW j \in 1..Len(new), new[i] = new[j] PROVE i = j
    OBVIOUS
  <2>1. (i \in 1..Len(a) /\ new[i] = a[i]) \/ (\E k \in 1..Len(b) : i = Len(a) + k /\ new[i] = b[k])
    BY <1>1
  <2>2. (j \in 1..Len(a) /\ new[j] = a[j]) \/ (\E k \in 1..Len(b) : j = Len(a) + k /\ new[j] = b[k])
    BY <1>1
  <2> QED BY <2>1, <2>2, <1>0
<1>3. \A x \in S \cup T : \E i \in 1..Len(new) : new[i] = x
  <2> SUFFICES ASSUME NEW x \in S \cup T PROVE \E i \in 1..Len(new) : new[i] = x
    OBVIOUS
  <2>1. CASE x \in S
    BY <2>1, <1>0, <1>1, Zenon
  <2>2. CASE x \in T
    <3>1. PICK i \in 1..Len(b) : b[i] = x
      BY <2>2, <1>0
    <3> QED BY <3>1, <1>1, Zenon
  <2> QED BY <2>1, <2>2
<1> QED BY <1>1, <1>2, <1>3 DEF ListOf, new
=============================================================================
