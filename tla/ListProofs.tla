----------------------------- MODULE ListProofs -----------------------------
(***************************************************************************)
(* What the lists of a query are made of, for every list and every set of  *)
(* values: Within computes it one member at a time, so that what holds of  *)
(* an empty list, and stays true with the next member, holds of all.       *)
(* Recursion says that a function defined this way exists.                 *)
(***************************************************************************)
EXTENDS Lists, SequenceTheorems, WellFoundedInduction, TLAPS

-----------------------------------------------------------------------------
(* Recursion.                                                              *)

(* A set of natural numbers that is not empty has a least element.         *)
LEMMA LeastNatural ==
  ASSUME NEW S \in SUBSET Nat, S # {}
  PROVE  \E n \in S : \A k \in S : n <= k
<1> DEFINE R == OpToRel(<, Nat)
<1>1. IsWellFoundedOn(R, Nat)
  BY NatLessThanWellFounded
<1>2. \A i, j \in Nat : i < j => <<i, j>> \in R
  BY DEF OpToRel
<1> HIDE DEF R
<1>3. PICK n \in S : \A k \in S : ~ (<<k, n>> \in R)
  BY <1>1, WFMin
<1>4. \A k \in S : ~(k < n)
  BY <1>2, <1>3
<1> QED
  BY <1>3, <1>4

(* What holds for 0, and for each number once it holds for the one before, *)
(* holds for all up to n.                                                  *)
LEMMA OneByOne ==
  ASSUME NEW n \in Nat, NEW S, 0 \in S,
         \A k \in 1..n : k - 1 \in S => k \in S
  PROVE  0..n \subseteq S
<1> DEFINE Bad == {k \in 0..n : k \notin S}
<1> SUFFICES ASSUME Bad # {}
             PROVE  FALSE
  OBVIOUS
<1>1. Bad \in SUBSET Nat
  OBVIOUS
<1> HIDE DEF Bad
<1>2. PICK k \in Bad : \A j \in Bad : k <= j
  BY <1>1, LeastNatural
<1>3. k \in 0..n /\ k \notin S
  BY <1>2 DEF Bad
<1>4. k \in 1..n /\ k - 1 \in 0..n /\ ~(k <= k - 1)
  BY <1>3
<1>5. k - 1 \in S
  BY <1>2, <1>4 DEF Bad
<1> QED
  BY <1>3, <1>4, <1>5

(* f begins with first, and next gives each value from the one before.     *)
Iterates(f, n, first, next) ==
    f = [k \in 0..n |-> IF k = 0 THEN first ELSE next[<<k, f[k - 1]>>]]

(* A function on 0..n is given by its first value and by what each value   *)
(* is when the one before is known.                                        *)
LEMMA Recursion ==
  ASSUME NEW n \in Nat, NEW V, NEW first \in V, NEW next \in [(1..n) \X V -> V]
  PROVE  \E f \in [0..n -> V] : Iterates(f, n, first, next)
<1> DEFINE Is(f, k) ==
             /\ f \in [0..k -> V]
             /\ f[0] = first
             /\ \A j \in 1..k : f[j] = next[<<j, f[j - 1]>>]
           Holds == {k \in 0..n : \E f : Is(f, k)}
<1>1. 0 \in Holds
  <2> DEFINE f == [k \in 0..0 |-> first]
  <2>1. Is(f, 0)
    OBVIOUS
  <2> HIDE DEF Is, f
  <2> QED
    BY <2>1
<1>2. ASSUME NEW k \in 1..n, k - 1 \in Holds
      PROVE  k \in Holds
  <2>1. PICK f : Is(f, k - 1)
    BY <1>2
  <2> DEFINE v == next[<<k, f[k - 1]>>]
             g == [j \in 0..k |-> IF j = k THEN v ELSE f[j]]
  <2>2. f[k - 1] \in V
    BY <2>1
  <2>3. v \in V
    BY <2>2
  <2> HIDE DEF v
  <2>4. \A j \in 0..(k - 1) : j \in 0..k /\ j # k /\ f[j] \in V
    BY <2>1
  <2>5. g \in [0..k -> V]
    BY <2>3, <2>4
  <2>6. g[0] = first
    BY <2>1
  <2>7. ASSUME NEW j \in 1..k
        PROVE  g[j] = next[<<j, g[j - 1]>>]
    <3>1. g[j - 1] = f[j - 1]
      OBVIOUS
    <3>2. CASE j = k
      BY SMTT(30), <3>1, <3>2 DEF v
    <3>3. CASE j # k
      <4>1. j \in 1..(k - 1)
        BY <3>3
      <4>2. g[j] = f[j]
        BY <3>3
      <4> QED
        BY <3>1, <4>1, <4>2, <2>1
    <3> QED
      BY <3>2, <3>3
  <2>8. Is(g, k)
    BY <2>5, <2>6, <2>7
  <2> HIDE DEF Is, g
  <2> QED
    BY <2>8
<1>3. n \in Holds
  <2> HIDE DEF Holds
  <2> QED
    BY <1>1, <1>2, OneByOne
<1>4. PICK f : Is(f, n)
  BY <1>3
<1>5. Iterates(f, n, first, next)
  BY <1>4 DEF Iterates
<1> QED
  BY <1>4, <1>5

-----------------------------------------------------------------------------
(* Lists.                                                                  *)

(* f[k] is what the first k members of s leave within S: the empty list,   *)
(* to which each member that is in S is appended.                          *)
Leaves(f, s, S) ==
    /\ f[0] = << >>
    /\ \A k \in 1..Len(s) :
          f[k] = IF s[k] \in S THEN Append(f[k - 1], s[k]) ELSE f[k - 1]

(* Within in steps.                                                        *)
LEMMA WithinSteps ==
  ASSUME NEW T, NEW s \in Seq(T), NEW S
  PROVE  \E f \in [0..Len(s) -> Seq(T)] : Leaves(f, s, S) /\ Within(s, S) = f[Len(s)]
<1> DEFINE Is(f) == f = [k \in 0..Len(s) |->
                          IF k = 0 THEN << >>
                          ELSE IF s[k] \in S THEN Append(f[k - 1], s[k]) ELSE f[k - 1]]
           V == Seq(T)
           first == << >>
           next == [x \in (1..Len(s)) \X V |->
                      IF s[x[1]] \in S THEN Append(x[2], s[x[1]]) ELSE x[2]]
           chosen == CHOOSE f : Is(f)
<1>1. Len(s) \in Nat /\ \A k \in 1..Len(s) : s[k] \in T
  OBVIOUS
<1>2. next \in [(1..Len(s)) \X V -> V]
  BY <1>1
<1>3. first \in V
  OBVIOUS
<1>4. \A k \in 0..Len(s) : k # 0 => k \in 1..Len(s) /\ k - 1 \in 0..Len(s)
  BY <1>1
<1>5. \A k \in 1..Len(s), t \in V :
         next[<<k, t>>] = IF s[k] \in S THEN Append(t, s[k]) ELSE t
  OBVIOUS
<1>0. \A t \in V, k \in 1..Len(s) : Append(t, s[k]) \in V
  BY <1>1
<1> HIDE DEF next, V, first
<1>6. PICK f \in [0..Len(s) -> V] : Iterates(f, Len(s), first, next)
  BY <1>1, <1>2, <1>3, Recursion
<1>7. ASSUME NEW k \in 0..Len(s)
      PROVE  (IF k = 0 THEN first ELSE next[<<k, f[k - 1]>>])
               = (IF k = 0 THEN << >>
                  ELSE IF s[k] \in S THEN Append(f[k - 1], s[k]) ELSE f[k - 1])
  <2>1. CASE k = 0
    BY <2>1 DEF first
  <2>2. CASE k # 0
    BY <2>2, <1>4, <1>5
  <2> QED
    BY <2>1, <2>2
<1>8. Is(f)
  <2>1. f = [k \in 0..Len(s) |->
               IF k = 0 THEN << >>
               ELSE IF s[k] \in S THEN Append(f[k - 1], s[k]) ELSE f[k - 1]]
    BY <1>6, <1>7, Zenon DEF Iterates
  <2> QED
    BY <2>1
<1>9. Is(chosen)
  <2> HIDE DEF Is
  <2> QED
    BY <1>8
<1>10. Within(s, S) = chosen[Len(s)]
  BY DEF Within
<1> HIDE DEF chosen
<1>11. chosen = [k \in 0..Len(s) |->
                  IF k = 0 THEN << >>
                  ELSE IF s[k] \in S THEN Append(chosen[k - 1], s[k]) ELSE chosen[k - 1]]
  BY <1>9
<1>12. DOMAIN chosen = 0..Len(s)
  BY <1>11
<1>13. chosen[0] = << >>
  BY <1>1, <1>11
<1>14. ASSUME NEW k \in 1..Len(s)
       PROVE  chosen[k] = IF s[k] \in S THEN Append(chosen[k - 1], s[k])
                                        ELSE chosen[k - 1]
  <2>1. k \in 0..Len(s) /\ k # 0
    BY <1>1
  <2> QED
    BY <2>1, <1>11
<1>15. \A k \in 0..Len(s) : chosen[k] \in V
  <2> DEFINE Holds == {k \in 0..Len(s) : chosen[k] \in V}
  <2>1. 0 \in Holds
    BY <1>1, <1>3, <1>13 DEF first
  <2>2. ASSUME NEW k \in 1..Len(s), k - 1 \in Holds
        PROVE  k \in Holds
    <3>1. chosen[k] \in V
      BY <1>0, <1>14, <2>2
    <3> QED
      BY <1>1, <3>1
  <2>3. 0..Len(s) \subseteq Holds
    <3> HIDE DEF Holds
    <3> QED
      BY <1>1, <2>1, <2>2, OneByOne
  <2> QED
    BY <2>3
<1>16. chosen = [k \in 0..Len(s) |-> chosen[k]]
  BY <1>11
<1>17. chosen \in [0..Len(s) -> V]
  BY <1>15, <1>16
<1>18. Leaves(chosen, s, S)
  BY <1>13, <1>14 DEF Leaves
<1> QED
  BY <1>10, <1>17, <1>18 DEF V

(* A list within S has the type of the list it is taken from; it is empty  *)
(* when no member of the list is in S and only then, and it has two        *)
(* members only when two places of the list are in S.                      *)
LEMMA WithinFacts ==
  ASSUME NEW T, NEW s \in Seq(T), NEW S
  PROVE  /\ Within(s, S) \in Seq(T)
         /\ (\E i \in DOMAIN s : s[i] \in S) <=> Within(s, S) # << >>
         /\ Len(Within(s, S)) > 1
               => \E i, j \in DOMAIN s : i # j /\ s[i] \in S /\ s[j] \in S
<1> DEFINE Member(i) == s[i] \in S
<1>1. PICK f \in [0..Len(s) -> Seq(T)] : Leaves(f, s, S) /\ Within(s, S) = f[Len(s)]
  BY WithinSteps
<1>2. Len(s) \in Nat /\ DOMAIN s = 1..Len(s) /\ \A k \in 1..Len(s) : s[k] \in T
  OBVIOUS
<1> DEFINE Good(k) ==
             /\ (\E i \in 1..k : Member(i)) <=> Len(f[k]) > 0
             /\ Len(f[k]) > 1 => \E i, j \in 1..k : i # j /\ Member(i) /\ Member(j)
           Holds == {k \in 0..Len(s) : Good(k)}
<1>3. 0 \in Holds
  BY <1>1, <1>2 DEF Leaves
<1>4. ASSUME NEW k \in 1..Len(s), k - 1 \in Holds
      PROVE  k \in Holds
  <2>1. k \in 0..Len(s) /\ k - 1 \in 0..Len(s) /\ k \in Nat /\ k - 1 \in Nat
    BY <1>2
  <2>2. \A i \in 1..k : i = k \/ i \in 1..(k - 1)
    BY <2>1
  <2>3. k \in 1..k /\ k \notin 1..(k - 1) /\ 1..(k - 1) \subseteq 1..k
    BY <2>1
  <2>4. f[k - 1] \in Seq(T) /\ Len(f[k - 1]) \in Nat
    BY <2>1
  <2>5. Good(k - 1)
    BY <1>4
  <2>6. CASE Member(k)
    <3>1. f[k] = Append(f[k - 1], s[k])
      BY <1>1, <2>6 DEF Leaves
    <3>2. Len(f[k]) = Len(f[k - 1]) + 1
      BY <3>1, <2>4, <1>2
    <3> HIDE DEF Member
    <3>3. Good(k)
      BY <2>2, <2>3, <2>4, <2>5, <2>6, <3>2
    <3> QED
      BY <2>1, <3>3
  <2>7. CASE ~Member(k)
    <3>1. f[k] = f[k - 1]
      BY <1>1, <2>7 DEF Leaves
    <3> HIDE DEF Member
    <3>2. Good(k)
      BY <2>2, <2>3, <2>5, <2>7, <3>1
    <3> QED
      BY <2>1, <3>2
  <2> QED
    BY <2>6, <2>7
<1>5. Len(s) \in Holds
  <2>1. 0..Len(s) \subseteq Holds
    <3> HIDE DEF Holds
    <3> QED
      BY <1>2, <1>3, <1>4, OneByOne
  <2> QED
    BY <1>2, <2>1
<1>6. Within(s, S) \in Seq(T)
  BY <1>1, <1>2
<1>7. Within(s, S) # << >> <=> Len(Within(s, S)) > 0
  BY <1>6
<1> QED
  BY <1>1, <1>2, <1>5, <1>6, <1>7

(* The values of a list; each of them is in one place only.                *)
Members(t) == {t[i] : i \in 1..Len(t)}
NoRepeats(t) == \A i, j \in 1..Len(t) : t[i] = t[j] => i = j

(* One more member.                                                        *)
LEMMA Appended ==
  ASSUME NEW T, NEW t \in Seq(T), NEW v \in T
  PROVE  /\ Append(t, v) \in Seq(T)
         /\ Members(Append(t, v)) = Members(t) \cup {v}
         /\ NoRepeats(t) /\ v \notin Members(t) => NoRepeats(Append(t, v))
<1> DEFINE u == Append(t, v)
           n == Len(t)
<1>1. /\ n \in Nat /\ u \in Seq(T) /\ Len(u) = n + 1
      /\ u[n + 1] = v /\ \A i \in 1..n : u[i] = t[i]
  OBVIOUS
<1>2. \A i \in 1..(n + 1) : i \in 1..n \/ i = n + 1
  BY <1>1
<1>3. 1..n \subseteq 1..(n + 1) /\ n + 1 \in 1..(n + 1)
  BY <1>1
<1> HIDE DEF u, n
<1>4. Members(u) = Members(t) \cup {v}
  <2>1. ASSUME NEW x \in Members(u)
        PROVE  x \in Members(t) \cup {v}
    <3>1. PICK i \in 1..(n + 1) : x = u[i]
      BY <1>1 DEF Members
    <3> QED
      BY <1>1, <1>2, <3>1 DEF Members, n
  <2>2. v \in Members(u)
    BY <1>1, <1>3 DEF Members
  <2>3. Members(t) \subseteq Members(u)
    BY <1>1, <1>3 DEF Members, n
  <2> QED
    BY <2>1, <2>2, <2>3
<1>5. ASSUME NoRepeats(t), v \notin Members(t)
      PROVE  NoRepeats(u)
  <2> SUFFICES ASSUME NEW i \in 1..(n + 1), NEW j \in 1..(n + 1), u[i] = u[j]
               PROVE  i = j
    BY <1>1 DEF NoRepeats
  <2>1. \A k \in 1..n : u[k] # v
    BY <1>1, <1>5 DEF Members, n
  <2>2. CASE i \in 1..n /\ j \in 1..n
    BY <1>1, <1>5, <2>2 DEF NoRepeats, n
  <2>3. CASE i = n + 1 \/ j = n + 1
    BY <1>1, <1>2, <2>1, <2>3
  <2> QED
    BY <1>2, <2>2, <2>3
<1> QED
  BY <1>1, <1>4, <1>5 DEF u

(* A list within S has those values of the list that are in S, and repeats *)
(* none that the list does not repeat.                                     *)
LEMMA WithinMembers ==
  ASSUME NEW T, NEW s \in Seq(T), NEW S
  PROVE  /\ Within(s, S) \in Seq(T)
         /\ Members(Within(s, S)) = Members(s) \cap S
         /\ NoRepeats(s) => NoRepeats(Within(s, S))
<1>1. PICK f \in [0..Len(s) -> Seq(T)] : Leaves(f, s, S) /\ Within(s, S) = f[Len(s)]
  BY WithinSteps
<1>2. Len(s) \in Nat /\ \A k \in 1..Len(s) : s[k] \in T
  OBVIOUS
<1> DEFINE First(k) == {s[i] : i \in 1..k}
           Good(k) == /\ Members(f[k]) = First(k) \cap S
                      /\ NoRepeats(s) => NoRepeats(f[k])
           Holds == {k \in 0..Len(s) : Good(k)}
<1>3. 0 \in Holds
  <2>1. f[0] = << >> /\ Len(f[0]) = 0
    BY <1>1 DEF Leaves
  <2>2. 1..0 = {}
    OBVIOUS
  <2>3. Members(f[0]) = {} /\ NoRepeats(f[0])
    BY <2>1, <2>2 DEF Members, NoRepeats
  <2>4. First(0) = {}
    BY <2>2
  <2> QED
    BY <1>2, <2>3, <2>4
<1>4. ASSUME NEW k \in 1..Len(s), k - 1 \in Holds
      PROVE  k \in Holds
  <2>1. k \in 0..Len(s) /\ k - 1 \in 0..Len(s) /\ f[k - 1] \in Seq(T) /\ s[k] \in T
    BY <1>2
  <2>2. Good(k - 1)
    BY <1>4
  <2>3. First(k) = First(k - 1) \cup {s[k]}
    <3>1. \A i : i \in 1..k <=> i \in 1..(k - 1) \/ i = k
      BY <1>2
    <3> QED
      BY <3>1
  <2>4. NoRepeats(s) => s[k] \notin First(k - 1)
    <3>1. \A i \in 1..(k - 1) : i \in 1..Len(s) /\ i # k
      BY <1>2
    <3> QED
      BY <3>1 DEF NoRepeats
  <2> HIDE DEF First
  <2>5. CASE s[k] \in S
    <3>1. f[k] = Append(f[k - 1], s[k])
      BY <1>1, <2>5 DEF Leaves
    <3>2. Members(f[k]) = Members(f[k - 1]) \cup {s[k]}
      BY <2>1, <3>1, Appended
    <3>3. NoRepeats(f[k - 1]) /\ s[k] \notin Members(f[k - 1]) => NoRepeats(f[k])
      BY <2>1, <3>1, Appended
    <3>4. Good(k)
      BY <2>2, <2>3, <2>4, <2>5, <3>2, <3>3
    <3> QED
      BY <2>1, <3>4
  <2>6. CASE s[k] \notin S
    <3>1. f[k] = f[k - 1]
      BY <1>1, <2>6 DEF Leaves
    <3>2. Good(k)
      BY <2>2, <2>3, <2>6, <3>1
    <3> QED
      BY <2>1, <3>2
  <2> QED
    BY <2>5, <2>6
<1>5. Good(Len(s))
  <2>1. 0..Len(s) \subseteq Holds
    <3> HIDE DEF Holds
    <3> QED
      BY <1>2, <1>3, <1>4, OneByOne
  <2> QED
    BY <1>2, <2>1
<1>6. First(Len(s)) = Members(s)
  BY DEF Members
<1>7. Within(s, S) \in Seq(T)
  BY <1>1, <1>2
<1> QED
  BY <1>1, <1>5, <1>6, <1>7
=============================================================================
