----------------------------- MODULE ListLemmas -----------------------------
(***************************************************************************)
(* Facts about the lists of the kernel: a list of threads without          *)
(* repetitions, extended at its tail by a thread that blocks or at its     *)
(* head by one that exits, and shortened at its head by a wake-up.         *)
(***************************************************************************)
EXTENDS Integers, Sequences, Functions, WellFoundedInduction, TLAPS

(* A set of natural numbers that is not empty has a least element.  The    *)
(* searches of the code that return the first slot that fits rely on it.   *)
LEMMA LeastElement ==
    ASSUME NEW S \in SUBSET Nat, S # {}
    PROVE  \E x \in S : \A y \in S : x <= y
<1> DEFINE R == {p \in Nat \X Nat : p[1] < p[2]}
<1>1. OpToRel(<, Nat) = R
  BY DEF OpToRel
<1>2. PICK x \in S : \A y \in S : <<y, x>> \notin R
  BY <1>1, NatLessThanWellFounded, WFMin
<1>3. ASSUME NEW y \in S PROVE x <= y
  <2> DEFINE p == <<y, x>>
  <2>1. p \in Nat \X Nat /\ p[1] = y /\ p[2] = x
    OBVIOUS
  <2> QED BY <1>2, <2>1
<1> QED BY <1>3

(* Appending a new element keeps a sequence free of repetitions; this is   *)
(* what the tail walk of sem_wait does to the wait list.                   *)
LEMMA AppendExact ==
    ASSUME NEW S, NEW s \in Seq(S), NEW e \in S,
           IsInjective(s),
           e \notin Range(s)
    PROVE  LET r == Append(s, e) IN
           /\ r \in Seq(S)
           /\ r # <<>>
           /\ IsInjective(r)
           /\ Range(r) = Range(s) \cup {e}
<1> DEFINE r == Append(s, e)
<1>1. /\ Len(r) = Len(s) + 1
      /\ Len(s) \in Nat
      /\ \A i \in 1..Len(s) : r[i] = s[i]
      /\ r[Len(s) + 1] = e
  OBVIOUS
<1>2. r \in Seq(S) /\ r # <<>>
  BY <1>1
<1>3. \A i \in 1..Len(s) : s[i] # e
  BY DEF Range
<1>4. IsInjective(r)
  BY <1>1, <1>3 DEF IsInjective
<1>5. Range(r) = Range(s) \cup {e}
  <2>1. 1..Len(r) = (1..Len(s)) \cup {Len(s) + 1}
    BY <1>1
  <2> QED BY <1>1, <2>1 DEF Range
<1> QED BY <1>2, <1>4, <1>5

(* Removing the head, as sem_post does when it wakes a waiter.             *)
LEMMA TailExact ==
    ASSUME NEW S, NEW s \in Seq(S), s # <<>>,
           IsInjective(s)
    PROVE  LET r == Tail(s) IN
           /\ r \in Seq(S)
           /\ Head(s) \in Range(s)
           /\ IsInjective(r)
           /\ Range(r) = Range(s) \ {Head(s)}
<1> DEFINE r == Tail(s)
<1>1. /\ Len(s) \in Nat \ {0}
      /\ Len(r) = Len(s) - 1
      /\ DOMAIN r = 1..Len(r)
      /\ \A i \in 1..Len(r) : r[i] = s[i + 1]
      /\ Head(s) = s[1]
      /\ r \in Seq(S)
  OBVIOUS
<1>2. 1 \in 1..Len(s)
  BY <1>1
<1>3. Head(s) \in Range(s)
  BY <1>1, <1>2 DEF Range
<1>4. IsInjective(r)
  <2> SUFFICES ASSUME NEW i \in 1..Len(r), NEW j \in 1..Len(r), r[i] = r[j]
               PROVE  i = j
    BY <1>1 DEF IsInjective
  <2>1. i + 1 \in 1..Len(s) /\ j + 1 \in 1..Len(s)
    BY <1>1
  <2>2. s[i + 1] = s[j + 1]
    BY <1>1
  <2>3. i + 1 = j + 1
    BY <2>1, <2>2 DEF IsInjective
  <2> QED BY <2>3
<1>5. Range(r) = Range(s) \ {Head(s)}
  <2>1. ASSUME NEW i \in 1..Len(r)
        PROVE  r[i] \in Range(s) \ {Head(s)}
    <3>1. i + 1 \in 1..Len(s) /\ i + 1 # 1
      BY <1>1
    <3>2. s[i + 1] # s[1]
      BY <3>1, <1>2 DEF IsInjective
    <3> QED BY <1>1, <3>1, <3>2 DEF Range
  <2>2. ASSUME NEW k \in 1..Len(s), s[k] # Head(s)
        PROVE  s[k] \in Range(r)
    <3>1. k # 1
      BY <2>2, <1>1
    <3>2. k - 1 \in 1..Len(r) /\ r[k - 1] = s[k]
      BY <3>1, <1>1
    <3> QED BY <3>2, <1>1 DEF Range
  <2> QED BY <1>1, <2>1, <2>2 DEF Range
<1> QED BY <1>1, <1>3, <1>4, <1>5

(* Removing the first n, as condvar_broadcast and the reaper do.           *)
LEMMA DropExact ==
    ASSUME NEW S, NEW s \in Seq(S), NEW n \in 0 .. Len(s), IsInjective(s)
    PROVE  LET r == SubSeq(s, n + 1, Len(s))
               f == SubSeq(s, 1, n) IN
           /\ r \in Seq(S) /\ Len(r) = Len(s) - n
           /\ \A i \in 1 .. Len(r) : r[i] = s[i + n]
           /\ IsInjective(r)
           /\ Range(r) = Range(s) \ Range(f)
           /\ Range(f) \subseteq Range(s)
<1> DEFINE r == SubSeq(s, n + 1, Len(s))
           f == SubSeq(s, 1, n)
<1>1. /\ Len(s) \in Nat /\ n \in Nat
      /\ r \in Seq(S) /\ Len(r) = Len(s) - n /\ DOMAIN r = 1 .. Len(s) - n
      /\ \A i \in 1 .. Len(s) - n : r[i] = s[i + n]
  OBVIOUS
<1>2. DOMAIN f = 1 .. n /\ \A i \in 1 .. n : f[i] = s[i]
  OBVIOUS
<1>3. DOMAIN s = 1 .. Len(s)
  OBVIOUS
<1>4. IsInjective(r)
  <2> SUFFICES ASSUME NEW i \in 1 .. Len(s) - n, NEW j \in 1 .. Len(s) - n, r[i] = r[j]
               PROVE  i = j
    BY <1>1 DEF IsInjective
  <2>1. i + n \in 1 .. Len(s) /\ j + n \in 1 .. Len(s)
    BY <1>1
  <2>2. s[i + n] = s[j + n]
    BY <1>1
  <2>3. i + n = j + n
    BY <1>3, <2>1, <2>2 DEF IsInjective
  <2> QED BY <1>1, <2>3
<1>5. ASSUME NEW i \in 1 .. Len(s) - n PROVE r[i] \in Range(s) /\ r[i] \notin Range(f)
  <2>1. i + n \in 1 .. Len(s) /\ r[i] = s[i + n]
    BY <1>1
  <2>2. ASSUME NEW k \in 1 .. n PROVE f[k] # s[i + n]
    <3>1. k \in 1 .. Len(s) /\ k # i + n /\ f[k] = s[k]
      BY <1>1, <1>2
    <3> QED BY <1>3, <2>1, <3>1 DEF IsInjective
  <2> QED BY <1>2, <1>3, <2>1, <2>2 DEF Range
<1>6. ASSUME NEW k \in 1 .. Len(s), s[k] \notin Range(f) PROVE s[k] \in Range(r)
  <2>1. k \notin 1 .. n
    BY <1>2, <1>6 DEF Range
  <2>2. k - n \in 1 .. Len(s) - n /\ k - n + n = k
    BY <1>1, <2>1
  <2>3. r[k - n] = s[k]
    BY <1>1, <2>2
  <2> QED BY <1>1, <2>2, <2>3 DEF Range
<1>7. Range(f) \subseteq Range(s)
  <2> HIDE DEF f, r
  <2>1. \A i \in 1 .. n : i \in 1 .. Len(s)
    BY <1>1
  <2> QED BY <1>2, <1>3, <2>1 DEF Range
<1>8. Range(r) = Range(s) \ Range(f)
  BY <1>1, <1>3, <1>5, <1>6 DEF Range
<1> QED BY <1>1, <1>4, <1>7, <1>8

(* Putting an element in front, as reaper_add_zombie does.                 *)
LEMMA PushExact ==
    ASSUME NEW S, NEW s \in Seq(S), NEW e \in S, IsInjective(s), e \notin Range(s)
    PROVE  LET r == <<e>> \o s IN
           /\ r \in Seq(S) /\ Len(r) = Len(s) + 1
           /\ r[1] = e /\ \A i \in 1 .. Len(s) : r[i + 1] = s[i]
           /\ IsInjective(r)
           /\ Range(r) = Range(s) \cup {e}
<1> DEFINE r == <<e>> \o s
<1>1. /\ Len(s) \in Nat /\ r \in Seq(S) /\ Len(r) = Len(s) + 1
      /\ r[1] = e /\ \A i \in 1 .. Len(s) : r[i + 1] = s[i]
  <2>1. <<e>> \in Seq(S) /\ Len(<<e>>) = 1 /\ <<e>>[1] = e
    OBVIOUS
  <2> QED BY <2>1
<1>2. DOMAIN r = 1 .. Len(s) + 1 /\ DOMAIN s = 1 .. Len(s)
  BY <1>1
<1> HIDE DEF r
<1>3. \A i \in 1 .. Len(s) + 1 : i = 1 \/ (i - 1 \in 1 .. Len(s) /\ r[i] = s[i - 1])
  <2> SUFFICES ASSUME NEW i \in 1 .. Len(s) + 1, i # 1
               PROVE  i - 1 \in 1 .. Len(s) /\ r[i] = s[i - 1]
    OBVIOUS
  <2>1. i - 1 \in 1 .. Len(s) /\ (i - 1) + 1 = i
    BY <1>1
  <2> QED BY <1>1, <2>1
<1>4. \A i \in 1 .. Len(s) : s[i] # e
  BY <1>2 DEF Range
<1>5. IsInjective(r)
  <2> SUFFICES ASSUME NEW i \in 1 .. Len(s) + 1, NEW j \in 1 .. Len(s) + 1, r[i] = r[j]
               PROVE  i = j
    BY <1>2 DEF IsInjective
  <2>1. CASE i = 1 \/ j = 1
    BY <1>1, <1>3, <1>4, <2>1
  <2>2. CASE i # 1 /\ j # 1
    <3>1. i - 1 \in 1 .. Len(s) /\ j - 1 \in 1 .. Len(s) /\ s[i - 1] = s[j - 1]
      BY <1>3, <2>2
    <3>2. i - 1 = j - 1
      BY <1>2, <3>1 DEF IsInjective
    <3> QED BY <1>1, <3>2
  <2> QED BY <2>1, <2>2
<1>6. Range(r) = Range(s) \cup {e}
  <2>1. 1 \in 1 .. Len(s) + 1 /\ \A i \in 1 .. Len(s) : i + 1 \in 1 .. Len(s) + 1
    BY <1>1
  <2>2. ASSUME NEW i \in 1 .. Len(s) + 1 PROVE r[i] = e \/ r[i] \in Range(s)
    BY <1>1, <1>2, <1>3 DEF Range
  <2>3. ASSUME NEW i \in 1 .. Len(s) PROVE s[i] \in Range(r)
    BY <1>1, <1>2, <2>1 DEF Range
  <2>4. e \in Range(r)
    BY <1>1, <1>2, <2>1 DEF Range
  <2>5. ASSUME NEW x \in Range(r) PROVE x \in Range(s) \cup {e}
    BY <1>2, <2>2 DEF Range
  <2>6. ASSUME NEW x \in Range(s) PROVE x \in Range(r)
    BY <1>2, <2>3 DEF Range
  <2> QED BY <2>4, <2>5, <2>6
<1> QED BY <1>1, <1>5, <1>6 DEF r
=============================================================================
