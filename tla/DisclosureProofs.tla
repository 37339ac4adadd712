--------------------------- MODULE DisclosureProofs ---------------------------
(***************************************************************************)
(* Theorems about Disclosure, for keys of any number of messages, any      *)
(* arguments of the calls and any number of unblindings, proofs and        *)
(* verdicts.                                                               *)
(*                                                                         *)
(* The hidden positions, which a loop collects, are each at their rank;    *)
(* so bases, secrets, blindings and responses are at matching places       *)
(* behind the heads of the scheme.  From this follow, for PS and for BBS,  *)
(* what an accepted proof shows (PSAccepts, BBSAccepts), that an honest    *)
(* one is accepted (PSHonest, BBSHonest) and where the response about a    *)
(* message is (PSResponds, BBSResponds).  The invariant DisclosureInv      *)
(* connects these with the states: every proof was made of the signature   *)
(* in hand, and every verdict is about such a proof.                       *)
(***************************************************************************)
EXTENDS Disclosure, RecursionProofs, FiniteSetTheorems

-----------------------------------------------------------------------------
(***************************************************************************)
(* The hidden positions.  Position i, if it is hidden, is the one of rank  *)
(* Rank(i, revealed) among them.                                           *)
(***************************************************************************)
Rank(i, revealed) == Cardinality({j \in 1 .. i : j \notin revealed})

\* The rank grows by one at each hidden position.
LEMMA RankSteps ==
  ASSUME NEW revealed
  PROVE  /\ Rank(0, revealed) = 0
         /\ \A n \in Nat : Rank(n, revealed) \in Nat
         /\ \A n \in Nat :
              Rank(n + 1, revealed) =
                IF n + 1 \in revealed THEN Rank(n, revealed) ELSE Rank(n, revealed) + 1
<1> DEFINE H(n) == {j \in 1 .. n : j \notin revealed}
<1>1. ASSUME NEW n \in Nat
      PROVE  IsFiniteSet(H(n)) /\ Cardinality(H(n)) \in Nat
  <2>1. IsFiniteSet(1 .. n)
    BY FS_Interval
  <2>2. H(n) \in SUBSET (1 .. n)
    OBVIOUS
  <2> HIDE DEF H
  <2>3. IsFiniteSet(H(n))
    BY <2>1, <2>2, FS_Subset
  <2> QED
    BY <2>3, FS_CardinalityType
<1>2. H(0) = {}
  OBVIOUS
<1>3. ASSUME NEW n \in Nat
      PROVE  H(n + 1) = IF n + 1 \in revealed THEN H(n) ELSE H(n) \cup {n + 1}
  <2>1. \A j : j \in 1 .. n + 1 <=> j \in 1 .. n \/ j = n + 1
    OBVIOUS
  <2>2. n + 1 \notin 1 .. n
    OBVIOUS
  <2> QED
    BY <2>1, <2>2, Zenon
<1>4. \A n \in Nat : n + 1 \notin H(n)
  OBVIOUS
<1>5. \A n : Rank(n, revealed) = Cardinality(H(n))
  BY DEF Rank
<1> HIDE DEF H
<1>6. ASSUME NEW n \in Nat
      PROVE  Cardinality(H(n + 1))
               = IF n + 1 \in revealed THEN Cardinality(H(n)) ELSE Cardinality(H(n)) + 1
  <2>1. PICK S : S = H(n) /\ IsFiniteSet(S) /\ n + 1 \notin S
    BY <1>1, <1>4
  <2>2. Cardinality(S \cup {n + 1}) = Cardinality(S) + 1
    BY <2>1, FS_AddElement
  <2> QED
    BY <1>3, <2>1, <2>2
<1>7. Cardinality(H(0)) = 0
  BY <1>2, FS_EmptySet
<1> QED
  BY <1>1, <1>5, <1>6, <1>7

\* What the loop over the positions has kept when it has met n of them.
KeptOf(h, n, revealed) ==
  /\ h \in Seq(Nat) /\ Len(h) = Rank(n, revealed)
  /\ \A k \in 1 .. Len(h) :
       h[k] \in 1 .. n /\ h[k] \notin revealed /\ Rank(h[k], revealed) = k
  /\ \A i \in 1 .. n : i \notin revealed =>
       Rank(i, revealed) \in 1 .. Len(h) /\ h[Rank(i, revealed)] = i

\* One turn of the loop.
LEMMA KeptStep ==
  ASSUME NEW n \in Nat, NEW revealed, NEW h, KeptOf(h, n, revealed)
  PROVE  KeptOf(IF n + 1 \in revealed THEN h ELSE Append(h, n + 1), n + 1, revealed)
<1>1. \A i : i \in 1 .. n + 1 <=> i \in 1 .. n \/ i = n + 1
  OBVIOUS
<1>2. Rank(n, revealed) \in Nat /\ h \in Seq(Nat) /\ Len(h) \in Nat /\ Len(h) = Rank(n, revealed)
  BY RankSteps DEF KeptOf
<1>3. CASE n + 1 \in revealed
  <2>1. Rank(n + 1, revealed) = Rank(n, revealed)
    BY <1>3, RankSteps
  <2>2. \A k \in 1 .. Len(h) :
          h[k] \in 1 .. n + 1 /\ h[k] \notin revealed /\ Rank(h[k], revealed) = k
    BY <1>1, Zenon DEF KeptOf
  <2>3. \A i \in 1 .. n + 1 : i \notin revealed =>
          Rank(i, revealed) \in 1 .. Len(h) /\ h[Rank(i, revealed)] = i
    BY <1>1, <1>3, Zenon DEF KeptOf
  <2> QED
    BY <1>2, <1>3, <2>1, <2>2, <2>3 DEF KeptOf
<1>4. CASE n + 1 \notin revealed
  <2>1. Rank(n + 1, revealed) = Len(h) + 1
    BY <1>2, <1>4, RankSteps
  <2>2. PICK t \in Seq(Nat) : t = Append(h, n + 1)
    <3>1. Append(h, n + 1) \in Seq(Nat)
      BY <1>2
    <3> QED
      BY <3>1, Zenon
  <2>3. Len(t) = Len(h) + 1 /\ t[Len(h) + 1] = n + 1 /\ \A k \in 1 .. Len(h) : t[k] = h[k]
    BY <1>2, <2>2
  <2>4. \A k : k \in 1 .. Len(t) <=> k \in 1 .. Len(h) \/ k = Len(h) + 1
    BY <1>2, <2>3
  <2>5. \A k \in 1 .. Len(t) :
          t[k] \in 1 .. n + 1 /\ t[k] \notin revealed /\ Rank(t[k], revealed) = k
    BY <1>1, <1>4, <2>1, <2>3, <2>4, Zenon DEF KeptOf
  <2>6. \A i \in 1 .. n + 1 : i \notin revealed =>
          Rank(i, revealed) \in 1 .. Len(t) /\ t[Rank(i, revealed)] = i
    BY <1>1, <1>4, <2>1, <2>3, <2>4, Zenon DEF KeptOf
  <2>7. KeptOf(t, n + 1, revealed)
    BY <2>1, <2>2, <2>3, <2>5, <2>6 DEF KeptOf
  <2> QED
    BY <1>4, <2>2, <2>7
<1> QED
  BY <1>3, <1>4

\* The loop of HiddenSeq, turn by turn.
Loops(h, count, revealed) ==
  h = [n \in 0 .. count |->
        IF n = 0 THEN <<>>
        ELSE IF n \in revealed THEN h[n - 1] ELSE Append(h[n - 1], n)]

\* Such a loop has a result for every number of positions.
LEMMA LoopsExists ==
  ASSUME NEW count \in Nat, NEW revealed
  PROVE  \E h : Loops(h, count, revealed)
<1>1. PICK step : step = [p \in (1 .. count) \X Seq(Nat) |->
                           IF p[1] \in revealed THEN p[2] ELSE Append(p[2], p[1])]
  OBVIOUS
<1>2. \A n \in 1 .. count, x \in Seq(Nat) :
        step[<<n, x>>] = IF n \in revealed THEN x ELSE Append(x, n)
  BY <1>1
<1>3. step \in [(1 .. count) \X Seq(Nat) -> Seq(Nat)]
  <2>1. \A p \in (1 .. count) \X Seq(Nat) : p[2] \in Seq(Nat) /\ p[1] \in Nat
    OBVIOUS
  <2>2. \A x \in Seq(Nat), n \in Nat : Append(x, n) \in Seq(Nat)
    OBVIOUS
  <2>3. \A p \in (1 .. count) \X Seq(Nat) :
          (IF p[1] \in revealed THEN p[2] ELSE Append(p[2], p[1])) \in Seq(Nat)
    BY <2>1, <2>2, Zenon
  <2> QED
    BY <1>1, <2>3, Zenon
<1>4. <<>> \in Seq(Nat)
  OBVIOUS
<1>5. PICK h \in [0 .. count -> Seq(Nat)] : Follows(h, <<>>, step, count)
  BY <1>3, <1>4, RecursionExists
<1>6. ASSUME NEW n \in 0 .. count
      PROVE  h[n] = IF n = 0 THEN <<>>
                    ELSE IF n \in revealed THEN h[n - 1] ELSE Append(h[n - 1], n)
  <2>1. CASE n = 0
    BY <1>5, <2>1 DEF Follows
  <2>2. CASE n # 0
    <3>1. n \in 1 .. count /\ n - 1 \in 0 .. count
      BY <2>2
    <3>2. PICK x \in Seq(Nat) : x = h[n - 1]
      BY <3>1
    <3>3. h[n] = step[<<n, x>>]
      BY <1>5, <3>1, <3>2 DEF Follows
    <3> QED
      BY <1>2, <2>2, <3>1, <3>2, <3>3
  <2> QED
    BY <2>1, <2>2
<1>7. h = [n \in 0 .. count |-> h[n]]
  OBVIOUS
<1> QED
  BY <1>6, <1>7, Zenon DEF Loops

\* Whatever the loop is, its last value is what it has kept of all positions.
LEMMA LoopKeeps ==
  ASSUME NEW count \in Nat, NEW revealed, NEW h, Loops(h, count, revealed)
  PROVE  KeptOf(h[count], count, revealed)
<1>1. \A n \in 0 .. count :
        h[n] = IF n = 0 THEN <<>>
               ELSE IF n \in revealed THEN h[n - 1] ELSE Append(h[n - 1], n)
  BY DEF Loops
<1> DEFINE S == {n \in Nat : n <= count => KeptOf(h[n], n, revealed)}
<1>2. 0 \in S
  <2>1. h[0] = <<>>
    BY <1>1
  <2>2. KeptOf(<<>>, 0, revealed)
    <3>1. Rank(0, revealed) = 0
      BY RankSteps
    <3> QED
      BY <3>1 DEF KeptOf
  <2> QED
    BY <2>1, <2>2
<1>3. ASSUME NEW n \in Nat, n \in S
      PROVE  n + 1 \in S
  <2> SUFFICES ASSUME n + 1 <= count
               PROVE  KeptOf(h[n + 1], n + 1, revealed)
    OBVIOUS
  <2>1. PICK x : x = h[n] /\ KeptOf(x, n, revealed)
    BY <1>3
  <2>2. h[n + 1] = IF n + 1 \in revealed THEN x ELSE Append(x, n + 1)
    <3>1. n + 1 \in 0 .. count /\ n + 1 # 0 /\ (n + 1) - 1 = n
      OBVIOUS
    <3> QED
      BY <1>1, <2>1, <3>1
  <2> QED
    BY <2>1, <2>2, KeptStep
<1> HIDE DEF S
<1>4. Nat \subseteq S
  BY <1>2, <1>3, SetInduction
<1> QED
  BY <1>4 DEF S

(***************************************************************************)
(* Both schemes keep the hidden positions of a key, each at its rank.      *)
(***************************************************************************)
LEMMA HiddenPositions ==
  ASSUME NEW key \in DOMAIN Count, NEW revealed
  PROVE  /\ KeptOf(PS!HiddenSeq(key, revealed), Count[key], revealed)
         /\ BBS!HiddenSeq(key, revealed) = PS!HiddenSeq(key, revealed)
<1>1. PICK count \in Nat : count = Count[key]
  BY CountAssumption
<1> DEFINE c == CHOOSE h : h = [n \in 0 .. Count[key] |->
                    IF n = 0 THEN <<>>
                    ELSE IF n \in revealed THEN h[n - 1] ELSE Append(h[n - 1], n)]
<1>2. PS!HiddenSeq(key, revealed) = c[Count[key]] /\ BBS!HiddenSeq(key, revealed) = c[Count[key]]
  BY Zenon DEF PS!HiddenSeq, BBS!HiddenSeq
<1>3. \E h : h = [n \in 0 .. Count[key] |->
                    IF n = 0 THEN <<>>
                    ELSE IF n \in revealed THEN h[n - 1] ELSE Append(h[n - 1], n)]
  <2>1. \E h : Loops(h, count, revealed)
    BY LoopsExists
  <2> QED
    BY <1>1, <2>1, Zenon DEF Loops
<1>4. Loops(c, Count[key], revealed)
  BY <1>3, Zenon DEF Loops
<1> HIDE DEF c
<1>5. KeptOf(c[count], count, revealed)
  BY <1>1, <1>4, LoopKeeps
<1> QED
  BY <1>1, <1>2, <1>5

-----------------------------------------------------------------------------
(***************************************************************************)
(* Lists of names of any kind, and what a proof of knowledge is made of.   *)
(***************************************************************************)
\* A list of length n.
ListOf(s, n) == s = [k \in 1 .. n |-> s[k]]

\* A list is a sequence of its elements.
LEMMA ListIsSeq ==
  ASSUME NEW n \in Nat, NEW s, ListOf(s, n), NEW S, \A k \in 1 .. n : s[k] \in S
  PROVE  s \in Seq(S) /\ Len(s) = n /\ DOMAIN s = 1 .. n
<1>1. s \in [1 .. n -> S]
  BY DEF ListOf
<1> QED
  BY <1>1

\* A list that is made of two.
Two(a, b) == a \o b

\* Its elements are those of the one, and then those of the other.
LEMMA ListsJoined ==
  ASSUME NEW m \in Nat, NEW n \in Nat, NEW a, NEW b, ListOf(a, m), ListOf(b, n)
  PROVE  /\ ListOf(Two(a, b), m + n)
         /\ \A k \in 1 .. m : Two(a, b)[k] = a[k]
         /\ \A k \in 1 .. n : Two(a, b)[m + k] = b[k]
<1>1. PICK S : S = {a[k] : k \in 1 .. m} \cup {b[k] : k \in 1 .. n}
  OBVIOUS
<1>2. (\A k \in 1 .. m : a[k] \in S) /\ (\A k \in 1 .. n : b[k] \in S)
  BY <1>1
<1>3. a \in Seq(S) /\ Len(a) = m
  BY <1>2, ListIsSeq
<1>4. b \in Seq(S) /\ Len(b) = n
  BY <1>2, ListIsSeq
<1> QED
  BY <1>3, <1>4 DEF ListOf, Two

\* A list grows by its next element.
LEMMA ListGrows ==
  ASSUME NEW n \in Nat, NEW s
  PROVE  Append([k \in 1 .. n |-> s[k]], s[n + 1]) = [k \in 1 .. n + 1 |-> s[k]]
<1>1. PICK S : S = {s[k] : k \in 1 .. n + 1}
  OBVIOUS
<1>2. PICK t : t = [k \in 1 .. n |-> s[k]]
  OBVIOUS
<1>3. t \in Seq(S) /\ Len(t) = n
  <2>1. \A k \in 1 .. n : t[k] \in S
    BY <1>1, <1>2
  <2>2. ListOf(t, n)
    BY <1>2 DEF ListOf
  <2> QED
    BY <2>1, <2>2, ListIsSeq
<1>4. s[n + 1] \in S
  BY <1>1
<1>5. PICK x \in S : x = s[n + 1]
  BY <1>4
<1>6. Append(t, x) = [k \in 1 .. n + 1 |-> s[k]]
  BY <1>2, <1>3, <1>5
<1> QED
  BY <1>2, <1>5, <1>6

\* The commit loop, turn by turn.
Commits(after, gens, blindings, n) ==
  after = [i \in 0 .. n |->
            IF i = 0 THEN [gens |-> <<>>, blindings |-> <<>>]
            ELSE [gens |-> Append(after[i - 1].gens, gens[i]),
                  blindings |-> Append(after[i - 1].blindings, blindings[i])]]

\* After n turns the first n generators and blindings have been taken over.
LEMMA CommitsTaken ==
  ASSUME NEW n \in Nat, NEW gens, NEW blindings
  PROVE  /\ \E after : Commits(after, gens, blindings, n)
         /\ \A after : Commits(after, gens, blindings, n) =>
              after[n] = [gens |-> [k \in 1 .. n |-> gens[k]],
                          blindings |-> [k \in 1 .. n |-> blindings[k]]]
<1>1. PICK f : f = [i \in 0 .. n |-> [gens |-> [k \in 1 .. i |-> gens[k]],
                                      blindings |-> [k \in 1 .. i |-> blindings[k]]]]
  OBVIOUS
<1>2. f[0] = [gens |-> <<>>, blindings |-> <<>>]
  <2>1. [k \in 1 .. 0 |-> gens[k]] = <<>> /\ [k \in 1 .. 0 |-> blindings[k]] = <<>>
    OBVIOUS
  <2> QED
    BY <1>1, <2>1
<1>3. ASSUME NEW i \in 1 .. n
      PROVE  f[i] = [gens |-> Append(f[i - 1].gens, gens[i]),
                     blindings |-> Append(f[i - 1].blindings, blindings[i])]
  <2>1. PICK j \in Nat : j = i - 1
    OBVIOUS
  <2>2. /\ f[i - 1].gens = [k \in 1 .. j |-> gens[k]]
        /\ f[i - 1].blindings = [k \in 1 .. j |-> blindings[k]]
    BY <1>1, <2>1
  <2>3. /\ Append([k \in 1 .. j |-> gens[k]], gens[j + 1]) = [k \in 1 .. j + 1 |-> gens[k]]
        /\ Append([k \in 1 .. j |-> blindings[k]], blindings[j + 1])
             = [k \in 1 .. j + 1 |-> blindings[k]]
    BY ListGrows
  <2>4. i = j + 1 /\ f[i] = [gens |-> [k \in 1 .. i |-> gens[k]],
                             blindings |-> [k \in 1 .. i |-> blindings[k]]]
    BY <1>1, <2>1
  <2> QED
    BY <2>2, <2>3, <2>4
<1>4. Commits(f, gens, blindings, n)
  <2>1. ASSUME NEW i \in 0 .. n
        PROVE  f[i] = IF i = 0 THEN [gens |-> <<>>, blindings |-> <<>>]
                      ELSE [gens |-> Append(f[i - 1].gens, gens[i]),
                            blindings |-> Append(f[i - 1].blindings, blindings[i])]
    <3>1. i = 0 \/ (i \in 1 .. n /\ i # 0)
      OBVIOUS
    <3> QED
      BY <1>2, <1>3, <3>1, Zenon
  <2>2. f = [i \in 0 .. n |-> f[i]]
    BY <1>1
  <2> QED
    BY <2>1, <2>2, Zenon DEF Commits
<1>5. ASSUME NEW after, Commits(after, gens, blindings, n)
      PROVE  after[n] = f[n]
  <2>1. \A i \in 0 .. n :
          after[i] = IF i = 0 THEN [gens |-> <<>>, blindings |-> <<>>]
                     ELSE [gens |-> Append(after[i - 1].gens, gens[i]),
                           blindings |-> Append(after[i - 1].blindings, blindings[i])]
    BY <1>5 DEF Commits
  <2>2. after[0] = f[0]
    <3>1. 0 \in 0 .. n
      OBVIOUS
    <3> QED
      BY <1>2, <2>1, <3>1, Zenon
  <2>3. ASSUME NEW i \in 1 .. n, after[i - 1] = f[i - 1]
        PROVE  after[i] = f[i]
    <3>1. i \in 0 .. n /\ i # 0
      OBVIOUS
    <3>2. after[i] = [gens |-> Append(after[i - 1].gens, gens[i]),
                      blindings |-> Append(after[i - 1].blindings, blindings[i])]
      BY <2>1, <3>1, Zenon
    <3> QED
      BY <1>3, <2>3, <3>2, Zenon
  <2>4. \A i \in 0 .. n : after[i] = f[i]
    BY <2>2, <2>3, RecursionUnique
  <2> QED
    BY <2>4
<1>6. f[n] = [gens |-> [k \in 1 .. n |-> gens[k]], blindings |-> [k \in 1 .. n |-> blindings[k]]]
  BY <1>1
<1> QED
  BY <1>4, <1>5, <1>6, Zenon

\* The prover has committed to one blinding for each generator, by position.
LEMMA Committed ==
  ASSUME NEW n \in Nat, NEW gens, ListOf(gens, n), NEW blindings
  PROVE  /\ PS!CommitAll(gens, blindings)
              = [gens |-> gens, blindings |-> [k \in 1 .. n |-> blindings[k]]]
         /\ BBS!CommitAll(gens, blindings) = PS!CommitAll(gens, blindings)
<1>1. Len(gens) = n
  <2>1. PICK S : S = {gens[k] : k \in 1 .. n}
    OBVIOUS
  <2>2. \A k \in 1 .. n : gens[k] \in S
    BY <2>1
  <2> QED
    BY <2>2, ListIsSeq
<1> DEFINE c == CHOOSE after : Commits(after, gens, blindings, Len(gens))
<1>2. /\ PS!CommitAll(gens, blindings) = c[Len(gens)]
      /\ BBS!CommitAll(gens, blindings) = c[Len(gens)]
  BY Zenon DEF PS!CommitAll, BBS!CommitAll, PS!NewCommitting, BBS!NewCommitting,
     PS!Commit, BBS!Commit, Commits
<1>3. Commits(c, gens, blindings, Len(gens))
  BY <1>1, CommitsTaken, Zenon
<1> HIDE DEF c
<1>4. c[n] = [gens |-> [k \in 1 .. n |-> gens[k]], blindings |-> [k \in 1 .. n |-> blindings[k]]]
  <2>1. Commits(c, gens, blindings, n)
    BY <1>1, <1>3
  <2>2. \A after : Commits(after, gens, blindings, n) =>
          after[n] = [gens |-> [k \in 1 .. n |-> gens[k]],
                      blindings |-> [k \in 1 .. n |-> blindings[k]]]
    BY CommitsTaken
  <2> QED
    BY <2>1, <2>2, Zenon
<1> QED
  BY <1>1, <1>2, <1>4 DEF ListOf

-----------------------------------------------------------------------------
\* A sum has a coefficient for each generator, and no other, the same in both schemes.
LEMMA CombineDomain ==
  ASSUME NEW gens, NEW scalars
  PROVE  /\ DOMAIN PS!Combine(gens, scalars) = {gens[k] : k \in DOMAIN gens}
         /\ BBS!Combine(gens, scalars) = PS!Combine(gens, scalars)
<1>1. DOMAIN PS!Combine(gens, scalars) = {gens[k] : k \in DOMAIN gens}
  BY DEF PS!Combine
<1>2. BBS!Combine(gens, scalars) = PS!Combine(gens, scalars)
  BY Zenon DEF PS!Combine, BBS!Combine
<1> QED
  BY <1>1, <1>2

\* It depends on the scalars of its positions only.
LEMMA CombineSame ==
  ASSUME NEW gens, NEW s, NEW t, \A k \in DOMAIN gens : s[k] = t[k]
  PROVE  PS!Combine(gens, s) = PS!Combine(gens, t)
<1>1. ASSUME NEW g \in {gens[k] : k \in DOMAIN gens}
      PROVE  s[CHOOSE k \in DOMAIN gens : gens[k] = g] = t[CHOOSE k \in DOMAIN gens : gens[k] = g]
  <2>1. PICK k : k = CHOOSE j \in DOMAIN gens : gens[j] = g
    OBVIOUS
  <2>2. \E j \in DOMAIN gens : gens[j] = g
    OBVIOUS
  <2>3. k \in DOMAIN gens
    BY <2>1, <2>2, Zenon
  <2> QED
    BY <2>1, <2>3, Zenon
<1> QED
  BY <1>1 DEF PS!Combine

\* The coefficient of a generator that has one position is the scalar there.
LEMMA CombineAt ==
  ASSUME NEW gens, NEW s, NEW k \in DOMAIN gens, \A j \in DOMAIN gens : gens[j] = gens[k] => j = k
  PROVE  PS!Combine(gens, s)[gens[k]] = s[k]
<1>1. PICK g : g = gens[k]
  OBVIOUS
<1>2. (CHOOSE j \in DOMAIN gens : gens[j] = g) = k
  BY <1>1, Zenon
<1>3. g \in {gens[j] : j \in DOMAIN gens}
  BY <1>1
<1>4. PICK c : c = CHOOSE j \in DOMAIN gens : gens[j] = g
  OBVIOUS
<1>5. PS!Combine(gens, s)[g] = s[c]
  BY <1>3, <1>4, Zenon DEF PS!Combine
<1> QED
  BY <1>1, <1>2, <1>4, <1>5

-----------------------------------------------------------------------------
(***************************************************************************)
(* One proof of knowledge: what the prover makes and what the verifier     *)
(* finds, in either scheme.                                                *)
(***************************************************************************)
Proved(bases, blind, challenge, secrets) ==
  PS!GenProof(PS!CommitAll(bases, blind), challenge, secrets)

\* Both schemes prove and verify with the same code.
LEMMA SameProofs ==
  ASSUME NEW bases, NEW n \in Nat, ListOf(bases, n)
  PROVE  /\ \A blind, challenge, secrets :
              BBS!GenProof(BBS!CommitAll(bases, blind), challenge, secrets)
                = Proved(bases, blind, challenge, secrets)
         /\ \A proof : BBS!VerifyRefused(proof, bases) <=> PS!VerifyRefused(proof, bases)
         /\ \A proof, opened, challenge :
              BBS!VerifyHolds(proof, bases, opened, challenge)
                <=> PS!VerifyHolds(proof, bases, opened, challenge)
<1>1. ASSUME NEW blind, NEW challenge, NEW secrets
      PROVE  BBS!GenProof(BBS!CommitAll(bases, blind), challenge, secrets)
               = Proved(bases, blind, challenge, secrets)
  <2>1. PICK c : c = PS!CommitAll(bases, blind)
    OBVIOUS
  <2>2. BBS!CommitAll(bases, blind) = c
    BY <2>1, Committed
  <2>3. BBS!GenProof(c, challenge, secrets) = PS!GenProof(c, challenge, secrets)
    <3>1. BBS!Combine(c.gens, c.blindings) = PS!Combine(c.gens, c.blindings)
      BY CombineDomain
    <3> QED
      BY <3>1, Zenon DEF BBS!GenProof, PS!GenProof, BBS!Commitment, PS!Commitment
  <2> QED
    BY <2>1, <2>2, <2>3, Zenon DEF Proved
<1>2. \A proof : BBS!VerifyRefused(proof, bases) <=> PS!VerifyRefused(proof, bases)
  BY DEF BBS!VerifyRefused, PS!VerifyRefused
<1>3. ASSUME NEW proof, NEW opened, NEW challenge
      PROVE  BBS!VerifyHolds(proof, bases, opened, challenge)
               <=> PS!VerifyHolds(proof, bases, opened, challenge)
  <2>1. BBS!Blindings(proof) = PS!Blindings(proof)
    BY Zenon DEF BBS!Blindings, PS!Blindings
  <2>2. BBS!Combine(bases, PS!Blindings(proof)) = PS!Combine(bases, PS!Blindings(proof))
    BY CombineDomain
  <2> QED
    BY <2>1, <2>2, Zenon DEF BBS!VerifyHolds, PS!VerifyHolds
<1> QED
  BY <1>1, <1>2, <1>3, Zenon

(***************************************************************************)
(* There is one response for each base; the verifier that has the bases of *)
(* the prover finds the commitment, and the sum of the secrets over them.  *)
(***************************************************************************)
LEMMA ProofParts ==
  ASSUME NEW n \in Nat, NEW bases, ListOf(bases, n), NEW secrets, ListOf(secrets, n),
         NEW blind, NEW challenge
  PROVE  LET proof == Proved(bases, blind, challenge, secrets)
         IN  /\ DOMAIN proof.responses = 1 .. n /\ Len(proof.responses) = n /\ Len(bases) = n
             /\ \A k \in 1 .. n :
                  proof.responses[k]
                    = [blinding |-> blind[k], challenge |-> challenge, secret |-> secrets[k]]
             /\ PS!Combine(bases, PS!Blindings(proof)) = proof.commitment
             /\ PS!Combine(bases, PS!Secrets(proof)) = PS!Combine(bases, secrets)
<1>1. PICK proof : proof = Proved(bases, blind, challenge, secrets)
  OBVIOUS
<1>2. Len(secrets) = n /\ Len(bases) = n /\ DOMAIN bases = 1 .. n
  <2>1. PICK S : S = {secrets[k] : k \in 1 .. n} \cup {bases[k] : k \in 1 .. n}
    OBVIOUS
  <2>2. (\A k \in 1 .. n : secrets[k] \in S) /\ (\A k \in 1 .. n : bases[k] \in S)
    BY <2>1
  <2>3. Len(secrets) = n
    BY <2>2, ListIsSeq
  <2>4. Len(bases) = n /\ DOMAIN bases = 1 .. n
    BY <2>2, ListIsSeq
  <2> QED
    BY <2>3, <2>4
<1>3. PICK taken : taken = [k \in 1 .. n |-> blind[k]]
  OBVIOUS
<1>4. PS!CommitAll(bases, blind) = [gens |-> bases, blindings |-> taken]
  BY <1>3, Committed
<1>5. /\ proof.commitment = PS!Combine(bases, taken)
      /\ proof.responses = [k \in 1 .. n |-> [blinding |-> taken[k], challenge |-> challenge,
                                              secret |-> secrets[k]]]
  BY <1>1, <1>2, <1>4 DEF Proved, PS!GenProof, PS!Commitment
<1>6. /\ DOMAIN proof.responses = 1 .. n
      /\ \A k \in 1 .. n : proof.responses[k] = [blinding |-> blind[k], challenge |-> challenge,
                                                 secret |-> secrets[k]]
  BY <1>3, <1>5
<1>7. Len(proof.responses) = n
  <2>1. PICK S : S = {proof.responses[k] : k \in 1 .. n}
    OBVIOUS
  <2>2. \A k \in 1 .. n : proof.responses[k] \in S
    BY <2>1
  <2>3. ListOf(proof.responses, n)
    BY <1>5 DEF ListOf
  <2> QED
    BY <2>2, <2>3, ListIsSeq
<1>8. ASSUME NEW k \in 1 .. n
       PROVE  /\ k \in DOMAIN proof.responses
              /\ proof.responses[k].blinding = blind[k] /\ proof.responses[k].secret = secrets[k]
  <2>1. PICK x : x = proof.responses[k]
    OBVIOUS
  <2>2. x = [blinding |-> blind[k], challenge |-> challenge, secret |-> secrets[k]]
    BY <1>6, <2>1, Zenon
  <2> QED
    BY <1>6, <2>1, <2>2
<1>9. PS!Combine(bases, PS!Blindings(proof)) = proof.commitment
  <2>1. \A k \in DOMAIN bases : PS!Blindings(proof)[k] = taken[k]
    BY <1>2, <1>3, <1>8 DEF PS!Blindings
  <2> QED
    BY <1>5, <2>1, CombineSame
<1>10. PS!Combine(bases, PS!Secrets(proof)) = PS!Combine(bases, secrets)
  <2>1. \A k \in DOMAIN bases : PS!Secrets(proof)[k] = secrets[k]
    BY <1>2, <1>8 DEF PS!Secrets
  <2> QED
    BY <2>1, CombineSame
<1> QED
  BY <1>1, <1>2, <1>6, <1>7, <1>9, <1>10, Zenon

\* An honest verifier is satisfied; one that is was given the challenge it has.
LEMMA ProofVerified ==
  ASSUME NEW n \in Nat, NEW bases, ListOf(bases, n), NEW secrets, ListOf(secrets, n),
         NEW blind, NEW challenge
  PROVE  LET proof == Proved(bases, blind, challenge, secrets)
         IN  /\ ~PS!VerifyRefused(proof, bases)
             /\ PS!VerifyHolds(proof, bases, TRUE, challenge)
             /\ n > 0 => \A found, opened, other :
                           PS!VerifyHolds(proof, found, opened, other) => other = challenge
<1>1. PICK proof : proof = Proved(bases, blind, challenge, secrets)
  OBVIOUS
<1>2. /\ DOMAIN proof.responses = 1 .. n /\ Len(proof.responses) = n /\ Len(bases) = n
      /\ \A k \in 1 .. n : proof.responses[k] = [blinding |-> blind[k], challenge |-> challenge,
                                                 secret |-> secrets[k]]
      /\ PS!Combine(bases, PS!Blindings(proof)) = proof.commitment
  BY <1>1, ProofParts
<1>3. ASSUME NEW k \in 1 .. n
      PROVE  proof.responses[k].challenge = challenge
  <2>1. PICK x : x = proof.responses[k]
    OBVIOUS
  <2>2. x = [blinding |-> blind[k], challenge |-> challenge, secret |-> secrets[k]]
    BY <1>2, <2>1, Zenon
  <2> QED
    BY <2>1, <2>2
<1>4. ~PS!VerifyRefused(proof, bases)
  BY <1>2 DEF PS!VerifyRefused
<1>5. PS!VerifyHolds(proof, bases, TRUE, challenge)
  BY <1>2, <1>3 DEF PS!VerifyHolds
<1>6. ASSUME n > 0, NEW found, NEW opened, NEW other, PS!VerifyHolds(proof, found, opened, other)
      PROVE  other = challenge
  <2>1. \A k \in 1 .. n : proof.responses[k].challenge = other
    BY <1>2, <1>6, Zenon DEF PS!VerifyHolds
  <2>2. 1 \in 1 .. n
    BY <1>6
  <2> QED
    BY <1>3, <2>1, <2>2
<1> QED
  BY <1>1, <1>4, <1>5, <1>6, Zenon

-----------------------------------------------------------------------------
(***************************************************************************)
(* Bases, secrets and blindings of a proof over the hidden messages: some  *)
(* c heads, which are not about messages, and then one element for each    *)
(* hidden position, in the order of the positions.                         *)
(***************************************************************************)
\* What the prover knows of the hidden message k-th in order.
Told(messages, hidden) == [k \in DOMAIN hidden |-> <<"m", messages[hidden[k]]>>]

\* The generators of the hidden positions; name is that of the scheme.
Points(name, key, hidden) == [k \in DOMAIN hidden |-> <<name, key, hidden[k]>>]

\* The blinding of the hidden message of rank k.
BlindingOf(given, draw, k) == IF given = None THEN <<"drawn", draw, k>> ELSE given[k]

InOrder(c, name, key, revealed, messages, given, draw, h, n, bases, secrets, blind) ==
  /\ n \in Nat /\ KeptOf(h, Count[key], revealed) /\ Len(h) = n /\ DOMAIN h = 1 .. n
  /\ ListOf(bases, c + n) /\ ListOf(secrets, c + n)
  /\ \A k \in 1 .. n : /\ bases[c + k] = <<name, key, h[k]>>
                       /\ secrets[c + k] = <<"m", messages[h[k]]>>
                       /\ blind[c + k] = BlindingOf(given, draw, k)

\* Putting the heads before what is about the hidden messages gives such lists.
LEMMA ListsInOrder ==
  ASSUME NEW c \in Nat, NEW hb, NEW hs, NEW hl, ListOf(hb, c), ListOf(hs, c), ListOf(hl, c),
         NEW name, NEW key \in DOMAIN Count, NEW revealed, NEW messages, NEW given, NEW draw
  PROVE  LET h == PS!HiddenSeq(key, revealed)
         IN  \E n \in Nat :
               InOrder(c, name, key, revealed, messages, given, draw, h, n,
                       Two(hb, Points(name, key, h)), Two(hs, Told(messages, h)),
                       Two(hl, PS!HiddenBlindings(key, revealed, given, draw)))
<1>1. PICK h : h = PS!HiddenSeq(key, revealed)
  OBVIOUS
<1>2. KeptOf(h, Count[key], revealed)
  BY <1>1, HiddenPositions
<1>3. PICK n \in Nat : n = Len(h) /\ DOMAIN h = 1 .. n
  BY <1>2 DEF KeptOf
<1>4. PICK points : points = Points(name, key, h)
  OBVIOUS
<1>5. PICK told : told = Told(messages, h)
  OBVIOUS
<1>6. PICK own : own = PS!HiddenBlindings(key, revealed, given, draw)
  OBVIOUS
<1>7. points = [k \in 1 .. n |-> <<name, key, h[k]>>]
  BY <1>3, <1>4 DEF Points
<1>8. told = [k \in 1 .. n |-> <<"m", messages[h[k]]>>]
  BY <1>3, <1>5 DEF Told
<1>9. own = [k \in 1 .. n |-> BlindingOf(given, draw, k)]
  <2>1. PS!Positions(key) \ revealed = {j \in 1 .. Count[key] : j \notin revealed}
    BY DEF PS!Positions
  <2>2. Cardinality(PS!Positions(key) \ revealed) = n
    BY <1>2, <1>3, <2>1, Zenon DEF KeptOf, Rank
  <2>3. PS!HiddenBlindings(key, revealed, given, draw)
          = [k \in 1 .. Cardinality(PS!Positions(key) \ revealed) |-> BlindingOf(given, draw, k)]
    BY Zenon DEF PS!HiddenBlindings, BlindingOf, PS!Cardinality, Cardinality, PS!IsFiniteSet,
       IsFiniteSet
  <2> QED
    BY <1>6, <2>2, <2>3
<1>10. ListOf(points, n) /\ \A k \in 1 .. n : points[k] = <<name, key, h[k]>>
  BY <1>7 DEF ListOf
<1>11. ListOf(told, n) /\ \A k \in 1 .. n : told[k] = <<"m", messages[h[k]]>>
  BY <1>8 DEF ListOf
<1>12. ListOf(own, n) /\ \A k \in 1 .. n : own[k] = BlindingOf(given, draw, k)
  BY <1>9 DEF ListOf
<1>13. ListOf(Two(hb, points), c + n) /\ \A k \in 1 .. n : Two(hb, points)[c + k] = points[k]
  <2>1. /\ ListOf(Two(hb, points), c + n)
        /\ \A k \in 1 .. c : Two(hb, points)[k] = hb[k]
        /\ \A k \in 1 .. n : Two(hb, points)[c + k] = points[k]
    BY <1>10, ListsJoined
  <2> QED
    BY <2>1, Zenon
<1>14. ListOf(Two(hs, told), c + n) /\ \A k \in 1 .. n : Two(hs, told)[c + k] = told[k]
  <2>1. /\ ListOf(Two(hs, told), c + n)
        /\ \A k \in 1 .. c : Two(hs, told)[k] = hs[k]
        /\ \A k \in 1 .. n : Two(hs, told)[c + k] = told[k]
    BY <1>11, ListsJoined
  <2> QED
    BY <2>1, Zenon
<1>15. \A k \in 1 .. n : Two(hl, own)[c + k] = own[k]
  <2>1. /\ ListOf(Two(hl, own), c + n)
        /\ \A k \in 1 .. c : Two(hl, own)[k] = hl[k]
        /\ \A k \in 1 .. n : Two(hl, own)[c + k] = own[k]
    BY <1>12, ListsJoined
  <2> QED
    BY <2>1, Zenon
<1>16. \A k \in 1 .. n : /\ Two(hb, points)[c + k] = <<name, key, h[k]>>
                         /\ Two(hs, told)[c + k] = <<"m", messages[h[k]]>>
                         /\ Two(hl, own)[c + k] = BlindingOf(given, draw, k)
  BY <1>10, <1>11, <1>12, <1>13, <1>14, <1>15, Zenon
<1>17. InOrder(c, name, key, revealed, messages, given, draw, h, n,
               Two(hb, points), Two(hs, told), Two(hl, own))
  BY <1>2, <1>3, <1>13, <1>14, <1>16, Zenon DEF InOrder
<1> QED
  BY <1>1, <1>4, <1>5, <1>6, <1>17, Zenon

\* Element c + j of a list of c + n is an element, and not one of the heads.
LEMMA Beyond ==
  ASSUME NEW c \in Nat, NEW n \in Nat, NEW j \in 1 .. n
  PROVE  c + j \in 1 .. c + n /\ c + j \notin 1 .. c /\ c + n \in Nat
OBVIOUS

\* The response about a hidden message.
Responded(given, draw, rank, challenge, message) ==
  [blinding |-> BlindingOf(given, draw, rank), challenge |-> challenge,
   secret |-> <<"m", message>>]

\* It is at the rank of the position, behind the heads.
LEMMA RespondsAtRank ==
  ASSUME NEW c \in Nat, NEW name, NEW key \in DOMAIN Count, NEW revealed, NEW messages, NEW given,
         NEW draw, NEW h, NEW n, NEW bases, NEW secrets, NEW blind, NEW challenge,
         InOrder(c, name, key, revealed, messages, given, draw, h, n, bases, secrets, blind),
         NEW i \in 1 .. Count[key], i \notin revealed
  PROVE  Proved(bases, blind, challenge, secrets).responses[c + Rank(i, revealed)]
           = Responded(given, draw, Rank(i, revealed), challenge, messages[i])
<1>1. n \in Nat /\ KeptOf(h, Count[key], revealed) /\ Len(h) = n
  BY Zenon DEF InOrder
<1>2. PICK k \in 1 .. n : k = Rank(i, revealed) /\ h[k] = i
  BY <1>1, Zenon DEF KeptOf
<1>3. PICK m \in Nat : m = c + n /\ c + k \in 1 .. m
  BY <1>1, Beyond
<1>4. ListOf(bases, m) /\ ListOf(secrets, m)
  BY <1>3, Zenon DEF InOrder
<1>5. \A l \in 1 .. m : Proved(bases, blind, challenge, secrets).responses[l]
        = [blinding |-> blind[l], challenge |-> challenge, secret |-> secrets[l]]
  BY <1>4, ProofParts
<1>6. blind[c + k] = BlindingOf(given, draw, k) /\ secrets[c + k] = <<"m", messages[i]>>
  BY <1>2, Zenon DEF InOrder
<1>7. Proved(bases, blind, challenge, secrets).responses[c + k]
        = [blinding |-> blind[c + k], challenge |-> challenge, secret |-> secrets[c + k]]
  BY <1>3, <1>5, Zenon
<1> QED
  BY <1>2, <1>6, <1>7, Zenon DEF Responded

-----------------------------------------------------------------------------
(***************************************************************************)
(* PS: what Init and Prove make of a signature and a call.                 *)
(***************************************************************************)
PSProof(s, key, messages, given, revealed, draw, challenge) ==
  PS!Prove(PS!Init(s, key, messages, given, revealed, draw), challenge)

PSParts(s, key, messages, given, revealed, draw, challenge, h, n, bases, secrets, blind) ==
  LET proof == PSProof(s, key, messages, given, revealed, draw, challenge)
  IN  /\ InOrder(1, "Y_tilde", key, revealed, messages, given, draw, h, n, bases, secrets, blind)
      /\ bases = PS!Bases(key, revealed) /\ bases[1] = <<"g_tilde">>
      /\ proof.sig = s /\ proof.J = PS!Combine(bases, secrets)
      /\ proof.proof = Proved(bases, blind, challenge, secrets)

\* The base g_tilde and the secret t come before what is about the messages.
LEMMA PSLists ==
  ASSUME NEW s, NEW key \in DOMAIN Count, NEW messages, NEW given, NEW revealed, NEW draw,
         NEW challenge
  PROVE  \E h, n, bases, secrets, blind :
           PSParts(s, key, messages, given, revealed, draw, challenge, h, n, bases, secrets, blind)
<1>1. PICK h : h = PS!HiddenSeq(key, revealed)
  OBVIOUS
<1>2. PICK hb : hb = <<<<"g_tilde">>>>
  OBVIOUS
<1>3. PICK hs : hs = <<<<"t", draw>>>>
  OBVIOUS
<1>4. PICK hl : hl = <<<<"drawn", draw, 0>>>>
  OBVIOUS
<1>5. ListOf(hb, 1) /\ ListOf(hs, 1) /\ ListOf(hl, 1) /\ hb[1] = <<"g_tilde">>
  BY <1>2, <1>3, <1>4 DEF ListOf
<1>6. PICK points : points = Points("Y_tilde", key, h)
  OBVIOUS
<1>7. PICK told : told = Told(messages, h)
  OBVIOUS
<1>8. PICK own : own = PS!HiddenBlindings(key, revealed, given, draw)
  OBVIOUS
<1>9. PICK one \in Nat : one = 1
  OBVIOUS
<1>10. \E n \in Nat : InOrder(one, "Y_tilde", key, revealed, messages, given, draw, h, n,
                               Two(hb, points), Two(hs, told), Two(hl, own))
  <2>1. ListOf(hb, one) /\ ListOf(hs, one) /\ ListOf(hl, one)
    BY <1>5, <1>9
  <2>2. LET g == PS!HiddenSeq(key, revealed)
        IN  \E n \in Nat :
              InOrder(one, "Y_tilde", key, revealed, messages, given, draw, g, n,
                      Two(hb, Points("Y_tilde", key, g)), Two(hs, Told(messages, g)),
                      Two(hl, PS!HiddenBlindings(key, revealed, given, draw)))
    BY <2>1, ListsInOrder
  <2> QED
    BY <1>1, <1>6, <1>7, <1>8, <2>2, Zenon
<1>11. PICK n \in Nat : InOrder(1, "Y_tilde", key, revealed, messages, given, draw, h, n,
                                Two(hb, points), Two(hs, told), Two(hl, own))
  BY <1>9, <1>10, Zenon
<1>12. PICK bases : bases = Two(hb, points)
  OBVIOUS
<1>13. PICK secrets : secrets = Two(hs, told)
  OBVIOUS
<1>14. PICK blind : blind = Two(hl, own)
  OBVIOUS
<1>15. bases = PS!Bases(key, revealed)
  BY <1>1, <1>2, <1>6, <1>12, Zenon DEF PS!Bases, PS!G, PS!Y, Points, Two
<1>16. bases[1] = <<"g_tilde">>
  <2>1. n \in Nat /\ KeptOf(h, Count[key], revealed) /\ Len(h) = n /\ DOMAIN h = 1 .. n
    BY <1>11, Zenon DEF InOrder
  <2>2. ListOf(points, n)
    BY <1>6, <2>1 DEF ListOf, Points
  <2>3. ListOf(hb, one)
    BY <1>5, <1>9
  <2>4. \A k \in 1 .. one : Two(hb, points)[k] = hb[k]
    BY <2>1, <2>2, <2>3, ListsJoined
  <2>5. 1 \in 1 .. one
    BY <1>9
  <2> QED
    BY <1>5, <1>12, <2>4, <2>5, Zenon
<1>17. PICK made : made = [sig |-> s, secrets |-> secrets, J |-> PS!Combine(bases, secrets),
                           pok |-> PS!CommitAll(bases, blind)]
  OBVIOUS
<1>18. PS!Init(s, key, messages, given, revealed, draw) = made
  BY <1>1, <1>3, <1>4, <1>7, <1>8, <1>13, <1>14, <1>15, <1>17, Zenon
     DEF PS!Init, PS!Message, Told, Two
<1>19. /\ made.sig = s /\ made.secrets = secrets /\ made.J = PS!Combine(bases, secrets)
       /\ made.pok = PS!CommitAll(bases, blind)
  BY <1>17
<1>20. PICK proof : proof = PSProof(s, key, messages, given, revealed, draw, challenge)
  OBVIOUS
<1>21. proof = [sig |-> made.sig, J |-> made.J,
                proof |-> PS!GenProof(made.pok, challenge, made.secrets)]
  BY <1>18, <1>20, Zenon DEF PSProof, PS!Prove
<1>22. /\ proof.sig = s /\ proof.J = PS!Combine(bases, secrets)
       /\ proof.proof = Proved(bases, blind, challenge, secrets)
  BY <1>19, <1>21 DEF Proved
<1>23. PSParts(s, key, messages, given, revealed, draw, challenge, h, n, bases, secrets, blind)
  BY <1>11, <1>12, <1>13, <1>14, <1>15, <1>16, <1>20, <1>22, Zenon DEF PSParts
<1> QED
  BY <1>23, Zenon

\* The generator of position i is the base of its rank, if i is hidden.
BaseAt(bases, secrets, key, revealed, messages, i) ==
  /\ \A k \in DOMAIN bases : bases[k] = PS!Y(key, i) =>
       i \notin revealed /\ k = 1 + Rank(i, revealed)
  /\ i \notin revealed =>
       /\ 1 + Rank(i, revealed) \in DOMAIN bases
       /\ bases[1 + Rank(i, revealed)] = PS!Y(key, i)
       /\ secrets[1 + Rank(i, revealed)] = <<"m", messages[i]>>

\* The bases of the hidden positions are those of their ranks, and no other is.
LEMMA PSBaseAt ==
  ASSUME NEW s, NEW key \in DOMAIN Count, NEW messages, NEW given, NEW revealed, NEW draw,
         NEW challenge, NEW h, NEW n, NEW bases, NEW secrets, NEW blind,
         PSParts(s, key, messages, given, revealed, draw, challenge, h, n, bases, secrets, blind),
         NEW i \in 1 .. Count[key]
  PROVE  BaseAt(bases, secrets, key, revealed, messages, i)
<1>1. /\ n \in Nat /\ KeptOf(h, Count[key], revealed) /\ Len(h) = n
      /\ ListOf(bases, 1 + n) /\ bases[1] = <<"g_tilde">>
      /\ \A k \in 1 .. n : /\ bases[1 + k] = <<"Y_tilde", key, h[k]>>
                           /\ secrets[1 + k] = <<"m", messages[h[k]]>>
  BY Zenon DEF PSParts, InOrder
<1>2. DOMAIN bases = 1 .. 1 + n
  BY <1>1 DEF ListOf
<1>3. \A k \in 1 .. n : h[k] \notin revealed /\ Rank(h[k], revealed) = k
  BY <1>1, Zenon DEF KeptOf
<1>4. ASSUME NEW k \in DOMAIN bases, bases[k] = PS!Y(key, i)
      PROVE  i \notin revealed /\ k = 1 + Rank(i, revealed)
  <2>1. PICK y : y = bases[k]
    OBVIOUS
  <2>2. y = <<"Y_tilde", key, i>>
    BY <1>4, <2>1 DEF PS!Y
  <2>3. k # 1
    <3>1. y # <<"g_tilde">>
      BY <2>2
    <3> QED
      BY <1>1, <2>1, <3>1, Zenon
  <2>4. k - 1 \in 1 .. n /\ k = 1 + (k - 1)
    BY <1>1, <1>2, <2>3
  <2>5. PICK j \in 1 .. n : k = 1 + j
    BY <2>4, Zenon
  <2>6. y = <<"Y_tilde", key, h[j]>>
    BY <1>1, <2>1, <2>5, Zenon
  <2>7. h[j] = i
    BY <2>2, <2>6
  <2> QED
    BY <1>3, <2>5, <2>7, Zenon
<1>5. ASSUME i \notin revealed
      PROVE  /\ 1 + Rank(i, revealed) \in DOMAIN bases
             /\ bases[1 + Rank(i, revealed)] = PS!Y(key, i)
             /\ secrets[1 + Rank(i, revealed)] = <<"m", messages[i]>>
  <2>1. PICK j \in 1 .. n : j = Rank(i, revealed) /\ h[j] = i
    BY <1>1, <1>5, Zenon DEF KeptOf
  <2>2. 1 + j \in DOMAIN bases
    BY <1>1, <1>2
  <2>3. bases[1 + j] = PS!Y(key, i) /\ secrets[1 + j] = <<"m", messages[i]>>
    BY <1>1, <2>1, Zenon DEF PS!Y
  <2> QED
    BY <2>1, <2>2, <2>3, Zenon
<1> QED
  BY <1>4, <1>5 DEF BaseAt

\* The generator of a position is a base if and only if the position is hidden.
LEMMA PSBaseOfHidden ==
  ASSUME NEW key \in DOMAIN Count, NEW revealed, NEW i \in 1 .. Count[key]
  PROVE  PS!Y(key, i) \in {PS!Bases(key, revealed)[k] : k \in DOMAIN PS!Bases(key, revealed)}
           <=> i \notin revealed
<1>1. PICK s, messages, given, draw, challenge : s = 0 /\ messages = 0 /\ given = 0 /\ draw = 0
                                                 /\ challenge = 0
  OBVIOUS
<1>2. PICK h, n, bases, secrets, blind :
        PSParts(s, key, messages, given, revealed, draw, challenge, h, n, bases, secrets, blind)
  BY PSLists
<1>3. bases = PS!Bases(key, revealed)
  BY <1>2, Zenon DEF PSParts
<1>4. /\ \A k \in DOMAIN bases : bases[k] = PS!Y(key, i) => i \notin revealed
      /\ i \notin revealed => \E k \in DOMAIN bases : bases[k] = PS!Y(key, i)
  <2>1. BaseAt(bases, secrets, key, revealed, messages, i)
    BY <1>2, PSBaseAt
  <2> QED
    BY <2>1, Zenon DEF BaseAt
<1>5. PS!Y(key, i) \in {bases[k] : k \in DOMAIN bases} <=> i \notin revealed
  BY <1>4, Zenon
<1> QED
  BY <1>3, <1>5, Zenon

\* What an accepted proof shows of the signature it was made from.
SoundFor(s, challenge, other, shown, asked) ==
  /\ s.key = other /\ asked = challenge
  /\ \A b \in SignBlindings : s.left[b] = 0
  /\ \A i \in DOMAIN shown : i \in DOMAIN s.at /\ s.at[i] = shown[i]

(***************************************************************************)
(* What PoKOfSignatureProof::verify of PS accepts was made from a          *)
(* signature of the verifier's key without a blinding, for its challenge,  *)
(* and the messages it was shown are the signed ones.                      *)
(***************************************************************************)
LEMMA PSAccepts ==
  ASSUME NEW key \in DOMAIN Count, NEW revealed, NEW messages, NEW given, NEW draw,
         NEW s, NEW challenge,
         NEW other \in DOMAIN Count, NEW shown, shown \in [DOMAIN shown -> Nat], NEW asked,
         PS!VerifyProof(PSProof(s, key, messages, given, revealed, draw, challenge),
                        other, shown, asked) = "true"
  PROVE  SoundFor(s, challenge, other, shown, asked)
<1>1. PICK proof : proof = PSProof(s, key, messages, given, revealed, draw, challenge)
  OBVIOUS
<1>2. PICK h, n, bases, secrets, blind :
        PSParts(s, key, messages, given, revealed, draw, challenge, h, n, bases, secrets, blind)
  BY PSLists
<1>3. /\ n \in Nat /\ ListOf(bases, 1 + n) /\ ListOf(secrets, 1 + n)
      /\ proof.sig = s /\ proof.J = PS!Combine(bases, secrets)
      /\ proof.proof = Proved(bases, blind, challenge, secrets)
  BY <1>1, <1>2, Zenon DEF PSParts, InOrder
<1>4. PICK found : found = PS!Bases(other, DOMAIN shown)
  OBVIOUS
<1>5. PICK opened : opened = (PS!Combine(found, PS!Secrets(proof.proof)) = proof.J)
  OBVIOUS
<1>6. /\ PS!VerifyHolds(proof.proof, found, opened, asked)
      /\ DOMAIN shown \subseteq PS!Positions(other)
      /\ PS!PairingHolds(proof, other, shown)
  <2>1. PS!VerifyProof(proof, other, shown, asked) = "true"
    BY <1>1
  <2>2. "error" # "true" /\ "false" # "true" /\ "panic" # "true"
    OBVIOUS
  <2> QED
    BY <1>4, <1>5, <2>1, <2>2, Zenon DEF PS!VerifyProof
<1>7. asked = challenge
  <2>1. PICK m \in Nat : m = 1 + n /\ m > 0
    BY <1>3
  <2>2. ListOf(bases, m) /\ ListOf(secrets, m)
    BY <1>3, <2>1
  <2>3. m > 0 => \A gens, open, late :
                   PS!VerifyHolds(Proved(bases, blind, challenge, secrets), gens, open, late)
                     => late = challenge
    BY <2>2, ProofVerified
  <2> QED
    BY <1>3, <1>6, <2>1, <2>3, Zenon
<1>8. DOMAIN proof.J = {found[k] : k \in DOMAIN found}
  <2>1. opened
    BY <1>6, Zenon DEF PS!VerifyHolds
  <2>2. DOMAIN PS!Combine(found, PS!Secrets(proof.proof)) = {found[k] : k \in DOMAIN found}
    BY CombineDomain
  <2> QED
    BY <1>5, <2>1, <2>2, Zenon
<1>9. /\ s.key = other /\ \A b \in SignBlindings : s.left[b] = 0
      /\ s.at = [i \in PS!Positions(other) |-> PS!Exponent(proof, other, shown, i)]
  BY <1>3, <1>6, Zenon DEF PS!PairingHolds, PS!Covers
<1>10. ASSUME NEW i \in DOMAIN shown
       PROVE  i \in DOMAIN s.at /\ s.at[i] = shown[i]
  <2>1. i \in PS!Positions(other) /\ i \in 1 .. Count[other]
    BY <1>6 DEF PS!Positions
  <2>2. PS!Y(other, i) \notin DOMAIN proof.J
    BY <1>4, <1>8, <2>1, PSBaseOfHidden
  <2>3. PS!Exponent(proof, other, shown, i) = 0 + shown[i]
    BY <2>2, Zenon DEF PS!Exponent
  <2>4. shown[i] \in Nat
    OBVIOUS
  <2>5. s.at[i] = PS!Exponent(proof, other, shown, i) /\ i \in DOMAIN s.at
    BY <1>9, <2>1
  <2> QED
    BY <2>3, <2>4, <2>5
<1> QED
  BY <1>7, <1>9, <1>10 DEF SoundFor

(***************************************************************************)
(* A holder that proves the messages its signature covers, and tells the   *)
(* verifier those it reveals, is accepted.                                 *)
(***************************************************************************)
LEMMA PSHonest ==
  ASSUME NEW key \in DOMAIN Count, NEW revealed \in SUBSET (1 .. Count[key]),
         NEW messages \in Seq(Nat), Len(messages) = Count[key],
         NEW given, NEW draw, NEW s, NEW challenge,
         s.key = key, s.at = messages, \A b \in SignBlindings : s.left[b] = 0
  PROVE  PS!VerifyProof(PSProof(s, key, messages, given, revealed, draw, challenge),
                        key, [i \in revealed |-> messages[i]], challenge) = "true"
<1>1. PICK proof : proof = PSProof(s, key, messages, given, revealed, draw, challenge)
  OBVIOUS
<1>2. PICK h, n, bases, secrets, blind :
        PSParts(s, key, messages, given, revealed, draw, challenge, h, n, bases, secrets, blind)
  BY PSLists
<1>3. /\ n \in Nat /\ ListOf(bases, 1 + n) /\ ListOf(secrets, 1 + n)
      /\ bases = PS!Bases(key, revealed)
      /\ proof.sig = s /\ proof.J = PS!Combine(bases, secrets)
      /\ proof.proof = Proved(bases, blind, challenge, secrets)
  BY <1>1, <1>2, Zenon DEF PSParts, InOrder
<1>4. PICK shown : shown = [i \in revealed |-> messages[i]]
  OBVIOUS
<1>5. DOMAIN shown = revealed /\ \A i \in revealed : shown[i] = messages[i]
  BY <1>4
<1>6. PICK m \in Nat : m = 1 + n
  BY <1>3
<1>7. ListOf(bases, m) /\ ListOf(secrets, m)
  BY <1>3, <1>6
<1>8. /\ ~PS!VerifyRefused(proof.proof, bases)
      /\ PS!VerifyHolds(proof.proof, bases, TRUE, challenge)
  <2>1. /\ ~PS!VerifyRefused(Proved(bases, blind, challenge, secrets), bases)
        /\ PS!VerifyHolds(Proved(bases, blind, challenge, secrets), bases, TRUE, challenge)
    BY <1>7, ProofVerified
  <2> QED
    BY <1>3, <2>1, Zenon
<1>9. PS!Combine(bases, PS!Secrets(proof.proof)) = proof.J
  BY <1>3, <1>7, ProofParts
<1>10. DOMAIN proof.J = {bases[k] : k \in DOMAIN bases}
  <2>1. DOMAIN PS!Combine(bases, secrets) = {bases[k] : k \in DOMAIN bases}
    BY CombineDomain
  <2> QED
    BY <1>3, <2>1, Zenon
<1>11. ASSUME NEW i \in 1 .. Count[key], i \notin revealed
       PROVE  PS!Y(key, i) \in DOMAIN proof.J /\ proof.J[PS!Y(key, i)] = <<"m", messages[i]>>
  <2>1. PICK k : k = 1 + Rank(i, revealed)
    OBVIOUS
  <2>0. BaseAt(bases, secrets, key, revealed, messages, i)
    BY <1>2, PSBaseAt
  <2>2. k \in DOMAIN bases /\ bases[k] = PS!Y(key, i) /\ secrets[k] = <<"m", messages[i]>>
    BY <1>11, <2>0, <2>1, Zenon DEF BaseAt
  <2>3. \A l \in DOMAIN bases : bases[l] = PS!Y(key, i) => l = k
    BY <2>0, <2>1, Zenon DEF BaseAt
  <2>4. \A l \in DOMAIN bases : bases[l] = bases[k] => l = k
    BY <2>2, <2>3, Zenon
  <2>5. PS!Combine(bases, secrets)[bases[k]] = secrets[k]
    BY <2>2, <2>4, CombineAt
  <2> QED
    BY <1>3, <1>10, <2>2, <2>5, Zenon
<1>12. ASSUME NEW i \in 1 .. Count[key]
       PROVE  PS!Exponent(proof, key, shown, i) = messages[i]
  <2>0. messages[i] \in Nat
    BY CountAssumption
  <2>1. CASE i \in revealed
    <3>1. PS!Y(key, i) \notin DOMAIN proof.J
      BY <1>3, <1>10, <2>1, PSBaseOfHidden
    <3>2. PS!Exponent(proof, key, shown, i) = 0 + messages[i]
      BY <1>5, <2>1, <3>1, Zenon DEF PS!Exponent
    <3> QED
      BY <2>0, <3>2
  <2>2. CASE i \notin revealed
    <3>1. PS!Exponent(proof, key, shown, i) = <<"m", messages[i]>>[2] + 0
      BY <1>5, <1>11, <2>2, Zenon DEF PS!Exponent
    <3>2. <<"m", messages[i]>>[2] = messages[i]
      OBVIOUS
    <3> QED
      BY <2>0, <3>1, <3>2
  <2> QED
    BY <2>1, <2>2
<1>13. PS!PairingHolds(proof, key, shown)
  <2>1. PICK exponents : exponents = [i \in PS!Positions(key) |-> PS!Exponent(proof, key, shown, i)]
    OBVIOUS
  <2>2. exponents = messages
    <3>1. messages = [i \in 1 .. Count[key] |-> messages[i]]
      OBVIOUS
    <3>2. exponents = [i \in 1 .. Count[key] |-> messages[i]]
      BY <1>12, <2>1, Zenon DEF PS!Positions
    <3> QED
      BY <3>1, <3>2
  <2> QED
    BY <1>3, <2>1, <2>2, Zenon DEF PS!PairingHolds, PS!Covers
<1>14. DOMAIN shown \subseteq PS!Positions(key)
  BY <1>5 DEF PS!Positions
<1>15. PS!VerifyProof(proof, key, shown, challenge) = "true"
  <2>1. bases = PS!Bases(key, DOMAIN shown)
    BY <1>3, <1>5
  <2>2. PS!VerifyHolds(proof.proof, bases,
                       PS!Combine(bases, PS!Secrets(proof.proof)) = proof.J, challenge)
    BY <1>8, <1>9, Zenon DEF PS!VerifyHolds
  <2> QED
    BY <1>8, <1>13, <1>14, <2>1, <2>2, Zenon DEF PS!VerifyProof
<1> QED
  BY <1>1, <1>4, <1>15

\* In PS the responses of the messages come after one other.
LEMMA PSResponds ==
  ASSUME NEW key \in DOMAIN Count, NEW revealed, NEW messages, NEW given, NEW draw,
         NEW s, NEW challenge, NEW i \in 1 .. Count[key], i \notin revealed
  PROVE  PS!ResponseAt(PSProof(s, key, messages, given, revealed, draw, challenge), revealed, i)
           = Responded(given, draw, Rank(i, revealed), challenge, messages[i])
<1>1. PICK proof : proof = PSProof(s, key, messages, given, revealed, draw, challenge)
  OBVIOUS
<1>2. PICK h, n, bases, secrets, blind :
        PSParts(s, key, messages, given, revealed, draw, challenge, h, n, bases, secrets, blind)
  BY PSLists
<1>3. /\ InOrder(1, "Y_tilde", key, revealed, messages, given, draw, h, n, bases, secrets, blind)
      /\ proof.proof = Proved(bases, blind, challenge, secrets)
  BY <1>1, <1>2, Zenon DEF PSParts
<1>4. PICK one \in Nat : one = 1
  OBVIOUS
<1>5. InOrder(one, "Y_tilde", key, revealed, messages, given, draw, h, n, bases, secrets, blind)
  BY <1>3, <1>4, Zenon
<1>6. Proved(bases, blind, challenge, secrets).responses[one + Rank(i, revealed)]
        = Responded(given, draw, Rank(i, revealed), challenge, messages[i])
  BY <1>5, RespondsAtRank
<1>7. PS!ResponseAt(proof, revealed, i) = proof.proof.responses[1 + Rank(i, revealed)]
  <2>1. PS!ResponseAt(proof, revealed, i)
          = proof.proof.responses[1 + Cardinality({j \in 1 .. i : j \notin revealed})]
    BY Zenon DEF PS!ResponseAt, PS!Cardinality, Cardinality, PS!IsFiniteSet, IsFiniteSet
  <2>2. Rank(i, revealed) = Cardinality({j \in 1 .. i : j \notin revealed})
    BY DEF Rank
  <2> QED
    BY <2>1, <2>2, Zenon
<1> QED
  BY <1>1, <1>3, <1>4, <1>6, <1>7, Zenon

-----------------------------------------------------------------------------
(***************************************************************************)
(* BBS: the same, with a first proof that is not about messages, and two   *)
(* heads in the second.                                                    *)
(***************************************************************************)
BBSProof(s, key, messages, given, revealed, draw, challenge) ==
  BBS!Prove(BBS!Init(s, key, messages, given, revealed, draw), challenge)

FirstBases(key, draw) == <<BBS!APrime(draw), BBS!H0(key)>>
FirstBlind(draw) == <<<<"drawn", draw, -3>>, <<"drawn", draw, -2>>>>
FirstSecrets(draw) == <<<<"-e", draw>>, <<"r2", draw>>>>

BBSParts(s, key, messages, given, revealed, draw, challenge, h, n, bases, secrets, blind) ==
  LET proof == BBSProof(s, key, messages, given, revealed, draw, challenge)
  IN  /\ InOrder(2, "h", key, revealed, messages, given, draw, h, n, bases, secrets, blind)
      /\ bases = BBS!Bases(key, revealed, draw)
      /\ proof.sig = s /\ proof.draw = draw
      /\ proof.sum = [key |-> key, messages |-> messages, revealed |-> revealed]
      /\ proof.proof1 = Proved(FirstBases(key, draw), FirstBlind(draw), challenge,
                               FirstSecrets(draw))
      /\ proof.proof2 = Proved(bases, blind, challenge, secrets)

\* The lists of the first proof have two elements.
LEMMA FirstOfTwo ==
  ASSUME NEW key, NEW draw
  PROVE  ListOf(FirstBases(key, draw), 2) /\ ListOf(FirstSecrets(draw), 2)
<1>1. PICK p, q : p = BBS!APrime(draw) /\ q = BBS!H0(key)
  OBVIOUS
<1>2. PICK x, y : x = <<"-e", draw>> /\ y = <<"r2", draw>>
  OBVIOUS
<1>3. ListOf(<<p, q>>, 2) /\ ListOf(<<x, y>>, 2)
  BY DEF ListOf
<1> QED
  BY <1>1, <1>2, <1>3, Zenon DEF FirstBases, FirstSecrets

\* d and h0 come before what is about the messages.
LEMMA BBSLists ==
  ASSUME NEW s, NEW key \in DOMAIN Count, NEW messages, NEW given, NEW revealed, NEW draw,
         NEW challenge
  PROVE  \E h, n, bases, secrets, blind :
           BBSParts(s, key, messages, given, revealed, draw, challenge, h, n, bases, secrets, blind)
<1>1. PICK h : h = PS!HiddenSeq(key, revealed)
  OBVIOUS
<1>2. PICK hb : hb = <<BBS!D(draw), BBS!H0(key)>>
  OBVIOUS
<1>3. PICK hs : hs = <<<<"-r3", draw>>, <<"s_prime", draw>>>>
  OBVIOUS
<1>4. PICK hl : hl = <<<<"drawn", draw, -1>>, <<"drawn", draw, 0>>>>
  OBVIOUS
<1>5. ListOf(hb, 2) /\ ListOf(hs, 2) /\ ListOf(hl, 2)
  <2>1. \A x, y : ListOf(<<x, y>>, 2)
    BY DEF ListOf
  <2> QED
    BY <1>2, <1>3, <1>4, <2>1, Zenon
<1>6. PICK points : points = Points("h", key, h)
  OBVIOUS
<1>7. PICK told : told = Told(messages, h)
  OBVIOUS
<1>8. PICK own : own = PS!HiddenBlindings(key, revealed, given, draw)
  OBVIOUS
<1>9. PICK two \in Nat : two = 2
  OBVIOUS
<1>10. \E n \in Nat : InOrder(two, "h", key, revealed, messages, given, draw, h, n,
                               Two(hb, points), Two(hs, told), Two(hl, own))
  <2>1. ListOf(hb, two) /\ ListOf(hs, two) /\ ListOf(hl, two)
    BY <1>5, <1>9
  <2>2. LET g == PS!HiddenSeq(key, revealed)
        IN  \E n \in Nat :
              InOrder(two, "h", key, revealed, messages, given, draw, g, n,
                      Two(hb, Points("h", key, g)), Two(hs, Told(messages, g)),
                      Two(hl, PS!HiddenBlindings(key, revealed, given, draw)))
    BY <2>1, ListsInOrder
  <2> QED
    BY <1>1, <1>6, <1>7, <1>8, <2>2, Zenon
<1>11. PICK n \in Nat : InOrder(2, "h", key, revealed, messages, given, draw, h, n,
                                Two(hb, points), Two(hs, told), Two(hl, own))
  BY <1>9, <1>10, Zenon
<1>12. PICK bases : bases = Two(hb, points)
  OBVIOUS
<1>13. PICK secrets : secrets = Two(hs, told)
  OBVIOUS
<1>14. PICK blind : blind = Two(hl, own)
  OBVIOUS
<1>15. h = BBS!HiddenSeq(key, revealed)
  BY <1>1, HiddenPositions
<1>16. own = BBS!HiddenBlindings(key, revealed, given, draw)
  BY <1>8, Zenon DEF BBS!HiddenBlindings, PS!HiddenBlindings, BBS!Positions, PS!Positions,
     PS!Cardinality, BBS!Cardinality, PS!IsFiniteSet, BBS!IsFiniteSet
<1>17. bases = BBS!Bases(key, revealed, draw)
  BY <1>2, <1>6, <1>12, <1>15, Zenon DEF BBS!Bases, BBS!H, Points, Two
<1>18. ListOf(bases, 2 + n)
  BY <1>11, <1>12, Zenon DEF InOrder
<1>19. PICK made : made = [sig |-> s, draw |-> draw,
         sum |-> [key |-> key, messages |-> messages, revealed |-> revealed],
         pok1 |-> BBS!CommitAll(FirstBases(key, draw), FirstBlind(draw)),
         secrets1 |-> FirstSecrets(draw),
         pok2 |-> BBS!CommitAll(bases, blind), secrets2 |-> secrets]
  OBVIOUS
<1>20. BBS!Init(s, key, messages, given, revealed, draw) = made
  BY <1>3, <1>4, <1>7, <1>13, <1>14, <1>15, <1>16, <1>17, <1>19, Zenon
     DEF BBS!Init, Told, Two, FirstBases, FirstBlind, FirstSecrets
<1>21. /\ made.sig = s /\ made.draw = draw
       /\ made.sum = [key |-> key, messages |-> messages, revealed |-> revealed]
       /\ made.pok1 = BBS!CommitAll(FirstBases(key, draw), FirstBlind(draw))
       /\ made.secrets1 = FirstSecrets(draw)
       /\ made.pok2 = BBS!CommitAll(bases, blind) /\ made.secrets2 = secrets
  BY <1>19
<1>22. PICK proof : proof = BBSProof(s, key, messages, given, revealed, draw, challenge)
  OBVIOUS
<1>23. proof = [sig |-> made.sig, draw |-> made.draw, sum |-> made.sum,
                proof1 |-> BBS!GenProof(made.pok1, challenge, made.secrets1),
                proof2 |-> BBS!GenProof(made.pok2, challenge, made.secrets2)]
  BY <1>20, <1>22, Zenon DEF BBSProof, BBS!Prove
<1>24. BBS!GenProof(BBS!CommitAll(FirstBases(key, draw), FirstBlind(draw)), challenge,
                    FirstSecrets(draw))
         = Proved(FirstBases(key, draw), FirstBlind(draw), challenge, FirstSecrets(draw))
  <2>1. ListOf(FirstBases(key, draw), two)
    BY <1>9, FirstOfTwo
  <2> QED
    BY <2>1, SameProofs
<1>25. BBS!GenProof(BBS!CommitAll(bases, blind), challenge, secrets)
         = Proved(bases, blind, challenge, secrets)
  <2>1. PICK m \in Nat : m = 2 + n
    OBVIOUS
  <2>2. ListOf(bases, m)
    BY <1>18, <2>1
  <2> QED
    BY <2>2, SameProofs
<1>26. /\ proof.sig = s /\ proof.draw = draw
       /\ proof.sum = [key |-> key, messages |-> messages, revealed |-> revealed]
       /\ proof.proof1 = Proved(FirstBases(key, draw), FirstBlind(draw), challenge,
                                FirstSecrets(draw))
       /\ proof.proof2 = Proved(bases, blind, challenge, secrets)
  BY <1>21, <1>23, <1>24, <1>25
<1>27. BBSParts(s, key, messages, given, revealed, draw, challenge, h, n, bases, secrets, blind)
  BY <1>11, <1>12, <1>13, <1>14, <1>17, <1>22, <1>26, Zenon DEF BBSParts
<1> QED
  BY <1>27, Zenon

(***************************************************************************)
(* What PoKOfSignatureProof::verify of BBS accepts was made from a         *)
(* signature of the verifier's key without a blinding, for its challenge,  *)
(* and the messages it was shown are the signed ones.                      *)
(***************************************************************************)
LEMMA BBSAccepts ==
  ASSUME NEW key \in DOMAIN Count, NEW revealed, NEW messages \in Seq(Nat),
         Len(messages) = Count[key], NEW given, NEW draw, NEW s, NEW challenge,
         NEW other \in DOMAIN Count, NEW shown, NEW asked,
         BBS!VerifyProof(BBSProof(s, key, messages, given, revealed, draw, challenge),
                         other, shown, asked) = "true"
  PROVE  SoundFor(s, challenge, other, shown, asked)
<1>1. PICK proof : proof = BBSProof(s, key, messages, given, revealed, draw, challenge)
  OBVIOUS
<1>2. PICK h, n, bases, secrets, blind :
        BBSParts(s, key, messages, given, revealed, draw, challenge, h, n, bases, secrets, blind)
  BY BBSLists
<1>3. /\ proof.sig = s /\ proof.draw = draw
      /\ proof.sum = [key |-> key, messages |-> messages, revealed |-> revealed]
      /\ proof.proof1 = Proved(FirstBases(key, draw), FirstBlind(draw), challenge,
                               FirstSecrets(draw))
  BY <1>1, <1>2, Zenon DEF BBSParts
<1>4. proof.sum.key = key /\ proof.sum.messages = messages /\ proof.sum.revealed = revealed
  BY <1>3
<1>5. PICK found : found = <<BBS!APrime(proof.draw), BBS!H0(other)>>
  OBVIOUS
<1>6. /\ DOMAIN shown \subseteq BBS!Positions(other) /\ BBS!PairingHolds(proof, other)
      /\ BBS!VerifyHolds(proof.proof1, found, proof.sum.key = other, asked)
      /\ \E bases2 : BBS!VerifyHolds(proof.proof2, bases2, BBS!Opened(proof, other, shown), asked)
  <2>1. BBS!VerifyProof(proof, other, shown, asked) = "true"
    BY <1>1
  <2>2. "error" # "true" /\ "false" # "true"
    OBVIOUS
  <2> QED
    BY <1>5, <2>1, <2>2, Zenon DEF BBS!VerifyProof
<1>7. asked = challenge
  <2>1. PICK m \in Nat : m = 2 /\ m > 0
    OBVIOUS
  <2>2. ListOf(FirstBases(key, draw), m) /\ ListOf(FirstSecrets(draw), m)
    BY <2>1, FirstOfTwo
  <2>3. PICK first : first = FirstBases(key, draw)
    OBVIOUS
  <2>4. PICK told : told = FirstSecrets(draw)
    OBVIOUS
  <2>5. PICK blinds : blinds = FirstBlind(draw)
    OBVIOUS
  <2>6. ListOf(first, m) /\ ListOf(told, m)
    BY <2>2, <2>3, <2>4, Zenon
  <2>7. m > 0 => \A gens, open, late :
                   PS!VerifyHolds(Proved(first, blinds, challenge, told), gens, open, late)
                     => late = challenge
    BY <2>6, ProofVerified
  <2>8. PS!VerifyHolds(proof.proof1, found, proof.sum.key = other, asked)
    <3>1. ListOf(found, 2)
      <4>1. \A x, y : ListOf(<<x, y>>, 2)
        BY DEF ListOf
      <4> QED
        BY <1>5, <4>1, Zenon
    <3>2. ListOf(found, m)
      BY <2>1, <3>1
    <3> QED
      BY <1>6, <3>2, SameProofs
  <2> QED
    BY <1>3, <2>1, <2>3, <2>4, <2>5, <2>7, <2>8, Zenon
<1>8. s.key = other /\ s.at = messages /\ \A b \in SignBlindings : s.left[b] = 0
  BY <1>3, <1>4, <1>6, Zenon DEF BBS!PairingHolds, BBS!Covers
<1>9. key = other /\ BBS!Disclosed(other, shown) = [i \in revealed |-> messages[i]]
  <2>1. BBS!Opened(proof, other, shown)
    BY <1>6, Zenon DEF BBS!VerifyHolds
  <2> QED
    BY <1>4, <2>1, Zenon DEF BBS!Opened
<1>10. ASSUME NEW i \in DOMAIN shown
       PROVE  i \in DOMAIN s.at /\ s.at[i] = shown[i]
  <2>1. i \in BBS!Positions(other) /\ i \in 1 .. Count[key]
    BY <1>6, <1>9 DEF BBS!Positions
  <2>2. i \in DOMAIN BBS!Disclosed(other, shown) /\ BBS!Disclosed(other, shown)[i] = shown[i]
    BY <2>1 DEF BBS!Disclosed
  <2>3. shown[i] = messages[i]
    BY <1>9, <2>2
  <2>4. DOMAIN messages = 1 .. Count[key]
    OBVIOUS
  <2> QED
    BY <1>8, <2>1, <2>3, <2>4
<1> QED
  BY <1>7, <1>8, <1>10 DEF SoundFor

(***************************************************************************)
(* A holder that proves the messages its signature covers, and tells the   *)
(* verifier those it reveals, is accepted.                                 *)
(***************************************************************************)
LEMMA BBSHonest ==
  ASSUME NEW key \in DOMAIN Count, NEW revealed \in SUBSET (1 .. Count[key]),
         NEW messages \in Seq(Nat), Len(messages) = Count[key],
         NEW given, NEW draw, NEW s, NEW challenge,
         s.key = key, s.at = messages, \A b \in SignBlindings : s.left[b] = 0
  PROVE  BBS!VerifyProof(BBSProof(s, key, messages, given, revealed, draw, challenge),
                         key, [i \in revealed |-> messages[i]], challenge) = "true"
<1>1. PICK proof : proof = BBSProof(s, key, messages, given, revealed, draw, challenge)
  OBVIOUS
<1>2. PICK h, n, bases, secrets, blind :
        BBSParts(s, key, messages, given, revealed, draw, challenge, h, n, bases, secrets, blind)
  BY BBSLists
<1>3. /\ n \in Nat /\ ListOf(bases, 2 + n) /\ ListOf(secrets, 2 + n)
      /\ bases = BBS!Bases(key, revealed, draw) /\ proof.sig = s /\ proof.draw = draw
      /\ proof.sum = [key |-> key, messages |-> messages, revealed |-> revealed]
      /\ proof.proof1 = Proved(FirstBases(key, draw), FirstBlind(draw), challenge,
                               FirstSecrets(draw))
      /\ proof.proof2 = Proved(bases, blind, challenge, secrets)
  BY <1>1, <1>2, Zenon DEF BBSParts, InOrder
<1>4. proof.sum.key = key /\ proof.sum.messages = messages /\ proof.sum.revealed = revealed
  BY <1>3
<1>5. PICK shown : shown = [i \in revealed |-> messages[i]]
  OBVIOUS
<1>6. DOMAIN shown = revealed /\ \A i \in revealed : shown[i] = messages[i]
  BY <1>5
<1>7. DOMAIN shown \subseteq BBS!Positions(key)
  BY <1>6 DEF BBS!Positions
<1>8. BBS!PairingHolds(proof, key)
  BY <1>3, <1>4, Zenon DEF BBS!PairingHolds, BBS!Covers
<1>9. PICK first : first = FirstBases(key, draw)
  OBVIOUS
<1>10. BBS!VerifyHolds(proof.proof1, first, proof.sum.key = key, challenge)
  <2>1. PICK m \in Nat : m = 2
    OBVIOUS
  <2>2. PICK told : told = FirstSecrets(draw)
    OBVIOUS
  <2>3. PICK blinds : blinds = FirstBlind(draw)
    OBVIOUS
  <2>4. ListOf(first, m) /\ ListOf(told, m)
    BY <1>9, <2>1, <2>2, FirstOfTwo
  <2>5. PS!VerifyHolds(Proved(first, blinds, challenge, told), first, TRUE, challenge)
    BY <2>4, ProofVerified
  <2>6. BBS!VerifyHolds(proof.proof1, first, TRUE, challenge)
    <3>1. PS!VerifyHolds(proof.proof1, first, TRUE, challenge)
      BY <1>3, <1>9, <2>2, <2>3, <2>5, Zenon
    <3> QED
      BY <2>4, <3>1, SameProofs
  <2> QED
    BY <1>4, <2>6, Zenon DEF BBS!VerifyHolds
<1>11. BBS!Opened(proof, key, shown)
  <2>1. BBS!Disclosed(key, shown) = [i \in revealed |-> messages[i]]
    <3>1. DOMAIN shown \cap BBS!Positions(key) = revealed
      BY <1>6, <1>7
    <3>2. BBS!Disclosed(key, shown) = [i \in revealed |-> shown[i]]
      BY <3>1, Zenon DEF BBS!Disclosed
    <3> QED
      BY <1>6, <3>2
  <2> QED
    BY <1>4, <2>1, Zenon DEF BBS!Opened
<1>12. /\ ~BBS!VerifyRefused(proof.proof2, bases)
       /\ BBS!VerifyHolds(proof.proof2, bases, BBS!Opened(proof, key, shown), challenge)
  <2>1. PICK m \in Nat : m = 2 + n
    BY <1>3
  <2>2. ListOf(bases, m) /\ ListOf(secrets, m)
    BY <1>3, <2>1
  <2>3. /\ ~PS!VerifyRefused(Proved(bases, blind, challenge, secrets), bases)
        /\ PS!VerifyHolds(Proved(bases, blind, challenge, secrets), bases, TRUE, challenge)
    BY <2>2, ProofVerified
  <2>4. ~PS!VerifyRefused(proof.proof2, bases)
        /\ PS!VerifyHolds(proof.proof2, bases, TRUE, challenge)
    BY <1>3, <2>3, Zenon
  <2>5. ~BBS!VerifyRefused(proof.proof2, bases)
        /\ BBS!VerifyHolds(proof.proof2, bases, TRUE, challenge)
    BY <2>2, <2>4, SameProofs
  <2> QED
    BY <1>11, <2>5, Zenon DEF BBS!VerifyHolds
<1>13. BBS!VerifyProof(proof, key, shown, challenge) = "true"
  <2>1. bases = BBS!Bases(key, DOMAIN shown, proof.draw)
    BY <1>3, <1>6
  <2>2. first = <<BBS!APrime(proof.draw), BBS!H0(key)>>
    BY <1>3, <1>9, Zenon DEF FirstBases
  <2> QED
    BY <1>7, <1>8, <1>10, <1>12, <2>1, <2>2, Zenon DEF BBS!VerifyProof
<1> QED
  BY <1>1, <1>5, <1>13

\* In BBS the responses of the messages come after two others.
LEMMA BBSResponds ==
  ASSUME NEW key \in DOMAIN Count, NEW revealed, NEW messages, NEW given, NEW draw,
         NEW s, NEW challenge, NEW i \in 1 .. Count[key], i \notin revealed
  PROVE  BBS!ResponseAt(BBSProof(s, key, messages, given, revealed, draw, challenge), revealed, i)
           = Responded(given, draw, Rank(i, revealed), challenge, messages[i])
<1>1. PICK proof : proof = BBSProof(s, key, messages, given, revealed, draw, challenge)
  OBVIOUS
<1>2. PICK h, n, bases, secrets, blind :
        BBSParts(s, key, messages, given, revealed, draw, challenge, h, n, bases, secrets, blind)
  BY BBSLists
<1>3. /\ InOrder(2, "h", key, revealed, messages, given, draw, h, n, bases, secrets, blind)
      /\ proof.proof2 = Proved(bases, blind, challenge, secrets)
  BY <1>1, <1>2, Zenon DEF BBSParts
<1>4. PICK two \in Nat : two = 2
  OBVIOUS
<1>5. InOrder(two, "h", key, revealed, messages, given, draw, h, n, bases, secrets, blind)
  BY <1>3, <1>4, Zenon
<1>6. Proved(bases, blind, challenge, secrets).responses[two + Rank(i, revealed)]
        = Responded(given, draw, Rank(i, revealed), challenge, messages[i])
  BY <1>5, RespondsAtRank
<1>7. BBS!ResponseAt(proof, revealed, i) = proof.proof2.responses[2 + Rank(i, revealed)]
  <2>1. BBS!ResponseAt(proof, revealed, i)
          = proof.proof2.responses[2 + Cardinality({j \in 1 .. i : j \notin revealed})]
    BY Zenon DEF BBS!ResponseAt, BBS!Cardinality, Cardinality, BBS!IsFiniteSet, IsFiniteSet
  <2>2. Rank(i, revealed) = Cardinality({j \in 1 .. i : j \notin revealed})
    BY DEF Rank
  <2> QED
    BY <2>1, <2>2, Zenon
<1> QED
  BY <1>1, <1>3, <1>4, <1>6, <1>7, Zenon

-----------------------------------------------------------------------------
(***************************************************************************)
(* The invariant.  What the holder has is the signature of origin, the     *)
(* blindings in unblinded taken out; it does not change once there is a    *)
(* PoKOfSignature or a proof.  Proof n was made from it with draw n, and a *)
(* verdict is what verify says of its proof.                               *)
(***************************************************************************)
SignedAs(c) == PS!MakeSignature(c.key, c.com, c.messages)
ObjectOf(s, c, draw) ==
  Pick(PS!Init(s, c.key, c.messages, c.blindings, c.revealed, draw),
       BBS!Init(s, c.key, c.messages, c.blindings, c.revealed, draw))
ProofOf(s, c, draw, challenge) ==
  Pick(PSProof(s, c.key, c.messages, c.blindings, c.revealed, draw, challenge),
       BBSProof(s, c.key, c.messages, c.blindings, c.revealed, draw, challenge))
ResultOf(proof, c, challenge) ==
  Pick(PS!VerifyProof(proof, c.key, c.revealed, challenge),
       BBS!VerifyProof(proof, c.key, c.revealed, challenge))
Shown(c) == c \in ShowCalls /\ ~PS!ShowRefused(c.key, c.messages, c.blindings, c.revealed)

\* Each blinding that is taken out is counted down; only one is counted up.
LeftFits(left, c, taken) ==
  /\ taken = <<>> => left = SignedAs(c).left
  /\ taken # <<>> /\ Unblinded(c, taken) => \A b \in SignBlindings : left[b] = 0
  /\ taken # <<>> /\ ~Unblinded(c, taken) => \E b \in SignBlindings : left[b] < 0

SignatureFits(s, c, taken) ==
  /\ c \in SignCalls /\ Len(c.messages) <= Count[c.key]
  /\ s \in SignaturesOf(c.key) /\ s.at = SignedAs(c).at
  /\ taken \in Seq(SignBlindings) /\ LeftFits(s.left, c, taken)

SignedInv ==
  /\ scheme \in Schemes
  /\ sig = None <=> origin = None
  /\ sig = None => pok = None /\ proofs = <<>>
  /\ sig # None => SignatureFits(sig, origin, unblinded)

ShownInv == pok # None => Shown(pok.call) /\ pok.object = ObjectOf(sig, pok.call, Len(proofs) + 1)

IsList(s) == Len(s) \in Nat /\ ListOf(s, Len(s))

MadeAs(n, made) ==
  /\ Shown(made.call) /\ made.origin = origin /\ made.unblinded = unblinded
  /\ made.proof = ProofOf(sig, made.call, n, made.challenge)

MadeInv == IsList(proofs) /\ \A n \in DOMAIN proofs : MadeAs(n, proofs[n])

AnsweredAs(verdict) ==
  /\ verdict.proof \in DOMAIN proofs /\ verdict.call \in VerifyCalls
  /\ verdict.result = ResultOf(proofs[verdict.proof].proof, verdict.call, verdict.challenge)

AnsweredInv == IsList(verdicts) /\ \A v \in DOMAIN verdicts : AnsweredAs(verdicts[v])

DisclosureInv == SignedInv /\ ShownInv /\ MadeInv /\ AnsweredInv

-----------------------------------------------------------------------------
\* A list with one more element.
Grown(s, n, x, t) ==
  /\ ListOf(t, n + 1) /\ Len(t) = n + 1 /\ DOMAIN t = 1 .. n + 1
  /\ t[n + 1] = x /\ \A k \in 1 .. n : t[k] = s[k]

\* Append makes it, whatever the elements are.
LEMMA Appended ==
  ASSUME NEW n \in Nat, NEW s, ListOf(s, n), NEW x
  PROVE  Len(s) = n /\ DOMAIN s = 1 .. n /\ Grown(s, n, x, Append(s, x))
<1>1. PICK S : S = {s[k] : k \in 1 .. n} \cup {x}
  OBVIOUS
<1>2. \A k \in 1 .. n : s[k] \in S
  BY <1>1
<1>3. s \in Seq(S) /\ Len(s) = n /\ DOMAIN s = 1 .. n
  BY <1>2, ListIsSeq
<1>4. PICK y \in S : y = x
  BY <1>1
<1>5. PICK t \in Seq(S) : t = Append(s, y)
  <2>1. Append(s, y) \in Seq(S)
    BY <1>3
  <2> QED
    BY <2>1, Zenon
<1>6. Len(t) = n + 1 /\ DOMAIN t = 1 .. n + 1 /\ t[n + 1] = y /\ \A k \in 1 .. n : t[k] = s[k]
  BY <1>3, <1>5
<1>7. ListOf(t, n + 1)
  BY <1>6 DEF ListOf
<1>8. t = Append(s, x)
  BY <1>4, <1>5
<1>9. Grown(s, n, x, t)
  BY <1>4, <1>6, <1>7, Zenon DEF Grown
<1> QED
  BY <1>3, <1>8, <1>9, Zenon

\* What a signature covers, and the blinding in it, as the signer made it.
LEMMA SignedParts ==
  ASSUME NEW c \in SignCalls, Len(c.messages) <= Count[c.key]
  PROVE  /\ SignedAs(c) \in SignaturesOf(c.key)
         /\ \A i \in 1 .. Count[c.key] :
              SignedAs(c).at[i]
                = (IF i > Count[c.key] - Len(c.messages)
                   THEN c.messages[i - (Count[c.key] - Len(c.messages))] ELSE 0)
                  + (IF c.com = None THEN 0 ELSE c.com.at[i])
         /\ \A b \in SignBlindings :
              SignedAs(c).left[b] = IF c.com # None /\ c.com.blinding = b THEN 1 ELSE 0
<1>1. PICK count \in Nat : count = Count[c.key]
  BY CountAssumption, SignCallsAssumption
<1>2. PICK m \in Seq(Nat) : m = c.messages
  BY SignCallsAssumption, Zenon
<1>3. PICK com : com = c.com
  OBVIOUS
<1>4. com # None => com.at \in [1 .. count -> Nat] /\ com.blinding \in SignBlindings
  BY <1>1, <1>3, SignCallsAssumption
<1>5. PICK at :
        at = [i \in 1 .. count |-> (IF i > count - Len(m) THEN m[i - (count - Len(m))] ELSE 0)
                                   + (IF com = None THEN 0 ELSE com.at[i])]
  OBVIOUS
<1>6. PICK left : left = [b \in SignBlindings |-> IF com # None /\ com.blinding = b THEN 1 ELSE 0]
  OBVIOUS
<1>7. SignedAs(c) = [key |-> c.key, at |-> at, left |-> left]
  <2>1. at = [i \in PS!Positions(c.key) |->
               PS!KnownAt(c.key, m, i) + (IF com = None THEN 0 ELSE com.at[i])]
    BY <1>1, <1>5, Zenon DEF PS!Positions, PS!KnownAt
  <2> QED
    BY <1>2, <1>3, <1>6, <2>1, Zenon DEF SignedAs, PS!MakeSignature
<1>8. at \in [1 .. count -> Nat]
  <2>1. Len(m) <= count /\ Len(m) \in Nat
    BY <1>1, <1>2
  <2>2. ASSUME NEW i \in 1 .. count
        PROVE  (IF i > count - Len(m) THEN m[i - (count - Len(m))] ELSE 0)
                 + (IF com = None THEN 0 ELSE com.at[i]) \in Nat
    <3>1. i > count - Len(m) => i - (count - Len(m)) \in 1 .. Len(m)
      BY <2>1
    <3>2. i > count - Len(m) => m[i - (count - Len(m))] \in Nat
      BY <3>1
    <3>3. com # None => com.at[i] \in Nat
      BY <1>4
    <3>4. PICK x \in Nat : x = IF i > count - Len(m) THEN m[i - (count - Len(m))] ELSE 0
      <4>1. (IF i > count - Len(m) THEN m[i - (count - Len(m))] ELSE 0) \in Nat
        BY <3>2
      <4> QED
        BY <4>1, Zenon
    <3>5. PICK y \in Nat : y = IF com = None THEN 0 ELSE com.at[i]
      <4>1. (IF com = None THEN 0 ELSE com.at[i]) \in Nat
        BY <3>3
      <4> QED
        BY <4>1, Zenon
    <3>6. x + y \in Nat
      OBVIOUS
    <3> QED
      BY <3>4, <3>5, <3>6, Zenon
  <2> QED
    BY <1>5, <2>2
<1>9. left \in [SignBlindings -> Int]
  BY <1>6
<1>10. [key |-> c.key, at |-> at, left |-> left] \in SignaturesOf(c.key)
  BY <1>1, <1>8, <1>9 DEF SignaturesOf
<1>11. SignedAs(c).at = at /\ SignedAs(c).left = left
  BY <1>7
<1>12. \A i \in 1 .. count : at[i] = (IF i > count - Len(m) THEN m[i - (count - Len(m))] ELSE 0)
                                     + (IF com = None THEN 0 ELSE com.at[i])
  BY <1>5
<1>13. \A b \in SignBlindings : left[b] = IF com # None /\ com.blinding = b THEN 1 ELSE 0
  BY <1>6
<1>14. SignedAs(c) \in SignaturesOf(c.key)
  BY <1>7, <1>10, Zenon
<1> QED
  BY <1>1, <1>2, <1>3, <1>11, <1>12, <1>13, <1>14, Zenon

\* A signature is without a blinding when the right one was taken out, once.
LEMMA LeftMeans ==
  ASSUME NEW s, NEW c, NEW taken, SignatureFits(s, c, taken)
  PROVE  (\A b \in SignBlindings : s.left[b] = 0) <=> Unblinded(c, taken)
<1>1. c \in SignCalls /\ Len(c.messages) <= Count[c.key] /\ LeftFits(s.left, c, taken)
      /\ taken \in Seq(SignBlindings)
  BY DEF SignatureFits
<1>2. CASE taken = <<>>
  <2>1. \A b \in SignBlindings :
          s.left[b] = IF c.com # None /\ c.com.blinding = b THEN 1 ELSE 0
    <3>1. s.left = SignedAs(c).left
      BY <1>1, <1>2, Zenon DEF LeftFits
    <3>2. \A b \in SignBlindings :
            SignedAs(c).left[b] = IF c.com # None /\ c.com.blinding = b THEN 1 ELSE 0
      BY <1>1, SignedParts
    <3> QED
      BY <3>1, <3>2, Zenon
  <2>2. c.com # None => c.com.blinding \in SignBlindings
    BY <1>1, SignCallsAssumption
  <2>3. 1 # 0
    OBVIOUS
  <2>4. (\A b \in SignBlindings : s.left[b] = 0) <=> c.com = None
    BY <2>1, <2>2, <2>3, Zenon
  <2>5. \A x : <<x>> # <<>>
    OBVIOUS
  <2> QED
    BY <1>2, <2>4, <2>5, Zenon DEF Unblinded
<1>3. CASE taken # <<>>
  <2>1. \A b : s.left[b] < 0 => s.left[b] # 0
    OBVIOUS
  <2> QED
    BY <1>1, <1>3, <2>1, Zenon DEF LeftFits
<1> QED
  BY <1>2, <1>3

\* Taking out a blinding.
LEMMA LeftStep ==
  ASSUME NEW s, NEW c, NEW taken, SignatureFits(s, c, taken), NEW b \in SignBlindings
  PROVE  SignatureFits(PS!GetUnblindedSignature(s, b), c, Append(taken, b))
<1>1. /\ c \in SignCalls /\ Len(c.messages) <= Count[c.key] /\ LeftFits(s.left, c, taken)
      /\ s \in SignaturesOf(c.key) /\ s.at = SignedAs(c).at /\ taken \in Seq(SignBlindings)
  BY DEF SignatureFits
<1>2. PICK left \in [SignBlindings -> Int] : left = s.left
  BY <1>1 DEF SignaturesOf
<1>3. PICK now : now = [left EXCEPT ![b] = left[b] - 1]
  OBVIOUS
<1>4. now \in [SignBlindings -> Int] /\ now[b] = left[b] - 1
      /\ \A d \in SignBlindings : d # b => now[d] = left[d]
  BY <1>3
<1>5. PICK t : t = PS!GetUnblindedSignature(s, b)
  OBVIOUS
<1>6. t = [s EXCEPT !.left = now]
  BY <1>2, <1>3, <1>5, Zenon DEF PS!GetUnblindedSignature
<1>7. t \in SignaturesOf(c.key) /\ t.at = s.at /\ t.left = now
  BY <1>1, <1>4, <1>6 DEF SignaturesOf
<1>8. PICK more \in Seq(SignBlindings) : more = Append(taken, b)
  <2>1. Append(taken, b) \in Seq(SignBlindings)
    BY <1>1
  <2> QED
    BY <2>1, Zenon
<1>9. more # <<>>
  BY <1>1, <1>8
<1>10. CASE taken = <<>>
  <2>1. more = <<b>>
    BY <1>8, <1>10
  <2>2. \A d \in SignBlindings : left[d] = IF c.com # None /\ c.com.blinding = d THEN 1 ELSE 0
    <3>1. left = SignedAs(c).left
      BY <1>1, <1>2, <1>10, Zenon DEF LeftFits
    <3>2. \A d \in SignBlindings :
            SignedAs(c).left[d] = IF c.com # None /\ c.com.blinding = d THEN 1 ELSE 0
      BY <1>1, SignedParts
    <3> QED
      BY <3>1, <3>2, Zenon
  <2>3. Unblinded(c, more) <=> c.com # None /\ c.com.blinding = b
    <3>1. <<b>> # <<>> /\ \A x : <<b>> = <<x>> <=> x = b
      OBVIOUS
    <3> QED
      BY <2>1, <3>1, Zenon DEF Unblinded
  <2>4. Unblinded(c, more) => \A d \in SignBlindings : now[d] = 0
    <3>1. 1 - 1 = 0
      OBVIOUS
    <3> QED
      BY <1>4, <2>2, <2>3, <3>1, Zenon
  <2>5. ~Unblinded(c, more) => now[b] < 0
    <3>1. ~Unblinded(c, more) => left[b] = 0
      BY <2>2, <2>3, Zenon
    <3> QED
      BY <1>4, <3>1
  <2> QED
    BY <1>1, <1>5, <1>7, <1>8, <1>9, <2>4, <2>5, Zenon DEF SignatureFits, LeftFits
<1>11. CASE taken # <<>>
  <2>1. ~Unblinded(c, more)
    <3>1. Len(more) = Len(taken) + 1 /\ Len(taken) \in Nat /\ Len(taken) # 0
      BY <1>1, <1>8, <1>11
    <3>2. Len(more) # 0 /\ Len(more) # 1
      BY <3>1
    <3>3. Len(<<>>) = 0 /\ \A x : Len(<<x>>) = 1
      OBVIOUS
    <3>4. more # <<>> /\ \A x : more # <<x>>
      BY <3>2, <3>3, Zenon
    <3> QED
      BY <3>4, Zenon DEF Unblinded
  <2>2. \E d \in SignBlindings : now[d] < 0
    <3>1. CASE Unblinded(c, taken)
      <4>1. left[b] = 0
        BY <1>1, <1>2, <1>11, <3>1, Zenon DEF LeftFits
      <4>2. now[b] < 0
        BY <1>4, <4>1
      <4> QED
        BY <4>2
    <3>2. CASE ~Unblinded(c, taken)
      <4>1. PICK d \in SignBlindings : left[d] < 0
        BY <1>1, <1>2, <1>11, <3>2, Zenon DEF LeftFits
      <4>2. now[d] < 0
        <5>1. left[d] \in Int /\ left[b] \in Int
          OBVIOUS
        <5>2. d = b \/ now[d] = left[d]
          BY <1>4
        <5> QED
          BY <1>4, <4>1, <5>1, <5>2
      <4> QED
        BY <4>2
    <3> QED
      BY <3>1, <3>2
  <2> QED
    BY <1>1, <1>5, <1>7, <1>8, <1>9, <2>1, <2>2, Zenon DEF SignatureFits, LeftFits
<1> QED
  BY <1>10, <1>11

(***************************************************************************)
(* The committed messages and those the signer knew, put together, are     *)
(* what the signature covers.                                              *)
(***************************************************************************)
LEMMA SplitCovered ==
  ASSUME NEW c \in SignCalls, Len(c.messages) <= Count[c.key],
         NEW messages \in Seq(Nat), SplitOf(c, messages)
  PROVE  SignedAs(c).at = messages
<1>1. PICK count \in Nat : count = Count[c.key]
  BY CountAssumption, SignCallsAssumption
<1>2. PICK m \in Seq(Nat) : m = c.messages
  BY SignCallsAssumption, Zenon
<1>3. PICK first \in Nat : first = count - Len(m)
  BY <1>1, <1>2
<1>4. PICK com : com = c.com
  OBVIOUS
<1>5. /\ Len(messages) = count /\ m = SubSeq(messages, first + 1, Len(messages))
      /\ com = None => first = 0
      /\ com # None => com.at = [i \in 1 .. count |-> IF i <= first THEN messages[i] ELSE 0]
  BY <1>1, <1>2, <1>3, <1>4, Zenon DEF SplitOf
<1>6. PICK at \in [1 .. count -> Nat] : at = SignedAs(c).at
  <2>1. SignedAs(c) \in SignaturesOf(c.key)
    BY SignedParts
  <2>2. SignedAs(c).at \in [1 .. count -> Nat]
    BY <1>1, <2>1 DEF SignaturesOf
  <2> QED
    BY <2>2, Zenon
<1>7. ASSUME NEW i \in 1 .. count
      PROVE  at[i] = messages[i]
  <2>1. at[i] = (IF i > count - Len(m) THEN m[i - (count - Len(m))] ELSE 0)
                + (IF com = None THEN 0 ELSE com.at[i])
    <3>1. \A k \in 1 .. Count[c.key] :
            SignedAs(c).at[k]
              = (IF k > Count[c.key] - Len(c.messages)
                 THEN c.messages[k - (Count[c.key] - Len(c.messages))] ELSE 0)
                + (IF c.com = None THEN 0 ELSE c.com.at[k])
      BY SignedParts
    <3> QED
      BY <1>1, <1>2, <1>4, <1>6, <3>1, Zenon
  <2>2. messages[i] \in Nat
    <3>1. Len(messages) = count
      BY <1>5, Zenon
    <3> QED
      BY <3>1
  <2>3. CASE i <= first
    <3>1. com # None /\ com.at[i] = messages[i]
      BY <1>5, <2>3
    <3>2. ~(i > count - Len(m))
      BY <1>3, <2>3
    <3>3. at[i] = 0 + messages[i]
      BY <2>1, <3>1, <3>2, Zenon
    <3> QED
      BY <2>2, <3>3
  <2>4. CASE ~(i <= first)
    <3>1. i > count - Len(m) /\ i - (count - Len(m)) = i - first
      BY <1>3, <2>4
    <3>2. m[i - first] = messages[i]
      <4>1. i - first \in 1 .. Len(m) /\ first + (i - first) = i
        BY <1>3, <2>4
      <4>2. PICK j \in 1 .. Len(m) : j = i - first
        BY <4>1, Zenon
      <4>3. Len(messages) = count /\ m = SubSeq(messages, first + 1, Len(messages))
        BY <1>5, Zenon
      <4>4. PICK len \in Nat : len = Len(messages) /\ Len(m) = len - first
        BY <1>3, <4>3
      <4>5. SubSeq(messages, first + 1, len)[j] = messages[first + j]
        BY <4>2, <4>4
      <4>6. m[j] = messages[first + j]
        BY <4>3, <4>4, <4>5, Zenon
      <4> QED
        BY <4>1, <4>2, <4>6, Zenon
    <3>3. (IF com = None THEN 0 ELSE com.at[i]) = 0
      BY <1>5, <2>4
    <3>4. at[i] = messages[i] + 0
      BY <2>1, <3>1, <3>2, <3>3, Zenon
    <3> QED
      BY <2>2, <3>4
  <2> QED
    BY <2>3, <2>4
<1>8. messages = [i \in 1 .. count |-> messages[i]] /\ at = [i \in 1 .. count |-> at[i]]
  BY <1>5
<1> QED
  BY <1>6, <1>7, <1>8

-----------------------------------------------------------------------------
\* What is made of a signature and a call depends on the scheme alone.
LEMMA SameMade ==
  ASSUME scheme' = scheme
  PROVE  /\ \A s, c, draw : ObjectOf(s, c, draw)' = ObjectOf(s, c, draw)
         /\ \A s, c, draw, ch : ProofOf(s, c, draw, ch)' = ProofOf(s, c, draw, ch)
         /\ \A p, c, ch : ResultOf(p, c, ch)' = ResultOf(p, c, ch)
BY DEF ObjectOf, ProofOf, ResultOf, Pick

\* Where the signature does not change, nor do the proofs.
LEMMA SameProof ==
  ASSUME UNCHANGED <<scheme, sig, origin, unblinded>>, NEW n, NEW made, MadeAs(n, made)
  PROVE  MadeAs(n, made)'
<1>1. /\ Shown(made.call) /\ made.origin = origin /\ made.unblinded = unblinded
      /\ made.proof = ProofOf(sig, made.call, n, made.challenge)
  BY Zenon DEF MadeAs
<1>2. ProofOf(sig, made.call, n, made.challenge)' = ProofOf(sig, made.call, n, made.challenge)
  BY DEF ProofOf, Pick
<1> QED
  BY <1>1, <1>2 DEF MadeAs

\* A verdict stands while its proof is there.
LEMMA SameAnswer ==
  ASSUME scheme' = scheme, NEW verdict, AnsweredAs(verdict),
         verdict.proof \in DOMAIN proofs', proofs'[verdict.proof] = proofs[verdict.proof]
  PROVE  AnsweredAs(verdict)'
<1>1. /\ verdict.call \in VerifyCalls
      /\ verdict.result = ResultOf(proofs[verdict.proof].proof, verdict.call, verdict.challenge)
  BY Zenon DEF AnsweredAs
<1>2. ResultOf(proofs[verdict.proof].proof, verdict.call, verdict.challenge)'
        = ResultOf(proofs[verdict.proof].proof, verdict.call, verdict.challenge)
  BY DEF ResultOf, Pick
<1> QED
  BY <1>1, <1>2 DEF AnsweredAs

\* No signature, proof or verdict.
LEMMA InitHolds == Init => DisclosureInv
<1> SUFFICES ASSUME Init
             PROVE  DisclosureInv
  OBVIOUS
<1>1. \A s : s = <<>> => IsList(s) /\ DOMAIN s = {}
  <2>1. Len(<<>>) = 0 /\ 0 \in Nat /\ ListOf(<<>>, 0) /\ DOMAIN <<>> = {}
    BY DEF ListOf
  <2> QED
    BY <2>1, Zenon DEF IsList
<1>2. SignedInv /\ ShownInv
  BY Zenon DEF Init, SignedInv, ShownInv
<1>3. MadeInv /\ AnsweredInv
  BY <1>1, Zenon DEF Init, MadeInv, AnsweredInv
<1> QED
  BY <1>2, <1>3 DEF DisclosureInv

\* The issuer signs: it is not given more messages than the key is for.
LEMMA SignKeeps ==
  ASSUME DisclosureInv, NEW call \in SignCalls, Sign(call)
  PROVE  DisclosureInv'
<1>1. /\ sig = None /\ origin' = call /\ unblinded' = <<>> /\ sig' = SignedAs(call)
      /\ UNCHANGED <<scheme, pok, proofs, verdicts>>
  BY Zenon DEF Sign, SignedAs
<1>2. Len(call.messages) <= Count[call.key]
  <2>1. ~PS!SignRefused(call.key, call.com, call.messages)
          \/ ~BBS!SignRefused(call.key, call.com, call.messages)
    BY Zenon DEF Sign, Pick
  <2>2. PICK count \in Nat : count = Count[call.key]
    BY CountAssumption, SignCallsAssumption
  <2>3. PICK len \in Nat : len = Len(call.messages)
    BY SignCallsAssumption
  <2>4. ~(len # count) \/ ~(len >= count) \/ ~(len > count)
    BY <2>1, <2>2, <2>3 DEF PS!SignRefused, BBS!SignRefused
  <2> QED
    BY <2>2, <2>3, <2>4
<1>3. SignedAs(call) \in SignaturesOf(call.key)
  BY <1>2, SignedParts
<1>4. SignatureFits(SignedAs(call), call, <<>>)
  <2>1. <<>> \in Seq(SignBlindings)
    OBVIOUS
  <2> QED
    BY <1>2, <1>3, <2>1, Zenon DEF SignatureFits, LeftFits
<1>5. call # None /\ SignedAs(call) # None
  BY <1>3, NoneAssumption, SignCallsAssumption
<1>6. scheme \in Schemes /\ pok = None /\ proofs = <<>>
  BY <1>1, Zenon DEF DisclosureInv, SignedInv
<1>7. SignedInv'
  <2>1. SignatureFits(sig', origin', unblinded')
    BY <1>1, <1>4, Zenon
  <2>2. scheme' \in Schemes /\ sig' # None /\ origin' # None
    BY <1>1, <1>5, <1>6
  <2> QED
    BY <2>1, <2>2 DEF SignedInv
<1>8. ShownInv'
  BY <1>1, <1>6 DEF ShownInv
<1>9. MadeInv'
  <2>1. DOMAIN proofs' = {} /\ IsList(proofs')
    BY <1>1, <1>6 DEF DisclosureInv, MadeInv
  <2> QED
    BY <2>1 DEF MadeInv
<1>10. AnsweredInv'
  <2>1. ASSUME NEW v \in DOMAIN verdicts
        PROVE  AnsweredAs(verdicts[v])'
    <3>1. AnsweredAs(verdicts[v])
      BY DEF DisclosureInv, AnsweredInv
    <3>2. verdicts[v].proof \in DOMAIN proofs
      BY <3>1 DEF AnsweredAs
    <3> QED
      BY <1>6, <3>2
  <2> QED
    BY <1>1, <2>1 DEF DisclosureInv, AnsweredInv
<1> QED
  BY <1>7, <1>8, <1>9, <1>10 DEF DisclosureInv

\* The holder takes a blinding out, as long as nothing was made of the signature.
LEMMA UnblindKeeps ==
  ASSUME DisclosureInv, NEW b \in SignBlindings, Unblind(b)
  PROVE  DisclosureInv'
<1>1. /\ sig # None /\ pok = None /\ proofs = <<>> /\ unblinded' = Append(unblinded, b)
      /\ sig' = PS!GetUnblindedSignature(sig, b)
      /\ UNCHANGED <<scheme, origin, pok, proofs, verdicts>>
  BY Zenon DEF Unblind
<1>2. scheme \in Schemes /\ origin # None /\ SignatureFits(sig, origin, unblinded)
  BY <1>1, Zenon DEF DisclosureInv, SignedInv
<1>3. SignatureFits(sig', origin', unblinded')
  <2>1. SignatureFits(PS!GetUnblindedSignature(sig, b), origin, Append(unblinded, b))
    BY <1>2, LeftStep
  <2> QED
    BY <1>1, <2>1, Zenon
<1>4. sig' # None
  BY <1>3, NoneAssumption, SignCallsAssumption DEF SignatureFits
<1>5. SignedInv'
  <2>1. scheme' \in Schemes /\ origin' # None
    BY <1>1, <1>2
  <2> QED
    BY <1>3, <1>4, <2>1 DEF SignedInv
<1>6. ShownInv'
  BY <1>1 DEF ShownInv
<1>7. MadeInv'
  <2>1. DOMAIN proofs' = {} /\ IsList(proofs')
    BY <1>1 DEF DisclosureInv, MadeInv
  <2> QED
    BY <2>1 DEF MadeInv
<1>8. AnsweredInv'
  <2>1. ASSUME NEW v \in DOMAIN verdicts
        PROVE  AnsweredAs(verdicts[v])'
    <3>1. AnsweredAs(verdicts[v])
      BY DEF DisclosureInv, AnsweredInv
    <3>2. verdicts[v].proof \in DOMAIN proofs
      BY <3>1 DEF AnsweredAs
    <3> QED
      BY <1>1, <3>2
  <2> QED
    BY <1>1, <2>1 DEF DisclosureInv, AnsweredInv
<1> QED
  BY <1>5, <1>6, <1>7, <1>8 DEF DisclosureInv

\* Verdicts stand while the proofs do.
LEMMA AnswersStand ==
  ASSUME AnsweredInv, UNCHANGED <<scheme, verdicts>>, DOMAIN proofs \subseteq DOMAIN proofs',
         \A n \in DOMAIN proofs : proofs'[n] = proofs[n]
  PROVE  AnsweredInv'
<1>1. ASSUME NEW v \in DOMAIN verdicts
      PROVE  AnsweredAs(verdicts[v])'
  <2>1. PICK verdict : verdict = verdicts[v] /\ AnsweredAs(verdict)
    BY DEF AnsweredInv
  <2>2. verdict.proof \in DOMAIN proofs
    BY <2>1 DEF AnsweredAs
  <2>3. AnsweredAs(verdict)'
    BY <2>1, <2>2, SameAnswer
  <2>4. verdicts[v]' = verdict
    BY <2>1
  <2> QED
    BY <2>3, <2>4, Zenon DEF AnsweredAs
<1>2. verdicts' = verdicts /\ IsList(verdicts)
  BY DEF AnsweredInv
<1> QED
  BY <1>1, <1>2 DEF AnsweredInv

\* The holder makes a PoKOfSignature of the signature in hand.
LEMMA ShowKeeps ==
  ASSUME DisclosureInv, NEW call \in ShowCalls, Show(call)
  PROVE  DisclosureInv'
<1>1. /\ sig # None /\ ~PS!ShowRefused(call.key, call.messages, call.blindings, call.revealed)
      /\ pok' = [object |-> ObjectOf(sig, call, Len(proofs) + 1), call |-> call]
      /\ UNCHANGED <<scheme, origin, unblinded, sig, proofs, verdicts>>
  BY Zenon DEF Show, ObjectOf
<1>2. SignedInv'
  BY <1>1, Zenon DEF DisclosureInv, SignedInv
<1>3. ShownInv'
  <2>1. pok'.call = call /\ pok'.object = ObjectOf(sig, call, Len(proofs) + 1)
    BY <1>1
  <2>2. ObjectOf(sig, call, Len(proofs) + 1)' = ObjectOf(sig, call, Len(proofs) + 1)
    BY <1>1 DEF ObjectOf, Pick
  <2>3. Shown(pok'.call) /\ pok'.object = ObjectOf(sig, call, Len(proofs) + 1)'
    BY <1>1, <2>1, <2>2 DEF Shown
  <2> QED
    BY <2>1, <2>3 DEF ShownInv, ObjectOf
<1>4. MadeInv'
  <2>1. ASSUME NEW n \in DOMAIN proofs
        PROVE  MadeAs(n, proofs[n])'
    <3>1. PICK made : made = proofs[n] /\ MadeAs(n, made)
      BY DEF DisclosureInv, MadeInv
    <3>2. MadeAs(n, made)'
      BY <1>1, <3>1, SameProof
    <3> QED
      BY <1>1, <3>1, <3>2 DEF MadeAs
  <2> QED
    BY <1>1, <2>1 DEF DisclosureInv, MadeInv
<1>5. AnsweredInv'
  BY <1>1, AnswersStand DEF DisclosureInv
<1> QED
  BY <1>2, <1>3, <1>4, <1>5 DEF DisclosureInv

\* The object of pok makes the proof that is next.
LEMMA GenProofKeeps ==
  ASSUME DisclosureInv, NEW challenge \in Challenges, GenProof(challenge)
  PROVE  DisclosureInv'
<1>1. PICK proof : proof = Pick(PS!Prove(pok.object, challenge), BBS!Prove(pok.object, challenge))
  OBVIOUS
<1>2. PICK made : made = [proof |-> proof, call |-> pok.call, origin |-> origin,
                          unblinded |-> unblinded, challenge |-> challenge]
  OBVIOUS
<1>3. /\ pok # None /\ proofs' = Append(proofs, made) /\ pok' = None
      /\ UNCHANGED <<scheme, origin, unblinded, sig, verdicts>>
  BY <1>1, <1>2, Zenon DEF GenProof
<1>4. /\ sig # None /\ IsList(proofs) /\ Shown(pok.call)
      /\ pok.object = ObjectOf(sig, pok.call, Len(proofs) + 1)
  BY <1>3, Zenon DEF DisclosureInv, SignedInv, ShownInv, MadeInv
<1>5. PICK n \in Nat : n = Len(proofs)
  BY <1>4, Zenon DEF IsList
<1>6. ListOf(proofs, n) /\ DOMAIN proofs = 1 .. n /\ Grown(proofs, n, made, proofs')
  <2>1. ListOf(proofs, n)
    BY <1>4, <1>5, Zenon DEF IsList
  <2>2. Len(proofs) = n /\ DOMAIN proofs = 1 .. n /\ Grown(proofs, n, made, Append(proofs, made))
    BY <2>1, Appended
  <2> QED
    BY <1>3, <2>1, <2>2, Zenon
<1>7. /\ Len(proofs') = n + 1 /\ DOMAIN proofs' = 1 .. n + 1 /\ ListOf(proofs', n + 1)
      /\ proofs'[n + 1] = made /\ \A k \in 1 .. n : proofs'[k] = proofs[k]
  BY <1>6, Zenon DEF Grown
<1>8. MadeAs(n + 1, made)'
  <2>1. made.proof = proof /\ made.call = pok.call /\ made.origin = origin
        /\ made.unblinded = unblinded /\ made.challenge = challenge
    BY <1>2
  <2>2. proof = ProofOf(sig, pok.call, n + 1, challenge)
    BY <1>1, <1>4, <1>5, Zenon DEF ProofOf, ObjectOf, Pick, PSProof, BBSProof
  <2>3. MadeAs(n + 1, made)
    BY <1>4, <2>1, <2>2, Zenon DEF MadeAs
  <2> QED
    BY <1>3, <2>3, SameProof
<1>9. SignedInv'
  BY <1>3, <1>4, Zenon DEF DisclosureInv, SignedInv
<1>10. ShownInv'
  BY <1>3, Zenon DEF ShownInv
<1>11. MadeInv'
  <2>1. ASSUME NEW k \in 1 .. n + 1
        PROVE  MadeAs(k, proofs[k])'
    <3>1. CASE k \in 1 .. n
      <4>1. PICK old : old = proofs[k] /\ MadeAs(k, old)
        BY <1>6, <3>1 DEF DisclosureInv, MadeInv
      <4>2. MadeAs(k, old)'
        BY <1>3, <4>1, SameProof
      <4>3. proofs'[k] = old
        BY <1>7, <3>1, <4>1
      <4> QED
        BY <4>2, <4>3 DEF MadeAs
    <3>2. CASE k = n + 1
      BY <1>7, <1>8, <3>2 DEF MadeAs
    <3> QED
      BY <3>1, <3>2
  <2>2. IsList(proofs')
    BY <1>7 DEF IsList
  <2> QED
    BY <1>7, <2>1, <2>2 DEF MadeInv
<1>12. AnsweredInv'
  <2>1. DOMAIN proofs \subseteq DOMAIN proofs' /\ \A k \in DOMAIN proofs : proofs'[k] = proofs[k]
    BY <1>6, <1>7
  <2> QED
    BY <1>3, <2>1, AnswersStand DEF DisclosureInv
<1> QED
  BY <1>9, <1>10, <1>11, <1>12 DEF DisclosureInv

\* A verifier asks for a proof, with arguments of its own.
LEMMA VerifyKeeps ==
  ASSUME DisclosureInv, NEW n \in DOMAIN proofs, NEW call \in VerifyCalls,
         NEW challenge \in Challenges, Verify(n, call, challenge)
  PROVE  DisclosureInv'
<1>1. PICK verdict : verdict = [proof |-> n, call |-> call, challenge |-> challenge,
                                result |-> ResultOf(proofs[n].proof, call, challenge)]
  OBVIOUS
<1>2. /\ verdicts' = Append(verdicts, verdict)
      /\ UNCHANGED <<scheme, origin, unblinded, sig, pok, proofs>>
  BY <1>1, Zenon DEF Verify, ResultOf
<1>3. PICK m \in Nat : m = Len(verdicts) /\ ListOf(verdicts, m)
  BY Zenon DEF DisclosureInv, AnsweredInv, IsList
<1>4. DOMAIN verdicts = 1 .. m /\ Grown(verdicts, m, verdict, verdicts')
  <2>1. /\ Len(verdicts) = m /\ DOMAIN verdicts = 1 .. m
        /\ Grown(verdicts, m, verdict, Append(verdicts, verdict))
    BY <1>3, Appended
  <2> QED
    BY <1>2, <2>1, Zenon
<1>5. /\ Len(verdicts') = m + 1 /\ DOMAIN verdicts' = 1 .. m + 1 /\ ListOf(verdicts', m + 1)
      /\ verdicts'[m + 1] = verdict /\ \A k \in 1 .. m : verdicts'[k] = verdicts[k]
  BY <1>4, Zenon DEF Grown
<1>6. AnsweredAs(verdict)'
  <2>1. verdict.proof = n /\ verdict.call = call /\ verdict.challenge = challenge
        /\ verdict.result = ResultOf(proofs[n].proof, call, challenge)
    BY <1>1
  <2>2. AnsweredAs(verdict)
    BY <2>1, Zenon DEF AnsweredAs
  <2>3. verdict.proof \in DOMAIN proofs' /\ proofs'[verdict.proof] = proofs[verdict.proof]
    BY <1>2, <2>1
  <2> QED
    BY <1>2, <2>2, <2>3, SameAnswer
<1>7. SignedInv'
  BY <1>2, Zenon DEF DisclosureInv, SignedInv
<1>8. ShownInv'
  <2>1. ObjectOf(sig, pok.call, Len(proofs) + 1)' = ObjectOf(sig, pok.call, Len(proofs) + 1)
    BY <1>2 DEF ObjectOf, Pick
  <2> QED
    BY <1>2, <2>1, Zenon DEF DisclosureInv, ShownInv
<1>9. MadeInv'
  <2>1. ASSUME NEW k \in DOMAIN proofs
        PROVE  MadeAs(k, proofs[k])'
    <3>1. PICK made : made = proofs[k] /\ MadeAs(k, made)
      BY DEF DisclosureInv, MadeInv
    <3>2. MadeAs(k, made)'
      BY <1>2, <3>1, SameProof
    <3> QED
      BY <1>2, <3>1, <3>2 DEF MadeAs
  <2> QED
    BY <1>2, <2>1 DEF DisclosureInv, MadeInv
<1>10. AnsweredInv'
  <2>1. ASSUME NEW v \in 1 .. m + 1
        PROVE  AnsweredAs(verdicts[v])'
    <3>1. CASE v \in 1 .. m
      <4>1. PICK old : old = verdicts[v] /\ AnsweredAs(old)
        BY <1>4, <3>1 DEF DisclosureInv, AnsweredInv
      <4>2. old.proof \in DOMAIN proofs
        BY <4>1 DEF AnsweredAs
      <4>3. AnsweredAs(old)'
        BY <1>2, <4>1, <4>2, SameAnswer
      <4>4. verdicts'[v] = old
        BY <1>5, <3>1, <4>1
      <4> QED
        BY <4>3, <4>4 DEF AnsweredAs
    <3>2. CASE v = m + 1
      BY <1>5, <1>6, <3>2 DEF AnsweredAs
    <3> QED
      BY <3>1, <3>2
  <2>2. IsList(verdicts')
    BY <1>5 DEF IsList
  <2> QED
    BY <1>5, <2>1, <2>2 DEF AnsweredInv
<1> QED
  BY <1>7, <1>8, <1>9, <1>10 DEF DisclosureInv

\* A step that changes nothing.
LEMMA StutterKeeps ==
  ASSUME DisclosureInv, UNCHANGED vars
  PROVE  DisclosureInv'
<1>1. UNCHANGED <<scheme, origin, unblinded, sig, pok, proofs, verdicts>>
  BY DEF vars
<1>2. SignedInv'
  BY <1>1, Zenon DEF DisclosureInv, SignedInv
<1>3. ShownInv'
  <2>1. ObjectOf(sig, pok.call, Len(proofs) + 1)' = ObjectOf(sig, pok.call, Len(proofs) + 1)
    BY <1>1 DEF ObjectOf, Pick
  <2> QED
    BY <1>1, <2>1, Zenon DEF DisclosureInv, ShownInv
<1>4. MadeInv'
  <2>1. ASSUME NEW k \in DOMAIN proofs
        PROVE  MadeAs(k, proofs[k])'
    <3>1. PICK made : made = proofs[k] /\ MadeAs(k, made)
      BY DEF DisclosureInv, MadeInv
    <3>2. MadeAs(k, made)'
      BY <1>1, <3>1, SameProof
    <3> QED
      BY <1>1, <3>1, <3>2 DEF MadeAs
  <2> QED
    BY <1>1, <2>1 DEF DisclosureInv, MadeInv
<1>5. AnsweredInv'
  BY <1>1, AnswersStand DEF DisclosureInv
<1> QED
  BY <1>2, <1>3, <1>4, <1>5 DEF DisclosureInv

\* The invariant holds in every behaviour.
LEMMA Disclosing == Spec => []DisclosureInv
<1>1. ASSUME DisclosureInv, [Next]_vars
      PROVE  DisclosureInv'
  BY <1>1, SignKeeps, UnblindKeeps, ShowKeeps, GenProofKeeps, VerifyKeeps, StutterKeeps, Zenon
     DEF Next
<1> QED
  BY <1>1, InitHolds, PTL DEF Spec

-----------------------------------------------------------------------------
(***************************************************************************)
(* What verify says is one of four things; only PS panics, and only for    *)
(* positions the key has no generator for.                                 *)
(***************************************************************************)
LEMMA Results ==
  ASSUME NEW proof, NEW c, NEW challenge
  PROVE  /\ ResultOf(proof, c, challenge) \in {"true", "false", "error", "panic"}
         /\ ResultOf(proof, c, challenge) = "panic" =>
              scheme = "ps" /\ ~(DOMAIN c.revealed \subseteq 1 .. Count[c.key])
<1>1. PICK result : result = PS!VerifyProof(proof, c.key, c.revealed, challenge)
  OBVIOUS
<1>2. /\ result = "error" \/ result = "false" \/ result = "true" \/ result = "panic"
      /\ result = "panic" => ~(DOMAIN c.revealed \subseteq PS!Positions(c.key))
  <2>1. "error" # "panic" /\ "false" # "panic" /\ "true" # "panic"
    OBVIOUS
  <2> QED
    BY <1>1, <2>1, Zenon DEF PS!VerifyProof
<1>3. PICK other : other = BBS!VerifyProof(proof, c.key, c.revealed, challenge)
  OBVIOUS
<1>4. other = "error" \/ other = "false" \/ other = "true"
  BY <1>3, Zenon DEF BBS!VerifyProof
<1>5. ResultOf(proof, c, challenge) = IF scheme = "ps" THEN result ELSE other
  BY <1>1, <1>3, Zenon DEF ResultOf, Pick
<1> QED
  BY <1>2, <1>4, <1>5 DEF PS!Positions

\* Type correctness.
THEOREM Typing == Spec => []TypeOK
<1>1. ASSUME DisclosureInv
      PROVE  TypeOK
  <2>1. scheme \in Schemes /\ (sig = None <=> origin = None)
    BY <1>1, Zenon DEF DisclosureInv, SignedInv
  <2>2. sig # None => sig.at \in [1 .. Count[origin.key] -> Nat]
    BY <1>1 DEF DisclosureInv, SignedInv, SignatureFits, SignaturesOf
  <2>3. pok # None => pok.call \in ShowCalls
    BY <1>1, Zenon DEF DisclosureInv, ShownInv, Shown
  <2>4. ASSUME NEW n \in DOMAIN verdicts
        PROVE  /\ verdicts[n].proof \in DOMAIN proofs
               /\ verdicts[n].result \in {"true", "false", "error", "panic"}
    <3>1. PICK verdict : verdict = verdicts[n] /\ AnsweredAs(verdict)
      BY <1>1, Zenon DEF DisclosureInv, AnsweredInv
    <3>2. verdict.result = ResultOf(proofs[verdict.proof].proof, verdict.call, verdict.challenge)
          /\ verdict.proof \in DOMAIN proofs
      BY <3>1, Zenon DEF AnsweredAs
    <3>3. ResultOf(proofs[verdict.proof].proof, verdict.call, verdict.challenge)
            \in {"true", "false", "error", "panic"}
      BY Results
    <3> QED
      BY <3>1, <3>2, <3>3, Zenon
  <2> QED
    BY <2>1, <2>2, <2>3, <2>4 DEF TypeOK
<1> QED
  BY <1>1, Disclosing, PTL

\* Both schemes check the pairing equation of a signature alike.
LEMMA VerifyMeans ==
  ASSUME NEW messages, NEW key
  PROVE  VerifySignature(messages, key) = "true" <=>
           /\ Len(messages) = Count[key] /\ sig.key = key /\ sig.at = messages
           /\ \A b \in SignBlindings : sig.left[b] = 0
<1>1. "error" # "true" /\ "false" # "true"
  OBVIOUS
<1>2. PS!Covers(sig, key, messages) <=> BBS!Covers(sig, key, messages)
  BY Zenon DEF PS!Covers, BBS!Covers
<1>3. VerifySignature(messages, key) = "true" <=>
        Len(messages) = Count[key] /\ PS!Covers(sig, key, messages)
  BY <1>1, <1>2, Zenon DEF VerifySignature, Pick, PS!Verify, BBS!Verify
<1> QED
  BY <1>3, Zenon DEF PS!Covers

(***************************************************************************)
(* A blind signature, unblinded, verifies for the committed messages       *)
(* followed by the known ones, and for nothing else; not unblinded, or     *)
(* otherwise than once with its own blinding, for nothing.                 *)
(***************************************************************************)
THEOREM BlindSigning == Spec => []BlindSigned
<1>1. ASSUME DisclosureInv
      PROVE  BlindSigned
  <2> SUFFICES ASSUME NEW call \in ShowCalls, sig # None, SplitOf(origin, call.messages),
                      NEW key \in DOMAIN Count, NEW other
               PROVE  VerifySignature(other, key) = "true" <=>
                        key = origin.key /\ other = call.messages /\ Unblinded(origin, unblinded)
    BY Zenon DEF BlindSigned
  <2>1. SignatureFits(sig, origin, unblinded)
    BY <1>1, Zenon DEF DisclosureInv, SignedInv
  <2>2. /\ origin \in SignCalls /\ Len(origin.messages) <= Count[origin.key]
        /\ sig.at = SignedAs(origin).at /\ sig.key = origin.key
    BY <2>1 DEF SignatureFits, SignaturesOf
  <2>3. SignedAs(origin).at = call.messages
    <3>1. PICK messages \in Seq(Nat) : messages = call.messages
      BY ShowCallsAssumption, Zenon
    <3>2. SplitOf(origin, messages)
      BY <3>1, Zenon
    <3>3. SignedAs(origin).at = messages
      BY <2>2, <3>2, SplitCovered
    <3> QED
      BY <3>1, <3>3, Zenon
  <2>4. Len(call.messages) = Count[origin.key]
    BY Zenon DEF SplitOf
  <2>5. (\A b \in SignBlindings : sig.left[b] = 0) <=> Unblinded(origin, unblinded)
    BY <2>1, LeftMeans
  <2>6. VerifySignature(other, key) = "true" <=>
          /\ Len(other) = Count[key] /\ sig.key = key /\ sig.at = other
          /\ \A b \in SignBlindings : sig.left[b] = 0
    BY VerifyMeans
  <2> QED
    BY <2>2, <2>3, <2>4, <2>5, <2>6, Zenon
<1> QED
  BY <1>1, Disclosing, PTL

\* A verdict, and how the proof it is about was made.
VerdictOn(v, verdict, made) ==
  /\ verdict = verdicts[v] /\ made = proofs[verdict.proof]
  /\ MadeAs(verdict.proof, made)
  /\ SignatureFits(sig, origin, unblinded) /\ verdict.call \in VerifyCalls
  /\ verdict.result = ResultOf(ProofOf(sig, made.call, verdict.proof, made.challenge),
                               verdict.call, verdict.challenge)

\* The invariant tells both of every verdict.
LEMMA OfVerdict ==
  ASSUME DisclosureInv, NEW v \in DOMAIN verdicts
  PROVE  \E verdict, made : VerdictOn(v, verdict, made)
<1>1. PICK verdict : verdict = verdicts[v] /\ AnsweredAs(verdict)
  BY Zenon DEF DisclosureInv, AnsweredInv
<1>2. /\ verdict.proof \in DOMAIN proofs /\ verdict.call \in VerifyCalls
      /\ verdict.result = ResultOf(proofs[verdict.proof].proof, verdict.call, verdict.challenge)
  BY <1>1, Zenon DEF AnsweredAs
<1>3. PICK made : made = proofs[verdict.proof] /\ MadeAs(verdict.proof, made)
  BY <1>2, Zenon DEF DisclosureInv, MadeInv
<1>4. made.proof = ProofOf(sig, made.call, verdict.proof, made.challenge)
  BY <1>3, Zenon DEF MadeAs
<1>5. SignatureFits(sig, origin, unblinded)
  <2>1. proofs # <<>>
    BY <1>2
  <2> QED
    BY <2>1, Zenon DEF DisclosureInv, SignedInv
<1> QED
  BY <1>1, <1>2, <1>3, <1>4, <1>5, Zenon DEF VerdictOn

\* A call that is not refused reveals positions of the key.
LEMMA ShownParts ==
  ASSUME NEW c, Shown(c)
  PROVE  /\ c \in ShowCalls /\ c.key \in DOMAIN Count /\ c.messages \in Seq(Nat)
         /\ Len(c.messages) = Count[c.key] /\ c.revealed \in SUBSET (1 .. Count[c.key])
<1>1. /\ c \in ShowCalls /\ Len(c.messages) = Count[c.key]
      /\ \A i \in c.revealed : ~(i > Len(c.messages))
  BY Zenon DEF Shown, PS!ShowRefused
<1>2. c.key \in DOMAIN Count /\ c.messages \in Seq(Nat) /\ c.revealed \subseteq Nat \ {0}
  BY <1>1, ShowCallsAssumption, Zenon
<1>3. PICK count \in Nat : count = Count[c.key]
  BY <1>2, CountAssumption
<1>4. ASSUME NEW i \in c.revealed
      PROVE  i \in 1 .. count
  <2>1. i \in Nat \ {0} /\ ~(i > count)
    BY <1>1, <1>2, <1>3, Zenon
  <2> QED
    BY <2>1
<1> QED
  BY <1>1, <1>2, <1>3, <1>4

(***************************************************************************)
(* A proof that is accepted was made from an unblinded signature of the    *)
(* verifier's key, for its challenge, and shows signed messages only.      *)
(***************************************************************************)
THEOREM AcceptedSigned == Spec => []AcceptedIsSigned
<1>1. ASSUME DisclosureInv
      PROVE  AcceptedIsSigned
  <2>1. ASSUME NEW v \in DOMAIN verdicts, verdicts[v].result = "true"
        PROVE  LET verdict == verdicts[v]
                   made    == proofs[verdict.proof]
               IN  /\ made.origin.key = verdict.call.key
                   /\ Unblinded(made.origin, made.unblinded)
                   /\ made.challenge = verdict.challenge
                   /\ \A i \in DOMAIN verdict.call.revealed :
                        /\ i \in DOMAIN SignedAs(made.origin).at
                        /\ verdict.call.revealed[i] = SignedAs(made.origin).at[i]
    <3>0. PICK verdict, made : VerdictOn(v, verdict, made)
      BY <1>1, OfVerdict
    <3>1. /\ verdict = verdicts[v] /\ made = proofs[verdict.proof]
          /\ MadeAs(verdict.proof, made)
          /\ SignatureFits(sig, origin, unblinded) /\ verdict.call \in VerifyCalls
          /\ verdict.result = ResultOf(ProofOf(sig, made.call, verdict.proof, made.challenge),
                                       verdict.call, verdict.challenge)
      BY <3>0, Zenon DEF VerdictOn
    <3>2. made.origin = origin /\ made.unblinded = unblinded /\ Shown(made.call)
      BY <3>1, Zenon DEF MadeAs
    <3>3. sig.key = origin.key /\ sig.at = SignedAs(origin).at
      BY <3>1 DEF SignatureFits, SignaturesOf
    <3>4. PICK c, ask : c = made.call /\ ask = verdict.call
      OBVIOUS
    <3>5. /\ c.key \in DOMAIN Count /\ c.messages \in Seq(Nat) /\ Len(c.messages) = Count[c.key]
      BY <3>2, <3>4, ShownParts
    <3>6. ask.key \in DOMAIN Count /\ ask.revealed \in [DOMAIN ask.revealed -> Nat]
      BY <3>1, <3>4, VerifyCallsAssumption, Zenon
    <3>7. /\ sig.key = ask.key /\ verdict.challenge = made.challenge
          /\ \A b \in SignBlindings : sig.left[b] = 0
          /\ \A i \in DOMAIN ask.revealed : i \in DOMAIN sig.at /\ sig.at[i] = ask.revealed[i]
      <4>1. PICK key, messages, given, revealed, draw, challenge, other, shown, asked :
              /\ key = c.key /\ messages = c.messages /\ given = c.blindings
              /\ revealed = c.revealed /\ draw = verdict.proof /\ challenge = made.challenge
              /\ other = ask.key /\ shown = ask.revealed /\ asked = verdict.challenge
        OBVIOUS
      <4>2. /\ key \in DOMAIN Count /\ messages \in Seq(Nat) /\ Len(messages) = Count[key]
            /\ other \in DOMAIN Count /\ shown \in [DOMAIN shown -> Nat]
        BY <3>5, <3>6, <4>1, Zenon
      <4>3. ResultOf(ProofOf(sig, c, draw, challenge), ask, asked) = "true"
        BY <2>1, <3>1, <3>4, <4>1, Zenon
      <4>4. CASE scheme = "ps"
        <5>1. PS!VerifyProof(PSProof(sig, key, messages, given, revealed, draw, challenge),
                             other, shown, asked) = "true"
          BY <4>1, <4>3, <4>4, Zenon DEF ResultOf, ProofOf, Pick
        <5>2. PICK s : s = sig
          OBVIOUS
        <5>3. PS!VerifyProof(PSProof(s, key, messages, given, revealed, draw, challenge),
                             other, shown, asked) = "true"
          BY <5>1, <5>2, Zenon
        <5>4. SoundFor(s, challenge, other, shown, asked)
          BY <4>2, <5>3, PSAccepts
        <5> QED
          BY <4>1, <5>2, <5>4, Zenon DEF SoundFor
      <4>5. CASE scheme # "ps"
        <5>1. BBS!VerifyProof(BBSProof(sig, key, messages, given, revealed, draw, challenge),
                              other, shown, asked) = "true"
          BY <4>1, <4>3, <4>5, Zenon DEF ResultOf, ProofOf, Pick
        <5>2. PICK s : s = sig
          OBVIOUS
        <5>3. BBS!VerifyProof(BBSProof(s, key, messages, given, revealed, draw, challenge),
                              other, shown, asked) = "true"
          BY <5>1, <5>2, Zenon
        <5>4. SoundFor(s, challenge, other, shown, asked)
          BY <4>2, <5>3, BBSAccepts
        <5> QED
          BY <4>1, <5>2, <5>4, Zenon DEF SoundFor
      <4> QED
        BY <4>4, <4>5
    <3>8. Unblinded(origin, unblinded)
      BY <3>1, <3>7, LeftMeans
    <3> QED
      BY <3>1, <3>2, <3>3, <3>4, <3>7, <3>8, Zenon
  <2> QED
    BY <2>1, Zenon DEF AcceptedIsSigned, Accepted, SignedAs
<1> QED
  BY <1>1, Disclosing, PTL

(***************************************************************************)
(* A holder that proves what its unblinded signature covers, and tells the *)
(* verifier what it reveals, is accepted.                                  *)
(***************************************************************************)
THEOREM HonestShown == Spec => []HonestIsShown
<1>1. ASSUME DisclosureInv
      PROVE  HonestIsShown
  <2>1. ASSUME NEW v \in DOMAIN verdicts
        PROVE  LET verdict == verdicts[v]
                   made    == proofs[verdict.proof]
               IN  /\ SplitOf(made.origin, made.call.messages)
                   /\ Unblinded(made.origin, made.unblinded)
                   /\ made.call.key = made.origin.key /\ verdict.call.key = made.origin.key
                   /\ verdict.challenge = made.challenge
                   /\ verdict.call.revealed = [i \in made.call.revealed |-> made.call.messages[i]]
                   => verdict.result = "true"
    <3>1. PICK verdict, made : VerdictOn(v, verdict, made)
      BY <1>1, OfVerdict
    <3>2. /\ verdict = verdicts[v] /\ made = proofs[verdict.proof]
          /\ MadeAs(verdict.proof, made) /\ SignatureFits(sig, origin, unblinded)
          /\ verdict.result = ResultOf(ProofOf(sig, made.call, verdict.proof, made.challenge),
                                       verdict.call, verdict.challenge)
      BY <3>1, Zenon DEF VerdictOn
    <3>3. made.origin = origin /\ made.unblinded = unblinded /\ Shown(made.call)
      BY <3>2, Zenon DEF MadeAs
    <3>4. PICK c, ask : c = made.call /\ ask = verdict.call
      OBVIOUS
    <3> SUFFICES ASSUME SplitOf(origin, c.messages), Unblinded(origin, unblinded),
                        c.key = origin.key, ask.key = origin.key,
                        verdict.challenge = made.challenge,
                        ask.revealed = [i \in c.revealed |-> c.messages[i]]
                 PROVE  verdict.result = "true"
      BY <3>2, <3>3, <3>4, Zenon
    <3>5. /\ c.key \in DOMAIN Count /\ c.messages \in Seq(Nat) /\ Len(c.messages) = Count[c.key]
          /\ c.revealed \in SUBSET (1 .. Count[c.key])
      BY <3>3, <3>4, ShownParts
    <3>6. PICK key, messages, given, revealed, draw, challenge, s :
            /\ key = c.key /\ messages = c.messages /\ given = c.blindings
            /\ revealed = c.revealed /\ draw = verdict.proof /\ challenge = made.challenge
            /\ s = sig
      OBVIOUS
    <3>7. /\ key \in DOMAIN Count /\ messages \in Seq(Nat) /\ Len(messages) = Count[key]
          /\ revealed \in SUBSET (1 .. Count[key])
      BY <3>5, <3>6, Zenon
    <3>8. /\ origin \in SignCalls /\ Len(origin.messages) <= Count[origin.key]
          /\ s.key = key /\ s.at = SignedAs(origin).at
      BY <3>2, <3>6 DEF SignatureFits, SignaturesOf
    <3>9. s.at = messages
      <4>1. SplitOf(origin, messages)
        BY <3>6, Zenon
      <4>2. SignedAs(origin).at = messages
        BY <3>7, <3>8, <4>1, SplitCovered
      <4> QED
        BY <3>8, <4>2, Zenon
    <3>10. \A b \in SignBlindings : s.left[b] = 0
      <4>1. \A b \in SignBlindings : sig.left[b] = 0
        BY <3>2, LeftMeans
      <4> QED
        BY <3>6, <4>1, Zenon
    <3>11. PS!VerifyProof(PSProof(s, key, messages, given, revealed, draw, challenge),
                          key, [i \in revealed |-> messages[i]], challenge) = "true"
      BY <3>7, <3>8, <3>9, <3>10, PSHonest
    <3>12. BBS!VerifyProof(BBSProof(s, key, messages, given, revealed, draw, challenge),
                           key, [i \in revealed |-> messages[i]], challenge) = "true"
      BY <3>7, <3>8, <3>9, <3>10, BBSHonest
    <3>13. /\ ask.key = key /\ verdict.challenge = challenge
           /\ ask.revealed = [i \in revealed |-> messages[i]]
      BY <3>6, Zenon
    <3>14. verdict.result = ResultOf(ProofOf(s, c, draw, challenge), ask, challenge)
      BY <3>2, <3>4, <3>6, <3>13, Zenon
    <3>15. /\ PSProof(s, c.key, c.messages, c.blindings, c.revealed, draw, challenge)
                = PSProof(s, key, messages, given, revealed, draw, challenge)
           /\ BBSProof(s, c.key, c.messages, c.blindings, c.revealed, draw, challenge)
                = BBSProof(s, key, messages, given, revealed, draw, challenge)
      BY <3>6, Zenon
    <3>16. CASE scheme = "ps"
      BY <3>11, <3>13, <3>14, <3>15, <3>16, Zenon DEF ResultOf, ProofOf, Pick
    <3>17. CASE scheme # "ps"
      BY <3>12, <3>13, <3>14, <3>15, <3>17, Zenon DEF ResultOf, ProofOf, Pick
    <3> QED
      BY <3>16, <3>17
  <2> QED
    BY <2>1, Zenon DEF HonestIsShown
<1> QED
  BY <1>1, Disclosing, PTL

\* The response about a hidden message of a proof, in either scheme.
LEMMA ResponseMade ==
  ASSUME NEW n, NEW made, MadeAs(n, made), NEW i \in Hidden(made)
  PROVE  /\ Response(made, i)
              = Responded(made.call.blindings, n, Rank(i, made.call.revealed),
                          made.challenge, made.call.messages[i])
         /\ made.call.blindings # None =>
              /\ Rank(i, made.call.revealed) \in DOMAIN made.call.blindings
              /\ Given(made, i) = made.call.blindings[Rank(i, made.call.revealed)]
<1>1. PICK c, challenge : c = made.call /\ challenge = made.challenge
  OBVIOUS
<1>2. Shown(c) /\ made.proof = ProofOf(sig, c, n, challenge)
  BY <1>1, Zenon DEF MadeAs
<1>3. /\ c \in ShowCalls /\ c.key \in DOMAIN Count /\ c.messages \in Seq(Nat)
      /\ Len(c.messages) = Count[c.key] /\ c.revealed \in SUBSET (1 .. Count[c.key])
  BY <1>2, ShownParts
<1>4. PICK key, messages, given, revealed, s :
        /\ key = c.key /\ messages = c.messages /\ given = c.blindings /\ revealed = c.revealed
        /\ s = sig
  OBVIOUS
<1>5. PICK count \in Nat : count = Count[key]
  BY <1>3, <1>4, CountAssumption
<1>6. i \in 1 .. count /\ i \notin revealed /\ key \in DOMAIN Count /\ revealed \subseteq 1 .. count
  BY <1>1, <1>3, <1>4, <1>5 DEF Hidden
<1>7. /\ PS!ResponseAt(PSProof(s, key, messages, given, revealed, n, challenge), revealed, i)
           = Responded(given, n, Rank(i, revealed), challenge, messages[i])
      /\ BBS!ResponseAt(BBSProof(s, key, messages, given, revealed, n, challenge), revealed, i)
           = Responded(given, n, Rank(i, revealed), challenge, messages[i])
  <2>1. i \in 1 .. Count[key]
    BY <1>5, <1>6
  <2>2. PS!ResponseAt(PSProof(s, key, messages, given, revealed, n, challenge), revealed, i)
           = Responded(given, n, Rank(i, revealed), challenge, messages[i])
    BY <1>6, <2>1, PSResponds
  <2>3. BBS!ResponseAt(BBSProof(s, key, messages, given, revealed, n, challenge), revealed, i)
           = Responded(given, n, Rank(i, revealed), challenge, messages[i])
    BY <1>6, <2>1, BBSResponds
  <2> QED
    BY <2>2, <2>3
<1>8. Response(made, i) = Responded(given, n, Rank(i, revealed), challenge, messages[i])
  <2>1. made.proof = Pick(PSProof(s, key, messages, given, revealed, n, challenge),
                          BBSProof(s, key, messages, given, revealed, n, challenge))
    BY <1>2, <1>4, Zenon DEF ProofOf
  <2>2. made.call.revealed = revealed
    BY <1>1, <1>4
  <2>3. Response(made, i) = Pick(PS!ResponseAt(made.proof, revealed, i),
                                 BBS!ResponseAt(made.proof, revealed, i))
    BY <2>2, Zenon DEF Response
  <2>4. CASE scheme = "ps"
    BY <1>7, <2>1, <2>3, <2>4, Zenon DEF Pick
  <2>5. CASE scheme # "ps"
    BY <1>7, <2>1, <2>3, <2>5, Zenon DEF Pick
  <2> QED
    BY <2>4, <2>5
<1>9. Given(made, i) = given[Rank(i, revealed)]
  <2>1. {j \in 1 .. i : j \in Hidden(made)} = {j \in 1 .. i : j \notin revealed}
    <3>1. \A j \in 1 .. i : j \in 1 .. count
      BY <1>5, <1>6
    <3>2. Hidden(made) = 1 .. count \ revealed
      BY <1>1, <1>4, <1>5, Zenon DEF Hidden
    <3> QED
      BY <3>1, <3>2
  <2> QED
    BY <1>1, <1>4, <2>1, Zenon DEF Given, Rank
<1>10. ASSUME given # None
       PROVE  Rank(i, revealed) \in DOMAIN given
  <2>1. KeptOf(PS!HiddenSeq(key, revealed), count, revealed)
    BY <1>5, <1>6, HiddenPositions
  <2>2. Rank(i, revealed) \in 1 .. Rank(count, revealed)
    BY <1>6, <2>1, Zenon DEF KeptOf
  <2>3. Len(given) = Rank(count, revealed)
    <3>1. PICK size : size = Cardinality(revealed)
      OBVIOUS
    <3>2. Len(given) = count - size
      <4>1. PS!Cardinality(revealed) = Cardinality(revealed)
        BY Zenon DEF PS!Cardinality, Cardinality, PS!IsFiniteSet, IsFiniteSet
      <4>2. ~(Len(given) # Len(messages) - PS!Cardinality(revealed))
        BY <1>2, <1>4, <1>10, Zenon DEF Shown, PS!ShowRefused
      <4>3. Len(messages) = count
        BY <1>3, <1>4, <1>5
      <4> QED
        BY <3>1, <4>1, <4>2, <4>3, Zenon
    <3>3. IsFiniteSet(1 .. count) /\ Cardinality(1 .. count) = count
      BY FS_Interval
    <3>4. PICK all : all = 1 .. count
      OBVIOUS
    <3>5. Cardinality(all \ revealed) = Cardinality(all) - Cardinality(all \cap revealed)
      BY <3>3, <3>4, FS_Difference
    <3>6. all \cap revealed = revealed
      BY <1>6, <3>4
    <3>7. all \ revealed = {j \in 1 .. count : j \notin revealed}
      BY <3>4
    <3>8. Rank(count, revealed) = Cardinality(all \ revealed)
      BY <3>7, Zenon DEF Rank
    <3> QED
      BY <3>1, <3>2, <3>3, <3>4, <3>5, <3>6, <3>8, Zenon
  <2>4. DOMAIN given = 1 .. Len(given)
    BY <1>3, <1>4, <1>10, ShowCallsAssumption, Zenon
  <2> QED
    BY <2>2, <2>3, <2>4, Zenon
<1> QED
  BY <1>1, <1>4, <1>8, <1>9, <1>10, Zenon

\* A blinding of the holder's own is not one of the library's.
NotDrawn(b, k) == b # None => b[k] \notin {"drawn"} \X Nat \X Int

SameWhenGiven(b, m, k, d, n, l) ==
  BlindingOf(b, m, k) = BlindingOf(d, n, l) <=> b # None /\ d # None /\ b[k] = d[l]

(***************************************************************************)
(* Blindings of the library are drawn for one proof and one position, so   *)
(* those of two proofs are the same only if the holder gave them.          *)
(***************************************************************************)
LEMMA BlindingsDiffer ==
  ASSUME NEW b, NEW d, NEW m \in Nat, NEW n \in Nat, m # n, NEW k \in Nat, NEW l \in Nat,
         NotDrawn(b, k), NotDrawn(d, l)
  PROVE  SameWhenGiven(b, m, k, d, n, l)
<1>1. PICK x : x = <<"drawn", m, k>>
  OBVIOUS
<1>2. PICK y : y = <<"drawn", n, l>>
  OBVIOUS
<1>3. x # y
  BY <1>1, <1>2
<1>4. PICK T : T = {"drawn"} \X Nat \X Int
  OBVIOUS
<1>5. x \in T /\ y \in T
  BY <1>1, <1>2, <1>4
<1>6. BlindingOf(b, m, k) = IF b = None THEN x ELSE b[k]
  BY <1>1, Zenon DEF BlindingOf
<1>7. BlindingOf(d, n, l) = IF d = None THEN y ELSE d[l]
  BY <1>2, Zenon DEF BlindingOf
<1> QED
  BY <1>3, <1>4, <1>5, <1>6, <1>7, Zenon DEF NotDrawn, SameWhenGiven

(***************************************************************************)
(* Under one challenge, the responses of two proofs about a hidden message *)
(* each are equal if and only if the holder gave the same blinding for     *)
(* both and the messages are equal.                                        *)
(***************************************************************************)
THEOREM Linking == Spec => []LinkedResponses
<1>1. ASSUME DisclosureInv
      PROVE  LinkedResponses
  <2> SUFFICES ASSUME NEW m \in DOMAIN proofs, NEW n \in DOMAIN proofs, m # n,
                      proofs[m].challenge = proofs[n].challenge,
                      NEW i \in Hidden(proofs[m]), NEW j \in Hidden(proofs[n])
               PROVE  Response(proofs[m], i) = Response(proofs[n], j) <=>
                        /\ proofs[m].call.blindings # None /\ proofs[n].call.blindings # None
                        /\ Given(proofs[m], i) = Given(proofs[n], j)
                        /\ proofs[m].call.messages[i] = proofs[n].call.messages[j]
    BY Zenon DEF LinkedResponses
  <2>1. PICK p, q : p = proofs[m] /\ q = proofs[n] /\ MadeAs(m, p) /\ MadeAs(n, q)
    BY <1>1, Zenon DEF DisclosureInv, MadeInv
  <2>2. m \in Nat /\ n \in Nat
    <3>1. PICK len \in Nat : ListOf(proofs, len)
      BY <1>1, Zenon DEF DisclosureInv, MadeInv, IsList
    <3>2. DOMAIN proofs = 1 .. len
      BY <3>1 DEF ListOf
    <3> QED
      BY <3>2
  <2>3. PICK b, d, k, l :
          /\ b = p.call.blindings /\ d = q.call.blindings
          /\ k = Rank(i, p.call.revealed) /\ l = Rank(j, q.call.revealed)
    OBVIOUS
  <2>4. PICK x, y : x = p.call.messages[i] /\ y = q.call.messages[j]
    OBVIOUS
  <2>5. /\ Response(p, i) = Responded(b, m, k, p.challenge, x)
        /\ b # None => k \in DOMAIN b /\ Given(p, i) = b[k]
    BY <2>1, <2>3, <2>4, ResponseMade
  <2>6. /\ Response(q, j) = Responded(d, n, l, q.challenge, y)
        /\ d # None => l \in DOMAIN d /\ Given(q, j) = d[l]
    BY <2>1, <2>3, <2>4, ResponseMade
  <2>7. p.challenge = q.challenge
    BY <2>1
  <2>8. Response(p, i) = Response(q, j) <=>
          BlindingOf(b, m, k) = BlindingOf(d, n, l) /\ x = y
    <3>1. PICK u, w : u = BlindingOf(b, m, k) /\ w = BlindingOf(d, n, l)
      OBVIOUS
    <3>2. PICK ch : ch = p.challenge
      OBVIOUS
    <3>3. /\ Response(p, i) = [blinding |-> u, challenge |-> ch, secret |-> <<"m", x>>]
          /\ Response(q, j) = [blinding |-> w, challenge |-> ch, secret |-> <<"m", y>>]
      BY <2>5, <2>6, <2>7, <3>1, <3>2, Zenon DEF Responded
    <3> QED
      BY <3>1, <3>3
  <2>9. k \in Nat /\ l \in Nat
    <3>1. i \in Nat /\ j \in Nat
      BY <2>1, CountAssumption DEF Hidden
    <3> QED
      BY <2>3, <3>1, RankSteps
  <2>10. NotDrawn(b, k) /\ NotDrawn(d, l)
    <3>1. p.call \in ShowCalls /\ q.call \in ShowCalls
      BY <2>1, Zenon DEF MadeAs, Shown
    <3> QED
      BY <2>3, <2>5, <2>6, <3>1, ShowCallsAssumption, Zenon DEF NotDrawn
  <2>11. BlindingOf(b, m, k) = BlindingOf(d, n, l) <=> b # None /\ d # None /\ b[k] = d[l]
    <3>1. SameWhenGiven(b, m, k, d, n, l)
      BY <2>2, <2>9, <2>10, BlindingsDiffer
    <3> QED
      BY <3>1, Zenon DEF SameWhenGiven
  <2> QED
    BY <2>1, <2>3, <2>4, <2>5, <2>6, <2>8, <2>11, Zenon
<1> QED
  BY <1>1, Disclosing, PTL
===============================================================================
