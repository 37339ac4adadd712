-------------------------- MODULE ProofSessionProofs ---------------------------
(***************************************************************************)
(* Theorems about ProofSession, for any attributes, credentials, requests  *)
(* and schemas, and any number of credentials, proofs and calls of verify. *)
(*                                                                         *)
(* First what the recursive function of Joined returns, by an induction    *)
(* (RecursionProofs); then the invariants, each inductive given those      *)
(* before it: the types (SessionInv), the lists (Books), the verdicts of   *)
(* the verifier (VerdictInv) and its notes (Noted).                        *)
(***************************************************************************)
EXTENDS ProofSession, RecursionProofs, TLAPS

-----------------------------------------------------------------------------
(***************************************************************************)
(* Sequences of numbers in increasing order.                               *)
(***************************************************************************)
Occurs(x, s) == \E i \in DOMAIN s : s[i] = x
Increasing(s) == \A i, j \in DOMAIN s : i < j => s[i] < s[j]

\* Two increasing sequences of the same numbers are the same sequence.
LEMMA SameIncreasing ==
  ASSUME NEW s \in Seq(Nat), NEW t \in Seq(Nat), Increasing(s), Increasing(t),
         \A i \in DOMAIN s : Occurs(s[i], t), \A i \in DOMAIN t : Occurs(t[i], s)
  PROVE  s = t
<1> DEFINE Differ == {i \in Nat : i \in DOMAIN s /\ i \in DOMAIN t /\ s[i] # t[i]}
<1>1. Differ = {}
  <2> SUFFICES ASSUME Differ # {}
               PROVE  FALSE
    OBVIOUS
  <2>1. PICK m \in Differ : \A k \in Differ : m <= k
    BY Least
  <2>2. m \in DOMAIN s /\ m \in DOMAIN t /\ s[m] # t[m] /\ m \in Nat
    BY <2>1
  <2>3. \A j \in DOMAIN s \cap DOMAIN t : j < m => s[j] = t[j]
    <3> SUFFICES ASSUME NEW j \in DOMAIN s \cap DOMAIN t, j < m, s[j] # t[j]
                 PROVE  FALSE
      OBVIOUS
    <3>1. j \in Differ
      OBVIOUS
    <3> QED
      BY <2>1, <2>2, <3>1
  <2>4. PICK j \in DOMAIN t : t[j] = s[m]
    BY <2>2 DEF Occurs
  <2>5. PICK k \in DOMAIN s : s[k] = t[m]
    BY <2>2 DEF Occurs
  <2>6. s[m] \in Nat /\ t[m] \in Nat /\ j \in Nat /\ k \in Nat
    BY <2>2, <2>4, <2>5
  <2>7. ~(s[m] < t[m])
    <3> SUFFICES ASSUME s[m] < t[m]
                 PROVE  FALSE
      OBVIOUS
    <3>1. ~(m < j) /\ m # j
      BY <2>2, <2>4, <2>6 DEF Increasing
    <3>2. j < m
      BY <2>2, <2>6, <3>1
    <3>3. j \in DOMAIN s
      BY <2>2, <2>6, <3>2
    <3> QED
      BY <2>2, <2>3, <2>4, <2>6, <3>2, <3>3 DEF Increasing
  <2>8. ~(t[m] < s[m])
    <3> SUFFICES ASSUME t[m] < s[m]
                 PROVE  FALSE
      OBVIOUS
    <3>1. ~(m < k) /\ m # k
      BY <2>2, <2>5, <2>6 DEF Increasing
    <3>2. k < m
      BY <2>2, <2>6, <3>1
    <3>3. k \in DOMAIN t
      BY <2>2, <2>6, <3>2
    <3> QED
      BY <2>2, <2>3, <2>5, <2>6, <3>2, <3>3 DEF Increasing
  <2> QED
    BY <2>2, <2>6, <2>7, <2>8
<1>2. ASSUME NEW u \in Seq(Nat), NEW v \in Seq(Nat), Increasing(v), Len(u) < Len(v),
             \A i \in DOMAIN v : Occurs(v[i], u), \A i \in DOMAIN u \cap DOMAIN v : u[i] = v[i]
      PROVE  FALSE
  <2>1. Len(u) + 1 \in DOMAIN v
    BY <1>2
  <2>2. PICK j \in DOMAIN u : u[j] = v[Len(u) + 1]
    BY <1>2, <2>1 DEF Occurs
  <2>3. j \in DOMAIN v /\ j < Len(u) + 1 /\ v[j] = u[j]
    BY <1>2
  <2>4. v[j] < v[Len(u) + 1]
    BY <1>2, <2>1, <2>3 DEF Increasing
  <2> QED
    BY <2>1, <2>2, <2>3, <2>4
<1>3. \A i \in DOMAIN s \cap DOMAIN t : s[i] = t[i]
  BY <1>1
<1>4. ~(Len(s) < Len(t)) /\ ~(Len(t) < Len(s))
  BY <1>2, <1>3
<1>5. Len(s) = Len(t)
  BY <1>4
<1> QED
  BY <1>3, <1>5

\* g[i] is what the first i pieces give.
Joins(g, n, pieces) ==
  /\ g \in [0 .. n -> Seq(Nat)]
  /\ g[0] = <<>>
  /\ \A i \in 1 .. n : g[i] = g[i - 1] \o pieces[i]

\* There is such a function for any pieces, by induction on their number,
\* and it is the one Joined defines.
LEMMA JoinsExists ==
  ASSUME NEW pieces \in Seq(Seq(Nat))
  PROVE  \E g : Joins(g, Len(pieces), pieces)
<1>1. PICK L \in Nat : L = Len(pieces) /\ \A n \in 1 .. L : pieces[n] \in Seq(Nat)
  OBVIOUS
<1>2. PICK step : step = [p \in (1 .. L) \X Seq(Nat) |-> p[2] \o pieces[p[1]]]
  OBVIOUS
<1>3. \A n \in 1 .. L, x \in Seq(Nat) : step[<<n, x>>] = x \o pieces[n]
  BY <1>2
<1>4. step \in [(1 .. L) \X Seq(Nat) -> Seq(Nat)]
  <2>1. \A p \in (1 .. L) \X Seq(Nat) : p[2] \in Seq(Nat) /\ pieces[p[1]] \in Seq(Nat)
    BY <1>1
  <2>2. \A x, y \in Seq(Nat) : x \o y \in Seq(Nat)
    OBVIOUS
  <2>3. \A p \in (1 .. L) \X Seq(Nat) : p[2] \o pieces[p[1]] \in Seq(Nat)
    BY <2>1, <2>2, Zenon
  <2> QED
    BY <1>2, <2>3, Zenon
<1>5. <<>> \in Seq(Nat)
  OBVIOUS
<1>6. PICK g \in [0 .. L -> Seq(Nat)] : Follows(g, <<>>, step, L)
  BY <1>4, <1>5, RecursionExists
<1>7. \A n \in 1 .. L : g[n] = g[n - 1] \o pieces[n]
  <2>1. \A n \in 1 .. L : n - 1 \in 0 .. L
    OBVIOUS
  <2>2. \A n \in 1 .. L : g[n - 1] \in Seq(Nat)
    BY <2>1
  <2>3. \A n \in 1 .. L : g[n] = step[<<n, g[n - 1]>>]
    BY <1>6 DEF Follows
  <2> QED
    BY <1>3, <2>2, <2>3, Zenon
<1> QED
  BY <1>1, <1>6, <1>7 DEF Joins, Follows

\* The entries that the verifier joins are the last of the partial joins: the
\* recursive function of Joined has the values its equation gives.
LEMMA JoinedByPieces ==
  ASSUME NEW pieces \in Seq(Seq(Nat))
  PROVE  \E g : Joins(g, Len(pieces), pieces) /\ Joined(pieces) = g[Len(pieces)]
<1> DEFINE Rec(g) == g = [n \in 0 .. Len(pieces) |->
                            IF n = 0 THEN <<>> ELSE g[n - 1] \o pieces[n]]
<1>1. PICK g : Joins(g, Len(pieces), pieces)
  BY JoinsExists
<1>2. Rec(g)
  <2>1. ASSUME NEW n \in 0 .. Len(pieces)
        PROVE  g[n] = IF n = 0 THEN <<>> ELSE g[n - 1] \o pieces[n]
    <3>1. CASE n = 0
      BY <1>1, <3>1 DEF Joins
    <3>2. CASE n # 0
      <4>1. n \in 1 .. Len(pieces)
        BY <3>2
      <4>2. g[n] = g[n - 1] \o pieces[n]
        BY <1>1, <4>1 DEF Joins
      <4> QED
        BY <3>2, <4>2
    <3> QED
      BY <3>1, <3>2
  <2>2. g = [n \in 0 .. Len(pieces) |-> g[n]]
    BY <1>1 DEF Joins
  <2> QED
    BY <2>1, <2>2, Zenon
<1>3. PICK j : Rec(j) /\ Joined(pieces) = j[Len(pieces)]
  <2> DEFINE c == CHOOSE j : Rec(j)
  <2>1. Rec(c)
    BY <1>2, Zenon
  <2>2. Joined(pieces) = c[Len(pieces)]
    BY Zenon DEF Joined
  <2> QED
    BY <2>1, <2>2, Zenon
<1>4. Joins(j, Len(pieces), pieces)
  <2>1. PICK L \in Nat : L = Len(pieces)
    OBVIOUS
  <2>2. j[0] = <<>> /\ \A n \in 1 .. L : j[n] = j[n - 1] \o pieces[n]
    <3>1. \A n \in 0 .. L : j[n] = IF n = 0 THEN <<>> ELSE j[n - 1] \o pieces[n]
      BY <1>3, <2>1
    <3>2. 0 \in 0 .. L /\ \A n \in 1 .. L : n \in 0 .. L /\ n # 0
      OBVIOUS
    <3> QED
      BY <3>1, <3>2, Zenon
  <2>3. DOMAIN j = 0 .. L /\ j = [n \in 0 .. L |-> j[n]]
    BY <1>3, <2>1
  <2> DEFINE S == {n \in Nat : n <= L => j[n] \in Seq(Nat)}
  <2>4. 0 \in S
    <3>1. <<>> \in Seq(Nat)
      OBVIOUS
    <3> QED
      BY <2>2, <3>1, Zenon
  <2>5. ASSUME NEW n \in Nat, n \in S
        PROVE  n + 1 \in S
    <3> SUFFICES ASSUME n + 1 <= L
                 PROVE  j[n + 1] \in Seq(Nat)
      OBVIOUS
    <3>1. PICK a \in Seq(Nat) : a = j[n]
      BY <2>5
    <3>2. PICK b \in Seq(Nat) : b = pieces[n + 1]
      BY <2>1
    <3>3. n + 1 \in 1 .. L /\ (n + 1) - 1 = n
      BY <2>1
    <3>4. j[n + 1] = a \o b
      <4>1. j[n + 1] = j[(n + 1) - 1] \o pieces[n + 1]
        BY <2>2, <3>3, Zenon
      <4> QED
        BY <3>1, <3>2, <3>3, <4>1, Zenon
    <3>5. a \o b \in Seq(Nat)
      OBVIOUS
    <3> QED
      BY <3>4, <3>5, Zenon
  <2> HIDE DEF S
  <2>6. Nat \subseteq S
    BY <2>4, <2>5, SetInduction
  <2>7. j \in [0 .. L -> Seq(Nat)]
    BY <2>3, <2>6 DEF S
  <2> QED
    BY <2>1, <2>2, <2>7 DEF Joins
<1> QED
  BY <1>3, <1>4

(***************************************************************************)
(* What Joined returns: a sequence of the entries of all pieces, increasing*)
(* when the pieces are and follow each other.                              *)
(***************************************************************************)
Follow(pieces) ==
  /\ \A n \in DOMAIN pieces : Increasing(pieces[n])
  /\ \A m, n \in DOMAIN pieces : m < n =>
       \A i \in DOMAIN pieces[m], j \in DOMAIN pieces[n] : pieces[m][i] < pieces[n][j]

\* What one more piece adds to a sequence.
LEMMA OnePieceMore ==
  ASSUME NEW s \in Seq(Nat), NEW t \in Seq(Nat)
  PROVE  /\ s \o t \in Seq(Nat)
         /\ \A x : Occurs(x, s \o t) <=> Occurs(x, s) \/ Occurs(x, t)
         /\ Increasing(s) /\ Increasing(t)
              /\ (\A i \in DOMAIN s, j \in DOMAIN t : s[i] < t[j]) => Increasing(s \o t)
<1>1. PICK u \in Seq(Nat) : u = s \o t
  <2>1. s \o t \in Seq(Nat)
    OBVIOUS
  <2> QED
    BY <2>1, Zenon
<1>2. /\ Len(u) = Len(s) + Len(t)
      /\ \A i \in DOMAIN s : i \in DOMAIN u /\ u[i] = s[i]
      /\ \A i \in DOMAIN t : Len(s) + i \in DOMAIN u /\ u[Len(s) + i] = t[i]
      /\ \A i \in DOMAIN u : i \in DOMAIN s \/ (i - Len(s) \in DOMAIN t /\ u[i] = t[i - Len(s)])
  BY <1>1
<1>3. \A x : Occurs(x, u) <=> Occurs(x, s) \/ Occurs(x, t)
  <2>1. ASSUME NEW x, Occurs(x, u)
        PROVE  Occurs(x, s) \/ Occurs(x, t)
    BY <1>2, <2>1 DEF Occurs
  <2>2. ASSUME NEW x, Occurs(x, s)
        PROVE  Occurs(x, u)
    BY <1>2, <2>2 DEF Occurs
  <2>3. ASSUME NEW x, Occurs(x, t)
        PROVE  Occurs(x, u)
    BY <1>2, <2>3 DEF Occurs
  <2> QED
    BY <2>1, <2>2, <2>3
<1>4. ASSUME Increasing(s), Increasing(t), \A i \in DOMAIN s, j \in DOMAIN t : s[i] < t[j]
      PROVE  Increasing(u)
  <2> SUFFICES ASSUME NEW i \in DOMAIN u, NEW j \in DOMAIN u, i < j
               PROVE  u[i] < u[j]
    BY DEF Increasing
  <2>1. CASE j \in DOMAIN s
    <3>1. i \in DOMAIN s
      BY <2>1
    <3> QED
      BY <1>2, <1>4, <2>1, <3>1 DEF Increasing
  <2>2. CASE i \in DOMAIN s /\ j \notin DOMAIN s
    BY <1>2, <1>4, <2>2
  <2>3. CASE i \notin DOMAIN s /\ j \notin DOMAIN s
    <3>1. i - Len(s) \in DOMAIN t /\ j - Len(s) \in DOMAIN t /\ i - Len(s) < j - Len(s)
      BY <1>2, <2>3
    <3>2. u[i] = t[i - Len(s)] /\ u[j] = t[j - Len(s)]
      BY <1>2, <2>3
    <3> QED
      BY <1>4, <3>1, <3>2 DEF Increasing
  <2>4. i \in DOMAIN s \/ j \notin DOMAIN s \/ j \in DOMAIN s
    OBVIOUS
  <2> QED
    BY <2>1, <2>2, <2>3
<1> QED
  BY <1>1, <1>3, <1>4

\* The tau_list that the verifier computes holds the entries of all the sub
\* proofs and no other, and is increasing when each piece is and the pieces
\* follow each other.
LEMMA JoinedPieces ==
  ASSUME NEW pieces \in Seq(Seq(Nat))
  PROVE  /\ Joined(pieces) \in Seq(Nat)
         /\ \A x : Occurs(x, Joined(pieces)) <=> \E n \in DOMAIN pieces : Occurs(x, pieces[n])
         /\ Follow(pieces) => Increasing(Joined(pieces))
<1>1. PICK L \in Nat : L = Len(pieces)
  OBVIOUS
<1>2. PICK g : Joins(g, L, pieces) /\ Joined(pieces) = g[L]
  BY <1>1, JoinedByPieces
<1> DEFINE All(n) == \A x : Occurs(x, g[n]) <=> \E m \in 1 .. n : Occurs(x, pieces[m])
           S == {n \in Nat : n <= L => All(n)}
           T == {n \in Nat : n <= L => Increasing(g[n])}
<1>3. ASSUME NEW n \in Nat, n + 1 <= L
      PROVE  /\ g[n] \in Seq(Nat) /\ pieces[n + 1] \in Seq(Nat)
             /\ g[n + 1] = g[n] \o pieces[n + 1]
  <2>1. n + 1 \in 1 .. L /\ n \in 0 .. L /\ (n + 1) - 1 = n
    BY <1>3
  <2>2. g[n] \in Seq(Nat)
    <3>1. g \in [0 .. L -> Seq(Nat)]
      BY <1>2, Zenon DEF Joins
    <3> QED
      BY <2>1, <3>1
  <2>4. pieces[n + 1] \in Seq(Nat)
    BY <1>1, <2>1
  <2>3. g[n + 1] = g[(n + 1) - 1] \o pieces[n + 1]
    BY <1>2, <2>1, Zenon DEF Joins
  <2> QED
    BY <2>1, <2>2, <2>3, <2>4, Zenon
<1>4. g[0] = <<>>
  BY <1>2 DEF Joins
<1>5. Nat \subseteq S
  <2>1. 0 \in S
    <3>1. All(0)
      BY <1>4 DEF Occurs
    <3> QED
      BY <3>1
  <2>2. ASSUME NEW n \in Nat, n \in S
        PROVE  n + 1 \in S
    <3> SUFFICES ASSUME n + 1 <= L
                 PROVE  All(n + 1)
      OBVIOUS
    <3>0. n <= L
      OBVIOUS
    <3>1. All(n)
      <4> HIDE DEF All
      <4> QED
        BY <2>2, <3>0
    <3>2. \A x : Occurs(x, g[n + 1]) <=> Occurs(x, g[n]) \/ Occurs(x, pieces[n + 1])
      <4>1. PICK a \in Seq(Nat), b \in Seq(Nat) :
              a = g[n] /\ b = pieces[n + 1] /\ g[n + 1] = a \o b
        BY <1>3, Zenon
      <4>2. \A x : Occurs(x, a \o b) <=> Occurs(x, a) \/ Occurs(x, b)
        BY OnePieceMore
      <4> QED
        BY <4>1, <4>2, Zenon
    <3>3. 1 .. n + 1 = (1 .. n) \cup {n + 1}
      OBVIOUS
    <3> QED
      BY <3>1, <3>2, <3>3, Zenon
  <2> HIDE DEF S
  <2> QED
    BY <2>1, <2>2, SetInduction
<1>6. ASSUME Follow(pieces)
      PROVE  Nat \subseteq T
  <2>1. 0 \in T
    BY <1>4 DEF Increasing
  <2>2. ASSUME NEW n \in Nat, n \in T
        PROVE  n + 1 \in T
    <3> SUFFICES ASSUME n + 1 <= L
                 PROVE  Increasing(g[n + 1])
      OBVIOUS
    <3>0. n <= L
      OBVIOUS
    <3>1. Increasing(g[n])
      BY <2>2, <3>0, SMT
    <3>2. Increasing(pieces[n + 1])
      <4>1. n + 1 \in DOMAIN pieces
        BY <1>1
      <4> QED
        BY <1>6, <4>1, Zenon DEF Follow
    <3>3. ASSUME NEW i \in DOMAIN g[n], NEW j \in DOMAIN pieces[n + 1]
          PROVE  g[n][i] < pieces[n + 1][j]
      <4>1. All(n)
        BY <1>5, <3>0, Zenon
      <4>2. PICK m \in 1 .. n : Occurs(g[n][i], pieces[m])
        <5>1. Occurs(g[n][i], g[n])
          BY DEF Occurs
        <5> QED
          BY <4>1, <5>1, Zenon
      <4>3. PICK k \in DOMAIN pieces[m] : pieces[m][k] = g[n][i]
        BY <4>2 DEF Occurs
      <4>4. m \in DOMAIN pieces /\ n + 1 \in DOMAIN pieces /\ m < n + 1
        BY <1>1
      <4>5. pieces[m][k] < pieces[n + 1][j]
        BY <1>6, <4>4, Zenon DEF Follow
      <4> QED
        BY <4>3, <4>5, Zenon
    <3> QED
      BY <1>3, <3>1, <3>2, <3>3, OnePieceMore, Zenon
  <2> HIDE DEF T
  <2> QED
    BY <2>1, <2>2, SetInduction
<1>7. All(L)
  <2>1. L <= L
    OBVIOUS
  <2> QED
    BY <1>5, <2>1, Zenon
<1>8. g[L] \in Seq(Nat) /\ 1 .. L = DOMAIN pieces
  BY <1>1, <1>2 DEF Joins
<1>9. Follow(pieces) => Increasing(g[L])
  <2>1. L <= L
    OBVIOUS
  <2> QED
    BY <1>6, <2>1, Zenon
<1> QED
  BY <1>2, <1>7, <1>8, <1>9, Zenon

-----------------------------------------------------------------------------
(***************************************************************************)
(* The invariant: every sub proof, whether still in the builder or in a    *)
(* finalized proof, has an m_tilde drawn by the builder for exactly the    *)
(* unrevealed attributes, and predicates on these and on attributes that   *)
(* were common when it was made.                                           *)
(***************************************************************************)
Tildes == UNION {[A -> Nat] : A \in SUBSET Attrs}

SubProofs ==
  [call : AddCalls, nonRevoc : Seq(Nat), primary : Nat, tilde : Tildes,
   declared : [Attrs -> Nat]]

Proofs == [challenge : [tau : Seq(Nat), c : Seq(Nat), nonce : Nonces], subs : Seq(SubProofs)]

Verdicts ==
  [proof : Nat, nonce : Nonces, requested : Seq(VerifierCalls), common : SUBSET Attrs,
   result : {"true", "false", "error"}]

Drawn(sub) ==
  /\ sub.primary \in 1 .. draws
  /\ \A a \in DOMAIN sub.tilde : sub.tilde[a] \in 1 .. draws

Made(sub) ==
  LET request == sub.call.request
      all     == AllAttrs(sub.call.schema)
  IN  /\ DOMAIN sub.tilde = all \ request.revealed
      /\ PredicateAttrs(request) \subseteq all
      /\ \A a \in PredicateAttrs(request) : a \in DOMAIN sub.tilde \/ sub.declared[a] # 0

Types ==
  /\ draws \in 0 .. MaxDraws
  /\ common \in [Attrs -> 0 .. draws]
  /\ tauList \in Seq(Nat) /\ cList \in Seq(Nat)
  /\ Len(tauList) = Len(cList) /\ Len(tauList) <= draws
  /\ inits \in Seq(SubProofs)
  /\ proofs \in Seq(Proofs)
  /\ requested \in Seq(VerifierCalls)
  /\ verdicts \in Seq(Verdicts)

LinksDrawn ==
  /\ links = [a \in Attrs |-> links[a]]
  /\ \A a \in Attrs : links[a] \in {Absent, None} \/ links[a].draw \in 1 .. draws

SubsMade ==
  /\ \A n \in DOMAIN inits : Drawn(inits[n]) /\ Made(inits[n])
  /\ \A k \in DOMAIN proofs : \A n \in DOMAIN proofs[k].subs : Drawn(proofs[k].subs[n])

SessionInv == Types /\ LinksDrawn /\ SubsMade

\* A new builder and a new verifier satisfy the invariant.
LEMMA InitSession == Init => SessionInv
BY BoundsAssumption DEF Init, SessionInv, Types, LinksDrawn, SubsMade

\* More draws leave what was drawn in range.
LEMMA DrawnStays ==
  ASSUME NEW sub, Drawn(sub), draws \in Nat, draws' \in Nat, draws <= draws'
  PROVE  Drawn(sub)'
BY DEF Drawn

-----------------------------------------------------------------------------
(***************************************************************************)
(* The builder.                                                            *)
(***************************************************************************)
LEMMA AddCommonStep ==
  ASSUME SessionInv, NEW a \in Linkable, AddCommonAttribute(a)
  PROVE  SessionInv'
<1>1. /\ draws' = draws + 1 /\ draws < MaxDraws /\ draws \in Nat
      /\ common' = [common EXCEPT ![a] = draws + 1]
      /\ UNCHANGED <<inits, tauList, cList, proofs, requested, links, verdicts>>
  BY BoundsAssumption DEF AddCommonAttribute, verifierVars, SessionInv, Types
<1>2. Types'
  BY <1>1, LinkableAssumption, BoundsAssumption DEF SessionInv, Types
<1>3. LinksDrawn'
  BY <1>1 DEF SessionInv, LinksDrawn
<1>4. SubsMade'
  <2>1. ASSUME NEW n \in DOMAIN inits
        PROVE  Drawn(inits[n])' /\ Made(inits[n])'
    BY <1>1 DEF SessionInv, SubsMade, Drawn, Made
  <2>2. ASSUME NEW k \in DOMAIN proofs, NEW n \in DOMAIN proofs[k].subs
        PROVE  Drawn(proofs[k].subs[n])'
    BY <1>1 DEF SessionInv, SubsMade, Drawn
  <2> QED
    BY <1>1, <2>1, <2>2 DEF SubsMade
<1> QED
  BY <1>2, <1>3, <1>4 DEF SessionInv

\* What a call of add_sub_proof_request appends to init_proofs.
NewSub(call) ==
  LET nonRevoc == NonRevocEntries(call)
      primary  == draws + Len(nonRevoc) + 1
  IN  [call |-> call, nonRevoc |-> nonRevoc, primary |-> primary,
       tilde |-> Tilde(call, primary), declared |-> common]

\* The sub proof that add_sub_proof_request makes, and its draws.
LEMMA NewSubMade ==
  ASSUME SessionInv, NEW call \in AddCalls, Consistent(call), PrimarySucceeds(call)
  PROVE  /\ NewSub(call) \in SubProofs
         /\ NewSub(call).primary = draws + Len(NonRevocEntries(call)) + 1
         /\ \A a \in DOMAIN NewSub(call).tilde : NewSub(call).tilde[a] \in 1 .. NewSub(call).primary
         /\ Made(NewSub(call))
<1> DEFINE nonRevoc == NonRevocEntries(call)
           primary == draws + Len(nonRevoc) + 1
           hidden == Unrevealed(call.schema, call.request)
<1>1. nonRevoc \in Seq(Nat) /\ Len(nonRevoc) \in 0 .. 1 /\ draws \in Nat
  BY BoundsAssumption DEF NonRevocEntries, SessionInv, Types
<1>2. primary \in Nat /\ primary > draws
  BY <1>1
<1>3. hidden \subseteq Attrs
  BY AddCallsAssumption, SchemasAssumption DEF Unrevealed, AllAttrs
<1> HIDE DEF primary, nonRevoc
<1>4. \A a \in hidden : common[a] \in 0 .. draws
  BY <1>3 DEF SessionInv, Types
<1>5. DOMAIN Tilde(call, primary) = hidden
  BY DEF Tilde
<1>6. \A a \in hidden : Tilde(call, primary)[a] \in 1 .. primary
  BY <1>1, <1>2, <1>4 DEF Tilde
<1>7. Tilde(call, primary) \in Tildes
  <2>1. Tilde(call, primary) \in [hidden -> Nat]
    BY <1>2, <1>5, <1>6 DEF Tilde
  <2> QED
    BY <1>3, <2>1 DEF Tildes
<1>8. common \in [Attrs -> Nat]
  BY <1>1 DEF SessionInv, Types
<1>9. NewSub(call) = [call |-> call, nonRevoc |-> nonRevoc, primary |-> primary,
                      tilde |-> Tilde(call, primary), declared |-> common]
  BY DEF NewSub, primary, nonRevoc
<1>10. NewSub(call) \in SubProofs
  BY <1>1, <1>2, <1>7, <1>8, <1>9 DEF SubProofs
<1>11. Made(NewSub(call))
  <2>1. \A a \in PredicateAttrs(call.request) : a \in hidden \/ common[a] # 0
    BY DEF PrimarySucceeds, PredicateAttrs
  <2>2. PredicateAttrs(call.request) \subseteq AllAttrs(call.schema)
    BY DEF Consistent
  <2> QED
    BY <1>5, <1>9, <2>1, <2>2 DEF Made, Unrevealed
<1> QED
  BY <1>5, <1>6, <1>9, <1>10, <1>11 DEF primary, nonRevoc

\* The lists grow by the entries of both parts.
LEMMA ThreeParts ==
  ASSUME NEW s \in Seq(Nat), NEW t \in Seq(Nat), NEW u \in Seq(Nat)
  PROVE  s \o t \o u \in Seq(Nat) /\ Len(s \o t \o u) = Len(s) + Len(t) + Len(u)
<1>1. s \o t \in Seq(Nat) /\ Len(s \o t) = Len(s) + Len(t)
  OBVIOUS
<1> QED
  BY <1>1

\* add_sub_proof_request, also when it fails half way, keeps the invariant.
LEMMA AddSubStep ==
  ASSUME SessionInv, NEW call \in AddCalls, AddSubProofRequest(call)
  PROVE  SessionInv'
<1>0. PICK nonRevoc, primary, made, new :
        /\ nonRevoc = NonRevocEntries(call)
        /\ primary = draws + Len(nonRevoc) + 1
        /\ made = IF PrimarySucceeds(call) THEN <<primary>> ELSE <<>>
        /\ new = NewSub(call)
  OBVIOUS
<1>1. nonRevoc \in Seq(Nat) /\ Len(nonRevoc) \in 0 .. 1 /\ draws \in Nat
  BY <1>0, BoundsAssumption DEF NonRevocEntries, SessionInv, Types
<1>2. /\ draws' = primary /\ primary \in 0 .. MaxDraws /\ draws < primary
      /\ tauList' = tauList \o nonRevoc \o made
      /\ cList' = cList \o nonRevoc \o made
      /\ Consistent(call)
      /\ UNCHANGED <<common, proofs, requested, links, verdicts>>
  BY <1>0, <1>1, BoundsAssumption DEF AddSubProofRequest, verifierVars
<1>3. made \in Seq(Nat) /\ Len(made) \in 0 .. 1
  BY <1>0, <1>2
<1>4. \/ inits' = Append(inits, new) /\ PrimarySucceeds(call)
      \/ inits' = inits
  BY <1>0 DEF AddSubProofRequest, NewSub
<1>5. ASSUME PrimarySucceeds(call)
      PROVE  new \in SubProofs /\ Drawn(new)' /\ Made(new)
  <2>1. /\ new \in SubProofs /\ Made(new) /\ new.primary = primary
        /\ \A a \in DOMAIN new.tilde : new.tilde[a] \in 1 .. primary
    BY <1>0, <1>2, <1>5, NewSubMade
  <2>2. Drawn(new)'
    BY <1>1, <1>2, <2>1 DEF Drawn
  <2> QED
    BY <2>1, <2>2
<1>6. Types'
  <2>1. common' \in [Attrs -> 0 .. draws']
    BY <1>1, <1>2 DEF SessionInv, Types
  <2>2. tauList' \in Seq(Nat) /\ Len(tauList') = Len(tauList) + Len(nonRevoc) + Len(made)
    <3>1. tauList \in Seq(Nat)
      BY DEF SessionInv, Types
    <3> QED
      BY <1>1, <1>2, <1>3, <3>1, ThreeParts
  <2>3. cList' \in Seq(Nat) /\ Len(cList') = Len(cList) + Len(nonRevoc) + Len(made)
    <3>1. cList \in Seq(Nat)
      BY DEF SessionInv, Types
    <3> QED
      BY <1>1, <1>2, <1>3, <3>1, ThreeParts
  <2>4. Len(tauList') = Len(cList') /\ Len(tauList') <= draws'
    <3>1. Len(tauList) = Len(cList) /\ Len(tauList) <= draws /\ Len(tauList) \in Nat
      BY DEF SessionInv, Types
    <3>2. Len(made) \in 0 .. 1 /\ draws' = draws + Len(nonRevoc) + 1
      BY <1>0, <1>2, <1>3
    <3>3. Len(tauList') = Len(cList')
      BY <2>2, <2>3, <3>1
    <3>4. PICK t, r, m \in Nat : t = Len(tauList) /\ r = Len(nonRevoc) /\ m = Len(made)
      BY <1>1, <1>3, <3>1
    <3>5. t <= draws /\ m <= 1 /\ draws \in Nat
      <4>1. t <= draws
        BY <3>1, <3>4
      <4>2. m <= 1
        BY <1>3, <3>4
      <4>3. draws \in Nat
        BY <1>1
      <4> QED
        BY <4>1, <4>2, <4>3
    <3>6. Len(tauList') = t + r + m /\ draws' = draws + r + 1
      BY <2>2, <3>2, <3>4
    <3>7. t + r + m <= draws + r + 1
      BY <3>5
    <3> QED
      BY <3>3, <3>6, <3>7
  <2>5. inits' \in Seq(SubProofs)
    <3>1. CASE inits' = inits
      BY <3>1 DEF SessionInv, Types
    <3>2. CASE inits' = Append(inits, new) /\ PrimarySucceeds(call)
      BY <1>5, <3>2 DEF SessionInv, Types
    <3> QED
      BY <1>4, <3>1, <3>2
  <2> QED
    BY <1>2, <2>1, <2>2, <2>3, <2>4, <2>5 DEF SessionInv, Types
<1>7. LinksDrawn'
  BY <1>1, <1>2 DEF SessionInv, LinksDrawn
<1>8. SubsMade'
  <2>1. ASSUME NEW n \in DOMAIN inits'
        PROVE  Drawn(inits[n])' /\ Made(inits[n])'
    <3>1. CASE n \in DOMAIN inits
      <4>1. inits'[n] = inits[n]
        <5>1. inits \in Seq(SubProofs)
          BY DEF SessionInv, Types
        <5> QED
          BY <1>4, <3>1, <5>1
      <4>2. Drawn(inits[n]) /\ Made(inits[n])
        BY <3>1 DEF SessionInv, SubsMade
      <4>3. Drawn(inits[n])'
        BY <1>1, <1>2, <4>1, <4>2 DEF Drawn
      <4>4. Made(inits[n])'
        BY <4>1, <4>2 DEF Made
      <4> QED
        BY <4>3, <4>4
    <3>2. CASE n \notin DOMAIN inits
      <4>1. inits'[n] = new /\ PrimarySucceeds(call)
        BY <1>4, <2>1, <3>2 DEF SessionInv, Types
      <4>2. Drawn(inits[n])'
        BY <1>5, <4>1 DEF Drawn
      <4>3. Made(inits[n])'
        BY <1>5, <4>1 DEF Made
      <4> QED
        BY <4>2, <4>3
    <3> QED
      BY <3>1, <3>2
  <2>2. ASSUME NEW k \in DOMAIN proofs, NEW n \in DOMAIN proofs[k].subs
        PROVE  Drawn(proofs[k].subs[n])'
    BY <1>1, <1>2 DEF SessionInv, SubsMade, Drawn
  <2> QED
    BY <1>2, <2>1, <2>2 DEF SubsMade
<1> QED
  BY <1>6, <1>7, <1>8 DEF SessionInv

\* finalize takes over the sub proofs as they are.
LEMMA FinalizeStep ==
  ASSUME SessionInv, NEW nonce \in Nonces, Finalize(nonce)
  PROVE  SessionInv'
<1> DEFINE new == [challenge |-> [tau |-> tauList, c |-> cList, nonce |-> nonce],
                   subs |-> inits]
<1>1. proofs' = Append(proofs, new)
      /\ UNCHANGED <<draws, common, inits, tauList, cList, requested, links, verdicts>>
  BY DEF Finalize, builderVars, verifierVars
<1>2. new \in Proofs /\ new.subs = inits
  BY DEF SessionInv, Types, Proofs
<1> HIDE DEF new
<1>3. Types'
  BY <1>1, <1>2 DEF SessionInv, Types
<1>4. LinksDrawn'
  BY <1>1 DEF SessionInv, LinksDrawn
<1>5. ASSUME NEW k \in DOMAIN proofs', NEW n \in DOMAIN proofs'[k].subs
      PROVE  Drawn(proofs[k].subs[n])'
  <2>1. proofs'[k] = new \/ (k \in DOMAIN proofs /\ proofs'[k] = proofs[k])
    BY <1>1 DEF SessionInv, Types
  <2> QED
    BY <1>1, <1>2, <1>5, <2>1 DEF SessionInv, SubsMade, Drawn
<1>6. \A n \in DOMAIN inits' : Drawn(inits[n])' /\ Made(inits[n])'
  BY <1>1 DEF SessionInv, SubsMade, Drawn, Made
<1> QED
  BY <1>3, <1>4, <1>5, <1>6 DEF SessionInv, SubsMade

-----------------------------------------------------------------------------
(***************************************************************************)
(* The verifier.                                                           *)
(***************************************************************************)
LEMMA VerifierCommonStep ==
  ASSUME SessionInv, NEW a \in Linkable, VerifierAddCommonAttribute(a)
  PROVE  SessionInv'
<1>1. /\ links' = [links EXCEPT ![a] = None]
      /\ UNCHANGED <<draws, common, inits, tauList, cList, proofs, requested, verdicts>>
  BY DEF VerifierAddCommonAttribute, builderVars
<1>2. Types'
  BY <1>1 DEF SessionInv, Types
<1>3. LinksDrawn'
  <2>1. links' = [b \in Attrs |-> IF b = a THEN None ELSE links[b]]
    BY <1>1 DEF SessionInv, LinksDrawn
  <2> QED
    BY <1>1, <2>1 DEF SessionInv, LinksDrawn
<1>4. SubsMade'
  BY <1>1 DEF SessionInv, SubsMade, Drawn, Made
<1> QED
  BY <1>2, <1>3, <1>4 DEF SessionInv

\* A request of the verifier changes nothing else.
LEMMA VerifierSubStep ==
  ASSUME SessionInv, NEW call \in VerifierCalls, VerifierAddSubProofRequest(call)
  PROVE  SessionInv'
<1>1. /\ requested' = Append(requested, call)
      /\ UNCHANGED <<draws, common, inits, tauList, cList, proofs, links, verdicts>>
  BY DEF VerifierAddSubProofRequest, builderVars
<1>2. Types'
  BY <1>1 DEF SessionInv, Types
<1>3. LinksDrawn'
  BY <1>1 DEF SessionInv, LinksDrawn
<1>4. SubsMade'
  BY <1>1 DEF SessionInv, SubsMade, Drawn, Made
<1> QED
  BY <1>2, <1>3, <1>4 DEF SessionInv

\* What verify makes of the links: it notes m_hats, in the first sub proof,
\* of attributes that have an m_tilde there.
LEMMA LinksNoted ==
  ASSUME SessionInv, NEW n \in DOMAIN proofs, NotesLinks(proofs[n])
  PROVE  \E A \in SUBSET Attrs :
           /\ links' = LinksAfter(proofs[n], A)
           /\ \A a \in A : links[a] = None => HasMHat(proofs[n], 1, a)
<1>1. CASE LinksOk(proofs[n], 1)
  <2>1. links' = LinksAfter(proofs[n], Attrs)
    BY <1>1 DEF NotesLinks
  <2>2. \A a \in Attrs : links[a] = None => HasMHat(proofs[n], 1, a)
    BY <1>1, AbsentAssumption DEF LinksOk, LinkOk, CommonAttrs
  <2> QED
    BY <2>1, <2>2
<1>2. CASE ~LinksOk(proofs[n], 1)
  BY <1>2 DEF NotesLinks, CommonAttrs
<1> QED
  BY <1>1, <1>2

\* verify notes only m_hats of proofs that were finalized.
LEMMA VerifyStep ==
  ASSUME SessionInv, NEW n \in DOMAIN proofs, NEW nonce \in Nonces, Verify(n, nonce)
  PROVE  SessionInv'
<1>1. UNCHANGED <<draws, common, inits, tauList, cList, proofs, requested>>
  BY DEF Verify, builderVars
<1>2. PICK result \in {"true", "false", "error"} :
        verdicts' = Append(verdicts, Verdict(n, nonce, result))
  BY DEF Verify
<1>3. Verdict(n, nonce, result) \in Verdicts
  BY DEF Verdict, Verdicts, SessionInv, Types, CommonAttrs
<1>4. Types'
  <2>1. verdicts' \in Seq(Verdicts)
    BY <1>2, <1>3 DEF SessionInv, Types
  <2> QED
    BY <1>1, <2>1 DEF SessionInv, Types
<1>5. LinksDrawn'
  <2>1. CASE UNCHANGED links
    BY <1>1, <2>1 DEF SessionInv, LinksDrawn
  <2>2. CASE ShapeMatches(proofs[n]) /\ requested # <<>> /\ NotesLinks(proofs[n])
    <3>1. PICK A \in SUBSET Attrs :
            /\ links' = LinksAfter(proofs[n], A)
            /\ \A a \in A : links[a] = None => HasMHat(proofs[n], 1, a)
      BY <2>2, LinksNoted
    <3>2. 1 \in DOMAIN proofs[n].subs
      <4>0. proofs[n] \in Proofs
        BY DEF SessionInv, Types
      <4>1. proofs[n].subs \in Seq(SubProofs) /\ requested \in Seq(VerifierCalls)
        BY <4>0 DEF SessionInv, Types, Proofs
      <4>2. Len(proofs[n].subs) = Len(requested) /\ requested # <<>>
        BY <2>2 DEF ShapeMatches
      <4> QED
        BY <4>1, <4>2
    <3>3. Drawn(proofs[n].subs[1])
      BY <3>2 DEF SessionInv, SubsMade
    <3>4. ASSUME NEW a \in A, links[a] = None
          PROVE  MHat(proofs[n], 1, a).draw \in 1 .. draws
      BY <3>1, <3>3, <3>4 DEF MHat, HasMHat, Drawn
    <3>5. links' = [a \in Attrs |-> links'[a]]
      BY <3>1 DEF LinksAfter
    <3>6. \A a \in Attrs :
            links'[a] = IF a \in A /\ links[a] = None THEN MHat(proofs[n], 1, a) ELSE links[a]
      BY <3>1 DEF LinksAfter
    <3> QED
      BY <1>1, <3>4, <3>5, <3>6 DEF SessionInv, LinksDrawn
  <2> QED
    BY <2>1, <2>2 DEF Verify
<1>6. SubsMade'
  BY <1>1 DEF SessionInv, SubsMade, Drawn, Made
<1> QED
  BY <1>4, <1>5, <1>6 DEF SessionInv

\* Every step keeps the invariant.
LEMMA NextSession == SessionInv /\ [Next]_vars => SessionInv'
<1> SUFFICES ASSUME SessionInv, [Next]_vars
             PROVE  SessionInv'
  OBVIOUS
<1>1. CASE UNCHANGED vars
  <2>1. UNCHANGED <<draws, common, inits, tauList, cList, proofs, requested, links, verdicts>>
    BY <1>1 DEF vars, builderVars, verifierVars
  <2> QED
    BY <2>1 DEF SessionInv, Types, LinksDrawn, SubsMade, Drawn, Made
<1>2. CASE Next
  BY <1>2, AddCommonStep, AddSubStep, FinalizeStep, VerifierCommonStep, VerifierSubStep,
     VerifyStep DEF Next
<1> QED
  BY <1>1, <1>2

\* The invariant holds in every reachable state.
LEMMA SessionInvariant == Spec => []SessionInv
BY InitSession, NextSession, PTL DEF Spec

-----------------------------------------------------------------------------
\* Every variable keeps its type, the two lists of the builder stay of one
\* length, and the links of the verifier come from draws of the builder.
THEOREM SessionTypes == Spec => []TypeOK
<1>1. SessionInv => TypeOK
  <2> SUFFICES ASSUME SessionInv
               PROVE  TypeOK
    OBVIOUS
  <2>1. common \in [Attrs -> 0 .. MaxDraws]
    BY BoundsAssumption DEF SessionInv, Types
  <2>2. \A n \in DOMAIN inits : inits[n].call \in AddCalls /\ inits[n].primary \in 1 .. draws
    <3>1. \A n \in DOMAIN inits : inits[n] \in SubProofs
      BY DEF SessionInv, Types
    <3> QED
      BY <3>1 DEF SessionInv, SubsMade, Drawn, SubProofs
  <2>3. \A n \in DOMAIN verdicts : verdicts[n].result \in {"true", "false", "error"}
    <3>1. \A n \in DOMAIN verdicts : verdicts[n] \in Verdicts
      BY DEF SessionInv, Types
    <3> QED
      BY <3>1 DEF Verdicts
  <2> QED
    BY <2>1, <2>2, <2>3 DEF TypeOK, SessionInv, Types, LinksDrawn
<1> QED
  BY <1>1, SessionInvariant, PTL

(***************************************************************************)
(* Nothing but a predicate on an attribute that is revealed and was common *)
(* when the credential was added makes finalize panic, and such a          *)
(* predicate always does (prover.rs:1671).                                 *)
(***************************************************************************)
THEOREM OnlyCommonLosesBuilder == Spec => []OnlyCommonPanics
<1>1. SessionInv => OnlyCommonPanics
  <2> SUFFICES ASSUME SessionInv
               PROVE  OnlyCommonPanics
    OBVIOUS
  <2> DEFINE Lost(n) == ~(PredicateAttrs(inits[n].call.request) \subseteq DOMAIN inits[n].tilde)
             Common(n) ==
               \E a \in Attrs :
                 /\ a \in inits[n].call.request.revealed
                 /\ a \in PredicateAttrs(inits[n].call.request)
                 /\ inits[n].declared[a] # 0
  <2>1. ASSUME NEW n \in DOMAIN inits
        PROVE  Lost(n) <=> Common(n)
    <3>1. Made(inits[n])
      BY DEF SessionInv, SubsMade
    <3>2. AllAttrs(inits[n].call.schema) \subseteq Attrs
      <4>1. inits[n] \in SubProofs
        BY DEF SessionInv, Types
      <4> QED
        BY <4>1, AddCallsAssumption, SchemasAssumption DEF SubProofs, AllAttrs
    <3> QED
      BY <3>1, <3>2 DEF Made
  <2> QED
    BY <2>1 DEF OnlyCommonPanics, FinalizePanics
<1> QED
  BY <1>1, SessionInvariant, PTL

(***************************************************************************)
(* Once a call of verify has noted an m_hat for a common attribute, no     *)
(* later call changes it, and a proof is accepted only with the same one   *)
(* in all of its sub proofs (verifier.rs:271).                             *)
(***************************************************************************)
THEOREM NotedLinksBind == Spec => LinksBindVerifier
<1> DEFINE Bound ==
      LET verdict == verdicts'[Len(verdicts')] IN
      \A a \in Attrs : links[a] \notin {Absent, None} =>
        /\ links'[a] = links[a]
        /\ verdict.result = "true" =>
             \A n \in DOMAIN verdict.requested : MHat(proofs[verdict.proof], n, a) = links[a]
<1>1. SessionInv /\ [Next]_vars => [verdicts' # verdicts => Bound]_vars
  <2> SUFFICES ASSUME SessionInv, Next, verdicts' # verdicts
               PROVE  Bound
    OBVIOUS
  <2>1. PICK k \in DOMAIN proofs : \E nonce \in Nonces : Verify(k, nonce)
    BY DEF Next, AddCommonAttribute, VerifierAddCommonAttribute, AddSubProofRequest, Finalize,
           VerifierAddSubProofRequest, builderVars, verifierVars
  <2>2. PICK nonce \in Nonces : Verify(k, nonce)
    BY <2>1
  <2>3. PICK verdict : /\ verdicts' = Append(verdicts, verdict)
                       /\ verdict.proof = k /\ verdict.requested = requested
                       /\ verdict.result = "true" =>
                            ShapeMatches(proofs[k]) /\ NoError(proofs[k])
    BY <2>2 DEF Verify, Verdict
  <2>4. verdicts'[Len(verdicts')] = verdict
    BY <2>3 DEF SessionInv, Types
  <2> SUFFICES ASSUME NEW a \in Attrs, links[a] \notin {Absent, None}
               PROVE  /\ links'[a] = links[a]
                      /\ verdict.result = "true" =>
                           \A n \in DOMAIN requested : MHat(proofs[k], n, a) = links[a]
    BY <2>3, <2>4
  <2>5. links'[a] = links[a]
    <3>1. CASE UNCHANGED links
      BY <3>1
    <3>2. CASE NotesLinks(proofs[k])
      BY <3>2, LinksNoted DEF LinksAfter
    <3> QED
      BY <2>2, <3>1, <3>2 DEF Verify
  <2>6. ASSUME verdict.result = "true", NEW n \in DOMAIN requested
        PROVE  MHat(proofs[k], n, a) = links[a]
    <3>1. LinkOk(proofs[k], n, a)
      BY <2>3, <2>6 DEF NoError, LinksOk, CommonAttrs
    <3>2. LinksAfter(proofs[k], Attrs)[a] = links[a]
      BY DEF LinksAfter
    <3>3. n = 1 \/ n > 1
      BY DEF SessionInv, Types
    <3> QED
      BY <3>1, <3>2, <3>3 DEF LinkOk
  <2> QED
    BY <2>5, <2>6
<1>2. LinksBindVerifier <=> [][verdicts' # verdicts => Bound]_vars
  BY DEF LinksBindVerifier
<1> QED
  BY <1>1, <1>2, SessionInvariant, PTL DEF Spec

-----------------------------------------------------------------------------
(***************************************************************************)
(* The lists.  Entries come in the order of the draws, c_list repeats      *)
(* tau_list, and the sub proofs own entries of their own, in order: first  *)
(* that of the non-revocation part, if there is one, then the primary one. *)
(* A sub proof has what its call asked for.                                *)
(***************************************************************************)
Owned(tau, subs) ==
  /\ \A n \in DOMAIN subs :
       /\ Occurs(subs[n].primary, tau)
       /\ \A i \in DOMAIN subs[n].nonRevoc :
            Occurs(subs[n].nonRevoc[i], tau) /\ subs[n].nonRevoc[i] < subs[n].primary
  /\ \A m, n \in DOMAIN subs : m < n =>
       /\ subs[m].primary < subs[n].primary
       /\ \A i \in DOMAIN subs[n].nonRevoc : subs[m].primary < subs[n].nonRevoc[i]

Ordered(tau, c) == c = tau /\ Increasing(tau) /\ \A i \in DOMAIN tau : tau[i] > 0

Shown(sub) ==
  LET call == sub.call
  IN  /\ sub.tilde = [a \in Unrevealed(call.schema, call.request) |->
                        IF sub.declared[a] # 0 THEN sub.declared[a] ELSE sub.primary]
      /\ \A p \in call.request.predicates : Satisfied(p, call.cred.values)
      /\ Len(sub.nonRevoc) <= 1
      /\ sub.nonRevoc # <<>> => WithRevocation(call)

WellMade(proof) ==
  /\ Ordered(proof.challenge.tau, proof.challenge.c)
  /\ Owned(proof.challenge.tau, proof.subs)
  /\ \A n \in DOMAIN proof.subs : Shown(proof.subs[n])

Books ==
  /\ Ordered(tauList, cList) /\ \A i \in DOMAIN tauList : tauList[i] <= draws
  /\ Owned(tauList, inits)
  /\ \A n \in DOMAIN inits : Shown(inits[n])
  /\ \A k \in DOMAIN proofs : WellMade(proofs[k])

\* A new ProofBuilder has kept its books.
LEMMA InitBooks == Init => Books
BY DEF Init, Books, Ordered, Owned, Increasing

\* The lists stay in order when one call extends them.
LEMMA ListsExtended ==
  ASSUME NEW d \in Nat, NEW tau \in Seq(Nat), NEW r \in Seq(Nat), NEW made \in Seq(Nat),
         Increasing(tau), \A i \in DOMAIN tau : tau[i] \in 1 .. d,
         r = <<>> \/ r = <<d + 1>>,
         made = <<>> \/ made = <<d + Len(r) + 1>>
  PROVE  /\ Increasing(tau \o r \o made)
         /\ \A i \in DOMAIN (tau \o r \o made) : (tau \o r \o made)[i] \in 1 .. d + Len(r) + 1
         /\ \A x : Occurs(x, tau \o r \o made) <=> Occurs(x, tau) \/ Occurs(x, r) \/ Occurs(x, made)
<1>1. PICK s \in Seq(Nat) : s = tau \o r
  BY OnePieceMore
<1>2. PICK t \in Seq(Nat) : t = s \o made
  BY OnePieceMore
<1>3. PICK p \in Nat : p = d + Len(r) + 1
  OBVIOUS
<1>4. /\ Increasing(r) /\ Increasing(made)
      /\ \A i \in DOMAIN r : r[i] \in d + 1 .. p - 1
      /\ \A i \in DOMAIN made : made[i] = p
  <2>1. CASE r = <<>>
    BY <1>3, <2>1 DEF Increasing
  <2>2. CASE r = <<d + 1>>
    <3>1. Len(r) = 1 /\ DOMAIN r = {1} /\ r[1] = d + 1
      BY <2>2
    <3> QED
      BY <1>3, <3>1 DEF Increasing
  <2> QED
    BY <2>1, <2>2
<1>5. /\ \A x : Occurs(x, s) <=> Occurs(x, tau) \/ Occurs(x, r)
      /\ Increasing(s)
  <2>1. \A i \in DOMAIN tau, j \in DOMAIN r : tau[i] < r[j]
    BY <1>4
  <2> QED
    BY <1>1, <1>4, <2>1, OnePieceMore
<1>6. \A x : Occurs(x, s) => x \in 1 .. p - 1
  <2>1. \A x : Occurs(x, tau) => x \in 1 .. d
    BY DEF Occurs
  <2>2. \A x : Occurs(x, r) => x \in d + 1 .. p - 1
    BY <1>4 DEF Occurs
  <2>3. d <= p - 1
    BY <1>3
  <2>4. 1 .. d \subseteq 1 .. p - 1 /\ d + 1 .. p - 1 \subseteq 1 .. p - 1
    BY <2>3
  <2> QED
    BY <1>5, <2>1, <2>2, <2>4, Zenon
<1>7. /\ \A x : Occurs(x, t) <=> Occurs(x, s) \/ Occurs(x, made)
      /\ Increasing(t)
  <2>1. \A i \in DOMAIN s, j \in DOMAIN made : s[i] < made[j]
    <3>1. \A i \in DOMAIN s : s[i] \in 1 .. p - 1
      BY <1>6, Zenon DEF Occurs
    <3>2. \A j \in DOMAIN made : made[j] = p
      BY <1>4
    <3> QED
      BY <1>3, <3>1, <3>2
  <2> QED
    BY <1>2, <1>4, <1>5, <2>1, OnePieceMore
<1>8. \A i \in DOMAIN t : t[i] \in 1 .. p
  <2>1. \A x : Occurs(x, made) => x = p
    BY <1>4 DEF Occurs
  <2>2. \A i \in DOMAIN t : Occurs(t[i], t)
    BY Zenon DEF Occurs
  <2>3. \A i \in DOMAIN t : t[i] \in 1 .. p - 1 \/ t[i] = p
    BY <1>6, <1>7, <2>1, <2>2, Zenon
  <2>4. p \in 1 .. p /\ 1 .. p - 1 \subseteq 1 .. p
    BY <1>3
  <2> QED
    BY <2>3, <2>4, Zenon
<1> QED
  BY <1>1, <1>2, <1>3, <1>5, <1>7, <1>8, Zenon

\* More entries take nothing from the sub proofs.
LEMMA StillOwned ==
  ASSUME NEW tau, NEW t, NEW subs, Owned(tau, subs), \A x : Occurs(x, tau) => Occurs(x, t)
  PROVE  Owned(t, subs)
BY DEF Owned

\* A new sub proof owns entries that are later than all others.
LEMMA NewOwns ==
  ASSUME NEW d \in Nat, NEW tau \in Seq(Nat), \A x : Occurs(x, tau) => x \in 1 .. d,
         NEW subs \in Seq(SubProofs), Owned(tau, subs),
         NEW t, \A x : Occurs(x, tau) => Occurs(x, t),
         NEW new \in SubProofs, Occurs(new.primary, t), new.primary > d,
         \A i \in DOMAIN new.nonRevoc : /\ Occurs(new.nonRevoc[i], t)
                                        /\ new.nonRevoc[i] \in d + 1 .. new.primary - 1
  PROVE  Owned(t, Append(subs, new))
<1>1. PICK all \in Seq(SubProofs) : all = Append(subs, new)
  <2>1. Append(subs, new) \in Seq(SubProofs)
    OBVIOUS
  <2> QED
    BY <2>1, Zenon
<1>2. \A n \in DOMAIN all : (n \in DOMAIN subs /\ all[n] = subs[n])
                              \/ (n = Len(subs) + 1 /\ all[n] = new)
  BY <1>1
<1>3. \A n \in DOMAIN subs : subs[n].primary \in 1 .. d
  BY DEF Owned
<1>4. new.primary \in Nat
  BY DEF SubProofs
<1>5. ASSUME NEW n \in DOMAIN all
      PROVE  /\ Occurs(all[n].primary, t)
             /\ \A i \in DOMAIN all[n].nonRevoc :
                  Occurs(all[n].nonRevoc[i], t) /\ all[n].nonRevoc[i] < all[n].primary
  <2>1. CASE n \in DOMAIN subs /\ all[n] = subs[n]
    BY <2>1, Zenon DEF Owned
  <2>2. CASE all[n] = new
    <3>1. \A i \in DOMAIN new.nonRevoc : new.nonRevoc[i] < new.primary
      BY <1>4
    <3> QED
      BY <2>2, <3>1, Zenon
  <2> QED
    BY <1>2, <2>1, <2>2
<1>6. ASSUME NEW m \in DOMAIN all, NEW n \in DOMAIN all, m < n
      PROVE  /\ all[m].primary < all[n].primary
             /\ \A i \in DOMAIN all[n].nonRevoc : all[m].primary < all[n].nonRevoc[i]
  <2>1. m \in DOMAIN subs /\ all[m] = subs[m]
    BY <1>1, <1>2, <1>6
  <2>2. CASE n \in DOMAIN subs /\ all[n] = subs[n]
    BY <1>6, <2>1, <2>2, Zenon DEF Owned
  <2>3. CASE all[n] = new
    <3>1. subs[m].primary \in 1 .. d
      BY <1>3, <2>1
    <3>2. subs[m].primary < new.primary
      BY <1>4, <3>1
    <3>3. \A i \in DOMAIN new.nonRevoc : subs[m].primary < new.nonRevoc[i]
      BY <1>4, <3>1
    <3> QED
      BY <2>1, <2>3, <3>2, <3>3, Zenon
  <2> QED
    BY <1>2, <2>2, <2>3
<1> QED
  BY <1>1, <1>5, <1>6, Zenon DEF Owned

-----------------------------------------------------------------------------
\* What add_sub_proof_request makes is what its call asked for.
LEMMA NewSubShown ==
  ASSUME SessionInv, NEW call \in AddCalls, PrimarySucceeds(call)
  PROVE  Shown(NewSub(call))
<1>1. PICK nonRevoc, primary, tilde :
        /\ nonRevoc = NonRevocEntries(call)
        /\ primary = draws + Len(nonRevoc) + 1
        /\ tilde = Tilde(call, primary)
        /\ NewSub(call) = [call |-> call, nonRevoc |-> nonRevoc, primary |-> primary,
                           tilde |-> tilde, declared |-> common]
  BY DEF NewSub
<1>2. PICK new : new = NewSub(call)
  OBVIOUS
<1>3. /\ new.call = call /\ new.nonRevoc = nonRevoc /\ new.primary = primary
      /\ new.tilde = tilde /\ new.declared = common
  BY <1>1, <1>2
<1>4. tilde = [a \in Unrevealed(call.schema, call.request) |->
                 IF common[a] # 0 THEN common[a] ELSE primary]
  BY <1>1 DEF Tilde
<1>5. Len(nonRevoc) <= 1 /\ (nonRevoc # <<>> => WithRevocation(call))
  BY <1>1 DEF NonRevocEntries
<1>6. \A p \in call.request.predicates : Satisfied(p, call.cred.values)
  BY DEF PrimarySucceeds
<1> QED
  BY <1>2, <1>3, <1>4, <1>5, <1>6, Zenon DEF Shown

\* Only add_sub_proof_request and finalize touch what Books speaks of.
LEMMA AddSubBooks ==
  ASSUME SessionInv, Books, NEW call \in AddCalls, AddSubProofRequest(call)
  PROVE  Books'
<1>0. PICK nonRevoc, primary, made, new :
        /\ nonRevoc = NonRevocEntries(call)
        /\ primary = draws + Len(nonRevoc) + 1
        /\ made = IF PrimarySucceeds(call) THEN <<primary>> ELSE <<>>
        /\ new = NewSub(call)
  OBVIOUS
<1>1. /\ draws \in Nat /\ tauList \in Seq(Nat) /\ cList \in Seq(Nat)
      /\ inits \in Seq(SubProofs) /\ proofs' = proofs
  BY BoundsAssumption DEF SessionInv, Types, AddSubProofRequest
<1>2. nonRevoc = <<>> \/ nonRevoc = <<draws + 1>>
  BY <1>0 DEF NonRevocEntries
<1>3. nonRevoc \in Seq(Nat) /\ Len(nonRevoc) \in 0 .. 1
  <2>1. CASE nonRevoc = <<>>
    BY <2>1
  <2>2. CASE nonRevoc = <<draws + 1>>
    BY <1>1, <2>2
  <2> QED
    BY <1>2, <2>1, <2>2
<1>4. primary \in Nat /\ primary > draws
  BY <1>0, <1>1, <1>3
<1>5. made \in Seq(Nat) /\ (made = <<>> \/ made = <<primary>>)
  BY <1>0, <1>4
<1>6. /\ draws' = primary /\ tauList' = tauList \o nonRevoc \o made
      /\ cList' = cList \o nonRevoc \o made
  BY <1>0, Zenon DEF AddSubProofRequest
<1>7. \A i \in DOMAIN tauList : tauList[i] \in 1 .. draws
  BY <1>1 DEF Books, Ordered
<1>8. /\ Increasing(tauList')
      /\ \A i \in DOMAIN tauList' : tauList'[i] \in 1 .. draws'
      /\ \A x : Occurs(x, tauList') <=> Occurs(x, tauList) \/ Occurs(x, nonRevoc) \/ Occurs(x, made)
  <2>1. Increasing(tauList)
    BY DEF Books, Ordered
  <2>2. PICK t : t = tauList \o nonRevoc \o made
    OBVIOUS
  <2>3. /\ Increasing(t)
        /\ \A i \in DOMAIN t : t[i] \in 1 .. draws + Len(nonRevoc) + 1
        /\ \A x : Occurs(x, t) <=> Occurs(x, tauList) \/ Occurs(x, nonRevoc) \/ Occurs(x, made)
    <3>1. made = <<>> \/ made = <<draws + Len(nonRevoc) + 1>>
      BY <1>0, <1>5
    <3> QED
      BY <1>1, <1>2, <1>3, <1>5, <1>7, <2>1, <2>2, <3>1, ListsExtended
  <2>4. tauList' = t /\ draws' = draws + Len(nonRevoc) + 1
    BY <1>0, <1>6, <2>2
  <2> QED
    BY <2>3, <2>4, Zenon
<1>9. Ordered(tauList', cList') /\ \A i \in DOMAIN tauList' : tauList'[i] <= draws'
  <2>1. cList' = tauList'
    BY <1>6 DEF Books, Ordered
  <2>2. \A i \in DOMAIN tauList' : tauList'[i] > 0 /\ tauList'[i] <= draws'
    BY <1>4, <1>6, <1>8
  <2> QED
    BY <1>8, <2>1, <2>2, Zenon DEF Ordered
<1>10. Owned(tauList, inits) /\ \A x : Occurs(x, tauList) => Occurs(x, tauList')
  BY <1>8 DEF Books
<1>11. CASE PrimarySucceeds(call)
  <2>1. inits' = Append(inits, new) /\ made = <<primary>> /\ Consistent(call)
    BY <1>0, <1>11 DEF AddSubProofRequest, NewSub
  <2>2. new \in SubProofs /\ Shown(new)
    BY <1>0, <1>11, <2>1, NewSubMade, NewSubShown
  <2>3. new.primary = primary /\ new.nonRevoc = nonRevoc
    BY <1>0 DEF NewSub
  <2>4. Owned(tauList', inits')
    <3>1. \A x : Occurs(x, tauList) => x \in 1 .. draws
      BY <1>7 DEF Occurs
    <3>2. Occurs(primary, tauList')
      <4>1. Occurs(primary, made)
        BY <1>5, <2>1 DEF Occurs
      <4> QED
        BY <1>8, <4>1
    <3>3. \A i \in DOMAIN nonRevoc : Occurs(nonRevoc[i], tauList')
      BY <1>8 DEF Occurs
    <3>4. \A i \in DOMAIN nonRevoc : nonRevoc[i] \in draws + 1 .. primary - 1
      <4>1. CASE nonRevoc = <<>>
        BY <4>1
      <4>2. CASE nonRevoc = <<draws + 1>>
        <5>1. DOMAIN nonRevoc = {1} /\ nonRevoc[1] = draws + 1 /\ Len(nonRevoc) = 1
          BY <4>2
        <5> QED
          BY <1>0, <1>1, <5>1
      <4> QED
        BY <1>2, <4>1, <4>2
    <3>5. PICK t : t = tauList'
      OBVIOUS
    <3>6. Owned(t, Append(inits, new))
      BY <1>1, <1>4, <1>10, <2>2, <2>3, <3>1, <3>2, <3>3, <3>4, <3>5, NewOwns
    <3> QED
      BY <2>1, <3>5, <3>6
  <2>5. \A n \in DOMAIN inits' : Shown(inits'[n])
    <3>1. \A n \in DOMAIN inits' : inits'[n] = new \/ (n \in DOMAIN inits /\ inits'[n] = inits[n])
      BY <1>1, <2>1, <2>2
    <3> QED
      BY <2>2, <3>1, Zenon DEF Books
  <2> QED
    BY <1>1, <1>9, <2>4, <2>5, Zenon DEF Books
<1>12. CASE ~PrimarySucceeds(call)
  <2>1. inits' = inits
    BY <1>12 DEF AddSubProofRequest
  <2>2. Owned(tauList', inits')
    BY <1>10, <2>1, StillOwned
  <2> QED
    BY <1>1, <1>9, <2>1, <2>2, Zenon DEF Books
<1> QED
  BY <1>11, <1>12

\* finalize takes the lists and the sub proofs as they are.
LEMMA FinalizeBooks ==
  ASSUME SessionInv, Books, NEW nonce \in Nonces, Finalize(nonce)
  PROVE  Books'
<1>1. PICK new :
        /\ new = [challenge |-> [tau |-> tauList, c |-> cList, nonce |-> nonce], subs |-> inits]
        /\ proofs' = Append(proofs, new)
  BY DEF Finalize
<1>2. UNCHANGED <<draws, inits, tauList, cList>>
  BY DEF Finalize, builderVars
<1>3. new.challenge.tau = tauList /\ new.challenge.c = cList /\ new.subs = inits
  BY <1>1
<1>4. WellMade(new)
  BY <1>3 DEF Books, WellMade
<1>5. \A k \in DOMAIN proofs' : WellMade(proofs'[k])
  <2>1. \A k \in DOMAIN proofs' : proofs'[k] = new \/ (k \in DOMAIN proofs /\ proofs'[k] = proofs[k])
    <3>1. new \in Proofs /\ proofs \in Seq(Proofs)
      BY <1>1 DEF SessionInv, Types, Proofs
    <3> QED
      BY <1>1, <3>1
  <2> QED
    BY <1>4, <2>1, Zenon DEF Books
<1> QED
  BY <1>2, <1>5 DEF Books

\* Every call of the builder keeps the books, those that fail half way
\* included, and finalize hands them on to the proof.
LEMMA NextBooks == SessionInv /\ Books /\ [Next]_vars => Books'
<1> SUFFICES ASSUME SessionInv, Books, [Next]_vars
             PROVE  Books'
  OBVIOUS
<1>2. ASSUME NEW a \in Linkable, AddCommonAttribute(a)
      PROVE  Books'
  <2>1. UNCHANGED <<inits, tauList, cList, proofs>> /\ draws <= draws'
    BY <1>2, BoundsAssumption DEF AddCommonAttribute, SessionInv, Types
  <2>2. \A i \in DOMAIN tauList : tauList[i] <= draws'
    BY <1>2, BoundsAssumption DEF AddCommonAttribute, SessionInv, Types, Books
  <2> QED
    BY <2>1, <2>2 DEF Books
<1>3. ASSUME UNCHANGED builderVars, UNCHANGED proofs
      PROVE  Books'
  BY <1>3 DEF Books, builderVars
<1> QED
  BY <1>2, <1>3, AddSubBooks, FinalizeBooks
     DEF Next, vars, VerifierAddCommonAttribute, VerifierAddSubProofRequest, Verify

-----------------------------------------------------------------------------
(***************************************************************************)
(* What the verifier recomputes.                                           *)
(***************************************************************************)
\* The non-revocation proof of the sub proof is looked at.
Looked(sub, req) == sub.nonRevoc # <<>> /\ req.key \in RevocKeys /\ req.reg # None

\* The entries for one sub proof.
LEMMA TauOfEntries ==
  ASSUME NEW sub \in SubProofs, NEW req, Len(sub.nonRevoc) <= 1
  PROVE  /\ TauOf(sub, req) \in Seq(Nat)
         /\ Occurs(IF EqualityHolds(sub, req) THEN sub.primary ELSE Other, TauOf(sub, req))
         /\ Looked(sub, req) =>
              Occurs(IF RevocationHolds(sub, req) THEN sub.nonRevoc[1] ELSE Other, TauOf(sub, req))
         /\ \A x : Occurs(x, TauOf(sub, req)) =>
              \/ x = IF EqualityHolds(sub, req) THEN sub.primary ELSE Other
              \/ Looked(sub, req) /\ x = IF RevocationHolds(sub, req) THEN sub.nonRevoc[1] ELSE Other
<1>1. PICK e \in Nat : e = IF EqualityHolds(sub, req) THEN sub.primary ELSE Other
  BY DEF Other, SubProofs
<1>2. sub.nonRevoc \in Seq(Nat)
  BY DEF SubProofs
<1>3. CASE ~Looked(sub, req)
  <2>1. TauOf(sub, req) = <<>> \o <<e>>
    BY <1>1, <1>3, Zenon DEF TauOf, Looked
  <2>2. TauOf(sub, req) = <<e>>
    BY <2>1
  <2> QED
    BY <1>1, <1>3, <2>2 DEF Occurs
<1>4. CASE Looked(sub, req)
  <2>1. sub.nonRevoc[1] \in Nat /\ sub.nonRevoc = <<sub.nonRevoc[1]>>
    BY <1>2, <1>4 DEF Looked
  <2>2. PICK d \in Nat : d = IF RevocationHolds(sub, req) THEN sub.nonRevoc[1] ELSE Other
    BY <2>1 DEF Other
  <2>3. (IF RevocationHolds(sub, req) THEN sub.nonRevoc ELSE <<Other>>) = <<d>>
    <3>1. CASE RevocationHolds(sub, req)
      BY <2>1, <2>2, <3>1, Zenon
    <3>2. CASE ~RevocationHolds(sub, req)
      BY <2>2, <3>2, Zenon
    <3> QED
      BY <3>1, <3>2, Zenon
  <2>4. TauOf(sub, req) = <<d>> \o <<e>>
    BY <1>1, <1>4, <2>3, Zenon DEF TauOf, Looked
  <2>5. PICK s \in Seq(Nat), t \in Seq(Nat) : s = <<d>> /\ t = <<e>>
    <3>1. <<d>> \in Seq(Nat) /\ <<e>> \in Seq(Nat)
      OBVIOUS
    <3> QED
      BY <3>1, Zenon
  <2>6. \A x : (Occurs(x, s) <=> x = d) /\ (Occurs(x, t) <=> x = e)
    BY <2>5 DEF Occurs
  <2>7. s \o t \in Seq(Nat) /\ \A x : Occurs(x, s \o t) <=> Occurs(x, s) \/ Occurs(x, t)
    BY OnePieceMore
  <2> QED
    BY <1>1, <1>4, <2>2, <2>4, <2>5, <2>6, <2>7, Zenon
<1> QED
  BY <1>3, <1>4, Zenon

\* They are those of the sub proof when the equations hold.
LEMMA TauOfHolding ==
  ASSUME NEW sub \in SubProofs, NEW req, Len(sub.nonRevoc) <= 1,
         EqualityHolds(sub, req), Looked(sub, req) => RevocationHolds(sub, req)
  PROVE  \A x : Occurs(x, TauOf(sub, req)) <=>
                  x = sub.primary \/ (Looked(sub, req) /\ x = sub.nonRevoc[1])
<1>1. (IF EqualityHolds(sub, req) THEN sub.primary ELSE Other) = sub.primary
  BY Zenon
<1>2. Looked(sub, req) =>
        (IF RevocationHolds(sub, req) THEN sub.nonRevoc[1] ELSE Other) = sub.nonRevoc[1]
  BY Zenon
<1> QED
  BY <1>1, <1>2, TauOfEntries, Zenon

\* The verifier and a proof with as many sub proofs as it has requests.
LEMMA TauEntries ==
  ASSUME NEW proof \in Proofs, WellMade(proof), NEW L \in Nat,
         requested \in Seq(VerifierCalls), L = Len(requested), L = Len(proof.subs)
  PROVE  /\ \A n \in 1 .. L : proof.subs[n] \in SubProofs /\ Len(proof.subs[n].nonRevoc) <= 1
         /\ Tau(proof) \in Seq(Nat)
         /\ \A x : Occurs(x, Tau(proof)) <=>
                     \E n \in 1 .. L : Occurs(x, TauOf(proof.subs[n], requested[n]))
         /\ Follow([n \in 1 .. L |-> TauOf(proof.subs[n], requested[n])]) => Increasing(Tau(proof))
<1>1. \A n \in 1 .. L : proof.subs[n] \in SubProofs /\ Len(proof.subs[n].nonRevoc) <= 1
  <2>1. proof.subs \in Seq(SubProofs)
    BY DEF Proofs
  <2>2. DOMAIN proof.subs = 1 .. L
    BY <2>1
  <2>3. \A n \in 1 .. L : proof.subs[n] \in SubProofs
    BY <2>1, <2>2
  <2>4. \A n \in 1 .. L : Shown(proof.subs[n])
    BY <2>2, Zenon DEF WellMade
  <2> QED
    BY <2>3, <2>4, Zenon DEF Shown
<1>2. PICK pieces : pieces = [n \in 1 .. L |-> TauOf(proof.subs[n], requested[n])]
  OBVIOUS
<1>3. \A n \in 1 .. L : TauOf(proof.subs[n], requested[n]) \in Seq(Nat)
  BY <1>1, TauOfEntries, Zenon
<1>4. pieces \in [1 .. L -> Seq(Nat)]
  BY <1>2, <1>3
<1>5. pieces \in Seq(Seq(Nat)) /\ DOMAIN pieces = 1 .. L
  BY <1>4
<1>6. Tau(proof) = Joined(pieces)
  BY <1>2, Zenon DEF Tau
<1>7. \A n \in 1 .. L : pieces[n] = TauOf(proof.subs[n], requested[n])
  BY <1>2, Zenon
<1>8. /\ Joined(pieces) \in Seq(Nat)
      /\ \A x : Occurs(x, Joined(pieces)) <=> \E n \in DOMAIN pieces : Occurs(x, pieces[n])
      /\ Follow(pieces) => Increasing(Joined(pieces))
  BY <1>5, JoinedPieces
<1>9. \A x : Occurs(x, Tau(proof)) <=>
                \E n \in 1 .. L : Occurs(x, TauOf(proof.subs[n], requested[n]))
  BY <1>5, <1>6, <1>7, <1>8, Zenon
<1> QED
  BY <1>1, <1>2, <1>6, <1>8, <1>9, Zenon

\* When it recomputes the tau_list of the builder, every equation holds,
\* and no entry is without a sub proof.
LEMMA ValidHolds ==
  ASSUME NEW proof \in Proofs, WellMade(proof), requested \in Seq(VerifierCalls),
         Len(requested) = Len(proof.subs), Tau(proof) = proof.challenge.tau
  PROVE  /\ \A n \in DOMAIN requested :
              /\ EqualityHolds(proof.subs[n], requested[n])
              /\ proof.subs[n].nonRevoc # <<>> => RevocationHolds(proof.subs[n], requested[n])
         /\ Clean(proof)
<1>1. PICK L \in Nat : L = Len(requested)
  OBVIOUS
<1>2. PICK tau : tau = proof.challenge.tau
  OBVIOUS
<1>3. /\ \A n \in 1 .. L : proof.subs[n] \in SubProofs /\ Len(proof.subs[n].nonRevoc) <= 1
      /\ \A x : Occurs(x, tau) <=> \E n \in 1 .. L : Occurs(x, TauOf(proof.subs[n], requested[n]))
  BY <1>1, <1>2, TauEntries
<1>4. \A x : Occurs(x, tau) => x # Other
  <2>1. \A i \in DOMAIN tau : tau[i] > 0
    BY <1>2 DEF WellMade, Ordered
  <2> QED
    BY <2>1 DEF Occurs, Other
<1>5. DOMAIN proof.subs = 1 .. L /\ DOMAIN requested = 1 .. L
  <2>1. proof.subs \in Seq(SubProofs)
    BY DEF Proofs
  <2> QED
    BY <1>1, <2>1
<1>6. Owned(tau, proof.subs)
  BY <1>2 DEF WellMade
<1>7. ASSUME NEW n \in 1 .. L
      PROVE  EqualityHolds(proof.subs[n], requested[n])
  <2>1. Occurs(IF EqualityHolds(proof.subs[n], requested[n]) THEN proof.subs[n].primary ELSE Other, tau)
    BY <1>3, TauOfEntries, Zenon
  <2> QED
    BY <1>4, <2>1, Zenon
<1>8. ASSUME NEW n \in 1 .. L, Looked(proof.subs[n], requested[n])
      PROVE  RevocationHolds(proof.subs[n], requested[n])
  <2>1. Occurs(IF RevocationHolds(proof.subs[n], requested[n])
               THEN proof.subs[n].nonRevoc[1] ELSE Other, tau)
    BY <1>3, <1>8, TauOfEntries, Zenon
  <2> QED
    BY <1>4, <2>1, Zenon
\* The entry of a non-revocation part is that of no other sub proof.
<1>9. ASSUME NEW n \in 1 .. L, proof.subs[n].nonRevoc # <<>>
      PROVE  Looked(proof.subs[n], requested[n])
  <2> DEFINE sub == proof.subs[n]
             d == sub.nonRevoc[1]
  <2>1. sub.nonRevoc \in Seq(Nat)
    BY <1>3, Zenon DEF SubProofs
  <2>2. 1 \in DOMAIN sub.nonRevoc /\ d \in Nat
    BY <1>9, <2>1
  <2>3. Occurs(d, tau) /\ d < sub.primary
    BY <1>5, <1>6, <2>2, Zenon DEF Owned
  <2>4. PICK m \in 1 .. L : Occurs(d, TauOf(proof.subs[m], requested[m]))
    BY <1>3, <2>3, Zenon
  <2>5. PICK other : other = proof.subs[m]
    OBVIOUS
  <2>6. other \in SubProofs /\ Len(other.nonRevoc) <= 1
    BY <1>3, <2>5, Zenon
  <2>7. d = other.primary \/ (Looked(other, requested[m]) /\ d = other.nonRevoc[1])
    <3>1. EqualityHolds(other, requested[m])
      BY <1>7, <2>5, Zenon
    <3>2. Looked(other, requested[m]) => RevocationHolds(other, requested[m])
      BY <1>8, <2>5, Zenon
    <3>3. Occurs(d, TauOf(other, requested[m]))
      BY <2>4, <2>5, Zenon
    <3> QED
      BY <2>6, <3>1, <3>2, <3>3, TauOfHolding, Zenon
  <2>8. other.primary \in Nat /\ sub.primary \in Nat /\ m \in Nat /\ n \in Nat
    <3>1. sub \in SubProofs
      BY <1>3, Zenon
    <3>2. other.primary \in Nat /\ sub.primary \in Nat
      BY <2>6, <3>1, Zenon DEF SubProofs
    <3> QED
      BY <3>2
  <2>9. Looked(other, requested[m]) => 1 \in DOMAIN other.nonRevoc
    <3>1. other.nonRevoc \in Seq(Nat)
      BY <2>6, Zenon DEF SubProofs
    <3> QED
      BY <3>1 DEF Looked
  <2>10. ~(m < n)
    <3> SUFFICES ASSUME m < n
                 PROVE  FALSE
      OBVIOUS
    <3>1. other.primary < d
      BY <1>5, <1>6, <2>2, <2>5, Zenon DEF Owned
    <3>2. Looked(other, requested[m]) => other.nonRevoc[1] < other.primary
      BY <1>5, <1>6, <2>5, <2>9, Zenon DEF Owned
    <3> HIDE DEF d
    <3> QED
      BY <2>2, <2>7, <2>8, <3>1, <3>2
  <2>11. ~(n < m)
    <3> SUFFICES ASSUME n < m
                 PROVE  FALSE
      OBVIOUS
    <3>1. sub.primary < other.primary
      BY <1>5, <1>6, <2>5, Zenon DEF Owned
    <3>2. Looked(other, requested[m]) => sub.primary < other.nonRevoc[1]
      BY <1>5, <1>6, <2>5, <2>9, Zenon DEF Owned
    <3> HIDE DEF d, sub
    <3> QED
      BY <2>2, <2>3, <2>7, <2>8, <3>1, <3>2
  <2>12. m = n
    BY <2>8, <2>10, <2>11
  <2>13. other = sub /\ d # other.primary
    <3>1. other = sub
      BY <2>5, <2>12, Zenon
    <3> HIDE DEF d, sub
    <3> QED
      BY <2>2, <2>3, <2>8, <3>1
  <2> QED
    BY <2>7, <2>12, <2>13, Zenon
<1>10. Clean(proof)
  <2>1. ASSUME NEW x, Occurs(x, tau)
        PROVE  EntryOfSub(proof, x)
    <3>1. PICK m \in 1 .. L : Occurs(x, TauOf(proof.subs[m], requested[m]))
      BY <1>3, <2>1, Zenon
    <3>2. PICK sub : sub = proof.subs[m]
      OBVIOUS
    <3>3. sub \in SubProofs /\ Len(sub.nonRevoc) <= 1
      BY <1>3, <3>2, Zenon
    <3>4. x = sub.primary \/ (Looked(sub, requested[m]) /\ x = sub.nonRevoc[1])
      <4>1. EqualityHolds(sub, requested[m])
        BY <1>7, <3>2, Zenon
      <4>2. Looked(sub, requested[m]) => RevocationHolds(sub, requested[m])
        BY <1>8, <3>2, Zenon
      <4>3. Occurs(x, TauOf(sub, requested[m]))
        BY <3>1, <3>2, Zenon
      <4> QED
        BY <3>3, <4>1, <4>2, <4>3, TauOfHolding, Zenon
    <3>5. Looked(sub, requested[m]) => sub.nonRevoc = <<sub.nonRevoc[1]>>
      <4>1. sub.nonRevoc \in Seq(Nat)
        BY <3>3, Zenon DEF SubProofs
      <4> QED
        BY <3>3, <4>1 DEF Looked
    <3>6. sub.primary = x \/ sub.nonRevoc = <<x>>
      BY <3>4, <3>5, Zenon
    <3> QED
      BY <1>5, <3>2, <3>6, Zenon DEF EntryOfSub
  <2>2. \A i \in DOMAIN tau : Occurs(tau[i], tau)
    BY Zenon DEF Occurs
  <2>3. proof.challenge.c = tau
    BY <1>2, Zenon DEF WellMade, Ordered
  <2> QED
    BY <1>2, <2>1, <2>2, <2>3, Zenon DEF Clean
<1> QED
  BY <1>5, <1>7, <1>8, <1>9, <1>10, Zenon

-----------------------------------------------------------------------------
(***************************************************************************)
(* What a verdict of true rests on.  It is about a finalized proof and the *)
(* requests of that time, which never change.                              *)
(***************************************************************************)
Sound(verdict, proof) ==
  verdict.result = "true" =>
    /\ verdict.nonce = proof.challenge.nonce
    /\ Clean(proof)
    /\ \A n \in DOMAIN verdict.requested :
         LET sub == proof.subs[n]
             req == verdict.requested[n]
         IN  /\ n \in DOMAIN proof.subs
             /\ sub.call.request = req.request
             /\ req.request.revealed \subseteq req.schema.attrs
             /\ EqualityHolds(sub, req)
             /\ sub.nonRevoc # <<>> => RevocationHolds(sub, req)
    /\ \A a \in verdict.common, m, n \in DOMAIN verdict.requested :
         HasMHat(proof, n, a) /\ MHat(proof, m, a) = MHat(proof, n, a)

Asked ==
  \A n \in DOMAIN requested : requested[n].request.revealed \subseteq requested[n].schema.attrs

VerdictsSound ==
  \A v \in DOMAIN verdicts :
    /\ verdicts[v].proof \in DOMAIN proofs
    /\ Sound(verdicts[v], proofs[verdicts[v].proof])

VerdictInv == Asked /\ VerdictsSound

\* A new ProofVerifier was asked nothing and gave no verdict.
LEMMA InitVerdicts == Init => VerdictInv
BY DEF Init, VerdictInv, Asked, VerdictsSound

\* Proofs and verdicts are only ever added.
LEMMA ProofsStay ==
  ASSUME SessionInv, [Next]_vars
  PROVE  \A k \in DOMAIN proofs : k \in DOMAIN proofs' /\ proofs'[k] = proofs[k]
<1>1. CASE UNCHANGED proofs
  BY <1>1
<1>2. ASSUME NEW nonce \in Nonces, Finalize(nonce)
      PROVE  \A k \in DOMAIN proofs : k \in DOMAIN proofs' /\ proofs'[k] = proofs[k]
  <2>1. PICK new :
          /\ new = [challenge |-> [tau |-> tauList, c |-> cList, nonce |-> nonce], subs |-> inits]
          /\ proofs' = Append(proofs, new)
    BY <1>2 DEF Finalize
  <2>2. new \in Proofs /\ proofs \in Seq(Proofs)
    BY <2>1 DEF SessionInv, Types, Proofs
  <2> QED
    BY <2>1, <2>2
<1> QED
  BY <1>1, <1>2 DEF Next, vars, AddCommonAttribute, AddSubProofRequest,
     VerifierAddCommonAttribute, VerifierAddSubProofRequest, Verify

\* The verdict of one call of verify.
Judged(k, nonce, result) ==
  result = IF ~ShapeMatches(proofs[k]) \/ ~NoError(proofs[k]) THEN "error"
           ELSE IF Valid(proofs[k], nonce) THEN "true" ELSE "false"

\* A verdict is an old one, or that of a call of verify in this step.
LEMMA NewVerdict ==
  ASSUME SessionInv, [Next]_vars, NEW v \in DOMAIN verdicts'
  PROVE  \/ v \in DOMAIN verdicts /\ verdicts'[v] = verdicts[v]
         \/ /\ v = Len(verdicts) + 1
            /\ \A w \in DOMAIN verdicts : verdicts'[w] = verdicts[w]
            /\ UNCHANGED proofs
            /\ \E k \in DOMAIN proofs, nonce \in Nonces, result \in {"true", "false", "error"} :
                 Judged(k, nonce, result) /\ verdicts'[v] = Verdict(k, nonce, result)
<1>1. CASE UNCHANGED verdicts
  BY <1>1
<1>2. ASSUME NEW k \in DOMAIN proofs, NEW nonce \in Nonces, Verify(k, nonce)
      PROVE  \/ v \in DOMAIN verdicts /\ verdicts'[v] = verdicts[v]
             \/ /\ v = Len(verdicts) + 1
                /\ \A w \in DOMAIN verdicts : verdicts'[w] = verdicts[w]
                /\ UNCHANGED proofs
                /\ \E i \in DOMAIN proofs, n \in Nonces, result \in {"true", "false", "error"} :
                     Judged(i, n, result) /\ verdicts'[v] = Verdict(i, n, result)
  <2>1. PICK result \in {"true", "false", "error"} :
          Judged(k, nonce, result) /\ verdicts' = Append(verdicts, Verdict(k, nonce, result))
    BY <1>2 DEF Verify, Judged
  <2>2. verdicts \in Seq(Verdicts) /\ Verdict(k, nonce, result) \in Verdicts
    BY DEF Verdict, Verdicts, SessionInv, Types, CommonAttrs
  <2>3. \/ v \in DOMAIN verdicts /\ verdicts'[v] = verdicts[v]
        \/ /\ v = Len(verdicts) + 1
           /\ \A w \in DOMAIN verdicts : verdicts'[w] = verdicts[w]
           /\ verdicts'[v] = Verdict(k, nonce, result)
    BY <2>1, <2>2
  <2>4. UNCHANGED proofs
    BY <1>2 DEF Verify
  <2> QED
    BY <2>1, <2>3, <2>4
<1> QED
  BY <1>1, <1>2 DEF Next, vars, verifierVars, AddCommonAttribute, AddSubProofRequest, Finalize,
     VerifierAddCommonAttribute, VerifierAddSubProofRequest

\* A call of verify that returns true has checked all this.
LEMMA TrueIsSound ==
  ASSUME SessionInv, Books, Asked, NEW k \in DOMAIN proofs, NEW nonce \in Nonces,
         NEW result, Judged(k, nonce, result)
  PROVE  Sound(Verdict(k, nonce, result), proofs[k])
<1> SUFFICES ASSUME result = "true"
             PROVE  Sound(Verdict(k, nonce, "true"), proofs[k])
  BY DEF Sound, Verdict
<1>1. ShapeMatches(proofs[k]) /\ NoError(proofs[k]) /\ Valid(proofs[k], nonce)
  BY DEF Judged
<1>2. PICK proof : proof = proofs[k]
  OBVIOUS
<1>3. proof \in Proofs /\ WellMade(proof) /\ requested \in Seq(VerifierCalls)
  BY <1>2 DEF SessionInv, Types, Books
<1>4. /\ Len(requested) = Len(proof.subs) /\ Tau(proof) = proof.challenge.tau
      /\ nonce = proof.challenge.nonce
      /\ \A n \in DOMAIN requested : proof.subs[n].call.request = requested[n].request
  BY <1>1, <1>2 DEF ShapeMatches, Valid
<1>5. /\ \A n \in DOMAIN requested :
           /\ EqualityHolds(proof.subs[n], requested[n])
           /\ proof.subs[n].nonRevoc # <<>> => RevocationHolds(proof.subs[n], requested[n])
      /\ Clean(proof)
  BY <1>3, <1>4, ValidHolds
<1>6. DOMAIN requested = DOMAIN proof.subs
  <2>1. proof.subs \in Seq(SubProofs)
    BY <1>3 DEF Proofs
  <2> QED
    BY <1>3, <1>4, <2>1
<1>7. ASSUME NEW a \in CommonAttrs, NEW n \in DOMAIN requested
      PROVE  HasMHat(proof, n, a) /\ MHat(proof, n, a) = LinksAfter(proof, Attrs)[a]
  <2>1. LinkOk(proof, n, a)
    BY <1>1, <1>2 DEF NoError, LinksOk
  <2>2. a \in Attrs /\ (n = 1 \/ n > 1)
    BY <1>3 DEF CommonAttrs
  <2>3. LinksAfter(proof, Attrs)[a] = IF links[a] = None THEN MHat(proof, 1, a) ELSE links[a]
    BY <2>2 DEF LinksAfter
  <2> QED
    BY <2>1, <2>2, <2>3 DEF LinkOk
<1>8. PICK verdict : verdict = Verdict(k, nonce, "true")
  OBVIOUS
<1>9. verdict.nonce = nonce /\ verdict.requested = requested /\ verdict.common = CommonAttrs
  BY <1>8 DEF Verdict
<1>10. ASSUME NEW n \in DOMAIN requested
       PROVE  /\ n \in DOMAIN proof.subs
              /\ proof.subs[n].call.request = requested[n].request
              /\ requested[n].request.revealed \subseteq requested[n].schema.attrs
              /\ EqualityHolds(proof.subs[n], requested[n])
              /\ proof.subs[n].nonRevoc # <<>> => RevocationHolds(proof.subs[n], requested[n])
  BY <1>4, <1>5, <1>6, Zenon DEF Asked
<1>11. \A a \in CommonAttrs, m, n \in DOMAIN requested :
         HasMHat(proof, n, a) /\ MHat(proof, m, a) = MHat(proof, n, a)
  BY <1>7, Zenon
<1>12. Sound(verdict, proof)
  BY <1>4, <1>5, <1>9, <1>10, <1>11, Zenon DEF Sound
<1> QED
  BY <1>2, <1>8, <1>12, Zenon

\* Every verdict of verify is sound when it is given, and stays so: no later
\* call touches the proof it is about.
LEMMA NextVerdicts == SessionInv /\ Books /\ VerdictInv /\ [Next]_vars => VerdictInv'
<1> SUFFICES ASSUME SessionInv, Books, VerdictInv, [Next]_vars
             PROVE  VerdictInv'
  OBVIOUS
<1>1. Asked'
  <2>1. CASE UNCHANGED requested
    BY <2>1 DEF VerdictInv, Asked
  <2>2. ASSUME NEW call \in VerifierCalls, VerifierAddSubProofRequest(call)
        PROVE  Asked'
    <3>1. /\ requested' = Append(requested, call) /\ requested \in Seq(VerifierCalls)
          /\ call.request.revealed \subseteq call.schema.attrs
      BY <2>2 DEF VerifierAddSubProofRequest, SessionInv, Types
    <3>2. \A n \in DOMAIN requested' :
            (n \in DOMAIN requested /\ requested'[n] = requested[n]) \/ requested'[n] = call
      BY <3>1
    <3> QED
      BY <3>1, <3>2, Zenon DEF VerdictInv, Asked
  <2> QED
    BY <2>1, <2>2 DEF Next, vars, verifierVars, AddCommonAttribute, AddSubProofRequest, Finalize,
       VerifierAddCommonAttribute, Verify
<1>2. ASSUME NEW v \in DOMAIN verdicts'
      PROVE  /\ verdicts'[v].proof \in DOMAIN proofs'
             /\ Sound(verdicts'[v], proofs'[verdicts'[v].proof])
  <2>1. CASE v \in DOMAIN verdicts /\ verdicts'[v] = verdicts[v]
    <3>1. /\ verdicts[v].proof \in DOMAIN proofs
          /\ Sound(verdicts[v], proofs[verdicts[v].proof])
      BY <2>1 DEF VerdictInv, VerdictsSound
    <3> QED
      BY <2>1, <3>1, ProofsStay, Zenon
  <2>2. ASSUME NEW k \in DOMAIN proofs, NEW nonce \in Nonces, NEW result,
               Judged(k, nonce, result), verdicts'[v] = Verdict(k, nonce, result),
               UNCHANGED proofs
        PROVE  /\ verdicts'[v].proof \in DOMAIN proofs'
               /\ Sound(verdicts'[v], proofs'[verdicts'[v].proof])
    <3>1. Verdict(k, nonce, result).proof = k
      BY DEF Verdict
    <3>2. Sound(Verdict(k, nonce, result), proofs[k])
      BY <2>2, TrueIsSound DEF VerdictInv
    <3> QED
      BY <2>2, <3>1, <3>2, Zenon
  <2> QED
    BY <2>1, <2>2, NewVerdict, Zenon
<1> QED
  BY <1>1, <1>2 DEF VerdictInv, VerdictsSound

\* The three parts of the inductive invariant hold together in every run.
LEMMA VerdictInvariant == Spec => [](SessionInv /\ Books /\ VerdictInv)
BY SessionInvariant, InitBooks, NextBooks, InitVerdicts, NextVerdicts, PTL DEF Spec

\* What stands behind an accepted proof.
LEMMA AcceptedRests ==
  ASSUME SessionInv, Books, VerdictInv, NEW v \in Accepted
  PROVE  \E proof \in Proofs :
           /\ proof = proofs[verdicts[v].proof] /\ WellMade(proof)
           /\ verdicts[v].result = "true" /\ Sound(verdicts[v], proof)
BY DEF Accepted, SessionInv, Types, Books, VerdictInv, VerdictsSound

\* Behind every request of an accepted proof there is a credential signed with
\* the key and over the attributes the verifier named, that satisfies the
\* predicates, and the proof was made for the nonce (verifier.rs:218).
THEOREM AcceptedBacked == Spec => []AcceptedIsBacked
<1>1. SessionInv /\ Books /\ VerdictInv => AcceptedIsBacked
  <2> SUFFICES ASSUME SessionInv, Books, VerdictInv, NEW v \in Accepted
               PROVE  LET verdict == verdicts[v] IN
                      /\ verdict.nonce = proofs[verdict.proof].challenge.nonce
                      /\ \A n \in DOMAIN verdict.requested :
                           LET req  == verdict.requested[n]
                               cred == CredOf(verdict, n)
                           IN  /\ cred.key = req.key /\ cred.usable # "no"
                               /\ cred.signed = AllAttrs(req.schema)
                               /\ \A p \in req.request.predicates : Satisfied(p, cred.values)
    BY Zenon DEF AcceptedIsBacked
  <2>1. PICK verdict : verdict = verdicts[v]
    OBVIOUS
  <2>2. PICK proof \in Proofs : /\ proof = proofs[verdict.proof] /\ WellMade(proof)
                                /\ verdict.result = "true" /\ Sound(verdict, proof)
    BY <2>1, AcceptedRests
  <2>3. ASSUME NEW n \in DOMAIN verdict.requested
        PROVE  LET req  == verdict.requested[n]
                   cred == proof.subs[n].call.cred
               IN  /\ cred.key = req.key /\ cred.usable # "no"
                   /\ cred.signed = AllAttrs(req.schema)
                   /\ \A p \in req.request.predicates : Satisfied(p, cred.values)
    <3>1. PICK sub, req : sub = proof.subs[n] /\ req = verdict.requested[n]
      OBVIOUS
    <3>2. /\ n \in DOMAIN proof.subs /\ sub.call.request = req.request
          /\ req.request.revealed \subseteq req.schema.attrs
          /\ EqualityHolds(sub, req)
      BY <2>2, <3>1, Zenon DEF Sound
    <3>3. Shown(sub)
      BY <2>2, <3>1, <3>2, Zenon DEF WellMade
    <3>4. sub.call.cred.signed = AllAttrs(req.schema)
      BY <3>2 DEF EqualityHolds, Unrevealed, AllAttrs
    <3>5. req.key = sub.call.cred.key /\ sub.call.cred.usable # "no"
      BY <3>2 DEF EqualityHolds
    <3>6. \A p \in req.request.predicates : Satisfied(p, sub.call.cred.values)
      BY <3>2, <3>3, Zenon DEF Shown
    <3> QED
      BY <3>1, <3>4, <3>5, <3>6, Zenon
  <2>4. verdict.nonce = proof.challenge.nonce
    BY <2>2 DEF Sound
  <2> QED
    BY <2>1, <2>2, <2>3, <2>4, Zenon DEF CredOf, SubOf
<1> QED
  BY <1>1, VerdictInvariant, PTL

\* In an accepted proof the common attributes have one signed and undisclosed
\* value, whatever calls of verify came before (verifier.rs:253).
THEOREM AcceptedLinked == Spec => []AcceptedIsLinked
<1>1. SessionInv /\ Books /\ VerdictInv => AcceptedIsLinked
  <2> SUFFICES ASSUME SessionInv, Books, VerdictInv, NEW v \in Accepted,
                      NEW a \in verdicts[v].common, NEW m \in DOMAIN verdicts[v].requested,
                      NEW n \in DOMAIN verdicts[v].requested
               PROVE  /\ a \in CredOf(verdicts[v], n).signed
                                 \ verdicts[v].requested[n].request.revealed
                      /\ CredOf(verdicts[v], m).values[a] = CredOf(verdicts[v], n).values[a]
    BY Zenon DEF AcceptedIsLinked
  <2>1. PICK verdict : verdict = verdicts[v]
    OBVIOUS
  <2>2. PICK proof \in Proofs : /\ proof = proofs[verdict.proof]
                                /\ verdict.result = "true" /\ Sound(verdict, proof)
    BY <2>1, AcceptedRests
  <2>3. HasMHat(proof, n, a) /\ MHat(proof, m, a) = MHat(proof, n, a)
    BY <2>1, <2>2, Zenon DEF Sound
  <2>4. PICK sub, req : sub = proof.subs[n] /\ req = verdict.requested[n]
    OBVIOUS
  <2>5. EqualityHolds(sub, req)
    BY <2>1, <2>2, <2>4, Zenon DEF Sound
  <2>6. a \in sub.call.cred.signed \ req.request.revealed
    BY <2>3, <2>4, <2>5 DEF EqualityHolds, Unrevealed, HasMHat
  <2>7. proof.subs[m].call.cred.values[a] = proof.subs[n].call.cred.values[a]
    <3>1. \A i : MHat(proof, i, a).value = proof.subs[i].call.cred.values[a]
      BY DEF MHat
    <3> QED
      BY <2>3, <3>1, Zenon
  <2> QED
    BY <2>1, <2>2, <2>4, <2>6, <2>7, Zenon DEF CredOf, SubOf
<1> QED
  BY <1>1, VerdictInvariant, PTL

\* A non-revocation proof is accepted only for a credential whose index is in
\* the registry that the verifier was given (verifier.rs:237).
THEOREM AcceptedUnrevoked == Spec => []AcceptedIsNotRevoked
<1>1. SessionInv /\ Books /\ VerdictInv => AcceptedIsNotRevoked
  <2> SUFFICES ASSUME SessionInv, Books, VerdictInv, NEW v \in Accepted,
                      NEW n \in DOMAIN verdicts[v].requested,
                      SubOf(verdicts[v], n).nonRevoc # <<>>
               PROVE  /\ verdicts[v].requested[n].reg # None
                      /\ CredOf(verdicts[v], n).index \in verdicts[v].requested[n].reg
    BY Zenon DEF AcceptedIsNotRevoked
  <2>1. PICK proof \in Proofs : /\ proof = proofs[verdicts[v].proof] /\ WellMade(proof)
                                /\ verdicts[v].result = "true" /\ Sound(verdicts[v], proof)
    BY AcceptedRests
  <2>2. /\ RevocationHolds(proof.subs[n], verdicts[v].requested[n])
        /\ n \in DOMAIN proof.subs
    BY <2>1, Zenon DEF Sound, SubOf
  <2>3. proof.subs[n].call.cred.index \in verdicts[v].requested[n].reg
    BY <2>2 DEF RevocationHolds
  <2>4. verdicts[v].requested[n].reg # None
    <3>1. Shown(proof.subs[n]) /\ proof.subs[n].nonRevoc # <<>>
      BY <2>1, <2>2, Zenon DEF WellMade, SubOf
    <3> QED
      BY <2>2, <3>1, Zenon DEF Shown, WithRevocation, RevocationHolds
  <2> QED
    BY <2>1, <2>3, <2>4, Zenon DEF CredOf, SubOf
<1> QED
  BY <1>1, VerdictInvariant, PTL

\* What a failed add_sub_proof_request left in the lists of the builder never
\* is part of an accepted proof (prover.rs:981).
THEOREM AcceptedClean == Spec => []AcceptedIsClean
<1>1. SessionInv /\ Books /\ VerdictInv => AcceptedIsClean
  BY AcceptedRests DEF AcceptedIsClean, Sound
<1> QED
  BY <1>1, VerdictInvariant, PTL

-----------------------------------------------------------------------------
(***************************************************************************)
(* Every m_hat that the verifier has noted is that of the first sub proof  *)
(* of a proof it was shown while the attribute was common.                 *)
(***************************************************************************)
Noted ==
  \A a \in Attrs : links[a] \notin {Absent, None} =>
    \E w \in DOMAIN verdicts :
      a \in verdicts[w].common /\ links[a] = MHat(proofs[verdicts[w].proof], 1, a)

\* A new ProofVerifier has noted nothing.
LEMMA InitNoted == Init => Noted
BY DEF Init, Noted

\* verify notes the m_hats of the proof it is shown, or keeps what it had
\* (verifier.rs:271); its verdict lists the attributes that were common.
LEMMA VerifyNotes ==
  ASSUME SessionInv, VerdictInv, Noted,
         NEW k \in DOMAIN proofs, NEW nonce \in Nonces, Verify(k, nonce)
  PROVE  Noted'
<1>1. PICK result \in {"true", "false", "error"} :
        verdicts' = Append(verdicts, Verdict(k, nonce, result))
  BY DEF Verify
<1>2. PICK verdict : verdict = Verdict(k, nonce, result)
  OBVIOUS
<1>3. verdict \in Verdicts /\ verdicts \in Seq(Verdicts)
  BY <1>2 DEF Verdict, Verdicts, SessionInv, Types, CommonAttrs
<1>4. verdict.proof = k /\ verdict.common = CommonAttrs
  BY <1>2 DEF Verdict
<1>5. PICK last \in DOMAIN verdicts' : verdicts'[last] = verdict
  BY <1>1, <1>2, <1>3
<1>6. \A w \in DOMAIN verdicts : w \in DOMAIN verdicts' /\ verdicts'[w] = verdicts[w]
  BY <1>1, <1>2, <1>3
<1>7. UNCHANGED proofs
  BY DEF Verify
<1>8. ASSUME NEW a \in Attrs, links'[a] \notin {Absent, None}
      PROVE  links'[a] = links[a] \/ (a \in CommonAttrs /\ links'[a] = MHat(proofs[k], 1, a))
  <2>1. CASE UNCHANGED links
    BY <2>1
  <2>2. CASE NotesLinks(proofs[k])
    <3>1. PICK A \in SUBSET Attrs : links' = LinksAfter(proofs[k], A)
      BY <2>2, LinksNoted
    <3> QED
      BY <3>1, AbsentAssumption DEF LinksAfter, CommonAttrs
  <2> QED
    BY <2>1, <2>2 DEF Verify
<1>9. ASSUME NEW a \in Attrs, links'[a] \notin {Absent, None}
      PROVE  \E w \in DOMAIN verdicts' :
               a \in verdicts'[w].common /\ links'[a] = MHat(proofs'[verdicts'[w].proof], 1, a)
  <2>1. CASE links'[a] = links[a]
    <3>1. PICK w \in DOMAIN verdicts :
            a \in verdicts[w].common /\ links[a] = MHat(proofs[verdicts[w].proof], 1, a)
      BY <1>9, <2>1, Zenon DEF Noted
    <3> QED
      BY <1>6, <1>7, <2>1, <3>1, Zenon
  <2>2. CASE a \in CommonAttrs /\ links'[a] = MHat(proofs[k], 1, a)
    BY <1>4, <1>5, <1>7, <2>2, Zenon
  <2> QED
    BY <1>8, <1>9, <2>1, <2>2
<1>10. \A p, n, a : MHat(p, n, a)' = MHat(p, n, a)
  BY DEF MHat
<1> QED
  BY <1>9, Zenon DEF Noted, MHat

\* No call makes the notes of the verifier lose their origin.
LEMMA NextNoted == SessionInv /\ VerdictInv /\ Noted /\ [Next]_vars => Noted'
<1> SUFFICES ASSUME SessionInv, VerdictInv, Noted, [Next]_vars
             PROVE  Noted'
  OBVIOUS
<1>1. ASSUME NEW a \in Linkable, VerifierAddCommonAttribute(a)
      PROVE  Noted'
  <2>1. UNCHANGED <<verdicts, proofs>> /\ links' = [links EXCEPT ![a] = None]
    BY <1>1 DEF VerifierAddCommonAttribute
  <2>2. \A b \in Attrs : links'[b] = None \/ links'[b] = links[b]
    BY <2>1 DEF SessionInv, LinksDrawn
  <2>3. ASSUME NEW b \in Attrs, links'[b] \notin {Absent, None}
        PROVE  \E w \in DOMAIN verdicts' :
                 b \in verdicts'[w].common /\ links'[b] = MHat(proofs'[verdicts'[w].proof], 1, b)
    BY <2>1, <2>2, <2>3, Zenon DEF Noted
  <2> QED
    BY <2>3, Zenon DEF Noted, MHat
<1>2. CASE UNCHANGED <<links, verdicts>>
  <2>1. \A k \in DOMAIN proofs : proofs'[k] = proofs[k]
    BY ProofsStay
  <2>2. \A w \in DOMAIN verdicts : verdicts[w].proof \in DOMAIN proofs
    BY DEF VerdictInv, VerdictsSound
  <2>3. ASSUME NEW b \in Attrs, links'[b] \notin {Absent, None}
        PROVE  \E w \in DOMAIN verdicts' :
                 b \in verdicts'[w].common /\ links'[b] = MHat(proofs'[verdicts'[w].proof], 1, b)
    <3>1. UNCHANGED links /\ UNCHANGED verdicts
      BY <1>2
    <3> QED
      BY <2>1, <2>2, <2>3, <3>1, Zenon DEF Noted
  <2> QED
    BY <2>3, Zenon DEF Noted, MHat
<1> QED
  BY <1>1, <1>2, VerifyNotes DEF Next, vars, verifierVars, AddCommonAttribute, AddSubProofRequest,
     Finalize, VerifierAddSubProofRequest

-----------------------------------------------------------------------------
(***************************************************************************)
(* An honest presentation.                                                 *)
(***************************************************************************)
\* Every equation holds for a sub proof that answers its request.
LEMMA AnswerHolds ==
  ASSUME NEW sub \in SubProofs, Shown(sub), NEW req, AnswersRequest(sub, req),
         req.request.revealed \subseteq req.schema.attrs
  PROVE  /\ EqualityHolds(sub, req)
         /\ sub.nonRevoc # <<>> => Looked(sub, req) /\ RevocationHolds(sub, req)
         /\ Unrevealed(req.schema, req.request) = DOMAIN sub.tilde
         /\ req.request.revealed \cup Unrevealed(req.schema, req.request) \subseteq KeyAttrs[req.key]
<1>1. /\ sub.call.request = req.request /\ sub.call.cred.key = req.key
      /\ AllAttrs(sub.call.schema) = AllAttrs(req.schema)
      /\ sub.call.cred.signed = AllAttrs(req.schema) /\ sub.call.cred.usable # "no"
  BY DEF AnswersRequest
<1>2. DOMAIN sub.tilde = Unrevealed(sub.call.schema, sub.call.request)
  BY DEF Shown
<1>3. Unrevealed(sub.call.schema, sub.call.request) = Unrevealed(req.schema, req.request)
  BY <1>1 DEF Unrevealed
<1>4. Unrevealed(req.schema, req.request) \cup req.request.revealed = AllAttrs(req.schema)
  BY DEF Unrevealed, AllAttrs
<1>5. EqualityHolds(sub, req)
  BY <1>1, <1>2, <1>3, <1>4 DEF EqualityHolds
<1>6. CredentialShape(sub.call.cred)
  <2>1. sub.call \in AddCalls
    BY DEF SubProofs
  <2>2. sub.call.cred \in Credentials
    BY <2>1, AddCallsAssumption
  <2> QED
    BY <2>2, CredentialsAssumption
<1>7. ASSUME sub.nonRevoc # <<>>
      PROVE  Looked(sub, req) /\ RevocationHolds(sub, req)
  <2>1. WithRevocation(sub.call)
    BY <1>7 DEF Shown
  <2>2. sub.call.cred.revocable /\ sub.call.reg # None
    BY <2>1 DEF WithRevocation
  <2>3. req.key \in RevocKeys
    BY <1>1, <1>6, <2>2 DEF CredentialShape
  <2>4. /\ sub.call.reg = req.reg /\ WitnessFits(sub.call)
        /\ sub.call.cred.index \in sub.call.reg /\ sub.call.cred.usable = "fully"
    BY <1>7 DEF AnswersRequest
  <2> QED
    BY <1>1, <1>7, <2>2, <2>3, <2>4 DEF Looked, RevocationHolds
<1>8. sub.call.cred.signed \subseteq KeyAttrs[req.key]
  BY <1>1, <1>6 DEF CredentialShape
<1> QED
  BY <1>1, <1>2, <1>3, <1>4, <1>5, <1>7, <1>8, Zenon

\* The entries of such a sub proof are recomputed in their order.
LEMMA PieceIncreases ==
  ASSUME NEW sub \in SubProofs, NEW req, Len(sub.nonRevoc) <= 1,
         EqualityHolds(sub, req), sub.nonRevoc # <<>> => RevocationHolds(sub, req),
         \A i \in DOMAIN sub.nonRevoc : sub.nonRevoc[i] < sub.primary
  PROVE  Increasing(TauOf(sub, req))
<1>1. PICK p \in Nat : p = sub.primary
  BY DEF SubProofs
<1>2. PICK s \in Seq(Nat) :
        /\ TauOf(sub, req) = s \o <<p>>
        /\ Increasing(s) /\ \A i \in DOMAIN s : s[i] < p
  <2>1. CASE Looked(sub, req)
    <3>1. PICK s \in Seq(Nat) : s = sub.nonRevoc
      BY DEF SubProofs
    <3>2. TauOf(sub, req) = s \o <<p>>
      BY <1>1, <2>1, <3>1, Zenon DEF TauOf, Looked
    <3>3. Increasing(s) /\ \A i \in DOMAIN s : s[i] < p
      BY <1>1, <3>1 DEF Increasing
    <3> QED
      BY <3>2, <3>3
  <2>2. CASE ~Looked(sub, req)
    <3>1. TauOf(sub, req) = <<>> \o <<p>>
      BY <1>1, <2>2, Zenon DEF TauOf, Looked
    <3>2. <<>> \in Seq(Nat) /\ Increasing(<<>>) /\ \A i \in DOMAIN <<>> : <<>>[i] < p
      BY DEF Increasing
    <3> QED
      BY <3>1, <3>2, Zenon
  <2> QED
    BY <2>1, <2>2
<1>3. PICK t \in Seq(Nat) : t = <<p>>
  <2>1. <<p>> \in Seq(Nat)
    OBVIOUS
  <2> QED
    BY <2>1, Zenon
<1>4. Increasing(t) /\ \A i \in DOMAIN s, j \in DOMAIN t : s[i] < t[j]
  BY <1>2, <1>3 DEF Increasing
<1>5. Increasing(s \o t)
  BY <1>2, <1>4, OnePieceMore
<1> QED
  BY <1>2, <1>3, <1>5, Zenon

\* The verifier recomputes what the builder hashed.
LEMMA AnswersAreValid ==
  ASSUME NEW proof \in Proofs, WellMade(proof), Clean(proof), requested \in Seq(VerifierCalls),
         Len(requested) = Len(proof.subs),
         \A n \in DOMAIN requested :
           /\ EqualityHolds(proof.subs[n], requested[n])
           /\ proof.subs[n].nonRevoc # <<>> =>
                /\ Looked(proof.subs[n], requested[n])
                /\ RevocationHolds(proof.subs[n], requested[n])
  PROVE  Tau(proof) = proof.challenge.tau
<1>1. PICK L \in Nat : L = Len(requested)
  OBVIOUS
<1>2. PICK tau \in Seq(Nat) : tau = proof.challenge.tau
  BY DEF Proofs
<1>3. /\ \A n \in 1 .. L : proof.subs[n] \in SubProofs /\ Len(proof.subs[n].nonRevoc) <= 1
      /\ Tau(proof) \in Seq(Nat)
      /\ \A x : Occurs(x, Tau(proof)) <=>
                  \E n \in 1 .. L : Occurs(x, TauOf(proof.subs[n], requested[n]))
      /\ Follow([n \in 1 .. L |-> TauOf(proof.subs[n], requested[n])]) => Increasing(Tau(proof))
  BY <1>1, TauEntries
<1>4. DOMAIN proof.subs = 1 .. L /\ DOMAIN requested = 1 .. L
  <2>1. proof.subs \in Seq(SubProofs)
    BY DEF Proofs
  <2> QED
    BY <1>1, <2>1
<1>5. Owned(tau, proof.subs) /\ Increasing(tau)
  BY <1>2 DEF WellMade, Ordered
<1>6. \A n \in 1 .. L : \A x : Occurs(x, TauOf(proof.subs[n], requested[n])) <=>
        x = proof.subs[n].primary
          \/ (proof.subs[n].nonRevoc # <<>> /\ x = proof.subs[n].nonRevoc[1])
  <2> SUFFICES ASSUME NEW n \in 1 .. L, NEW x
               PROVE  Occurs(x, TauOf(proof.subs[n], requested[n])) <=>
                        x = proof.subs[n].primary
                          \/ (proof.subs[n].nonRevoc # <<>> /\ x = proof.subs[n].nonRevoc[1])
    BY Zenon
  <2>1. PICK sub, req : sub = proof.subs[n] /\ req = requested[n]
    OBVIOUS
  <2>2. /\ EqualityHolds(sub, req) /\ sub \in SubProofs /\ Len(sub.nonRevoc) <= 1
        /\ sub.nonRevoc # <<>> => Looked(sub, req) /\ RevocationHolds(sub, req)
    BY <1>3, <1>4, <2>1, Zenon
  <2>3. Looked(sub, req) <=> sub.nonRevoc # <<>>
    BY <2>2, Zenon DEF Looked
  <2>4. \A y : Occurs(y, TauOf(sub, req)) <=>
                 y = sub.primary \/ (Looked(sub, req) /\ y = sub.nonRevoc[1])
    BY <2>2, <2>3, TauOfHolding, Zenon
  <2> QED
    BY <2>1, <2>3, <2>4, Zenon
<1>7. \A n \in 1 .. L :
        /\ proof.subs[n].primary \in Nat
        /\ proof.subs[n].nonRevoc # <<>> => 1 \in DOMAIN proof.subs[n].nonRevoc
                                             /\ proof.subs[n].nonRevoc[1] \in Nat
                                             /\ proof.subs[n].nonRevoc = <<proof.subs[n].nonRevoc[1]>>
  <2> SUFFICES ASSUME NEW sub \in SubProofs, Len(sub.nonRevoc) <= 1
               PROVE  /\ sub.primary \in Nat
                      /\ sub.nonRevoc # <<>> => 1 \in DOMAIN sub.nonRevoc
                                                 /\ sub.nonRevoc[1] \in Nat
                                                 /\ sub.nonRevoc = <<sub.nonRevoc[1]>>
    BY <1>3, Zenon
  <2>1. sub.nonRevoc \in Seq(Nat)
    BY DEF SubProofs
  <2> QED
    BY <2>1 DEF SubProofs
<1>8. \A x : Occurs(x, Tau(proof)) => Occurs(x, tau)
  <2> SUFFICES ASSUME NEW n \in 1 .. L, NEW x, Occurs(x, TauOf(proof.subs[n], requested[n]))
               PROVE  Occurs(x, tau)
    BY <1>3, Zenon
  <2>1. x = proof.subs[n].primary
          \/ (proof.subs[n].nonRevoc # <<>> /\ x = proof.subs[n].nonRevoc[1])
    BY <1>6, Zenon
  <2>2. Occurs(proof.subs[n].primary, tau)
    BY <1>4, <1>5, Zenon DEF Owned
  <2>3. proof.subs[n].nonRevoc # <<>> => Occurs(proof.subs[n].nonRevoc[1], tau)
    BY <1>4, <1>5, <1>7, Zenon DEF Owned
  <2> QED
    BY <2>1, <2>2, <2>3, Zenon
<1>9. \A x : Occurs(x, tau) => Occurs(x, Tau(proof))
  <2> SUFFICES ASSUME NEW x, Occurs(x, tau)
               PROVE  \E n \in 1 .. L : Occurs(x, TauOf(proof.subs[n], requested[n]))
    BY <1>3, Zenon
  <2>1. EntryOfSub(proof, x)
    BY <1>2, Zenon DEF Occurs, Clean
  <2>2. PICK n \in 1 .. L : proof.subs[n].primary = x \/ proof.subs[n].nonRevoc = <<x>>
    BY <1>4, <2>1, Zenon DEF EntryOfSub
  <2>3. <<x>> # <<>> /\ <<x>>[1] = x
    OBVIOUS
  <2>4. Occurs(x, TauOf(proof.subs[n], requested[n]))
    BY <1>6, <2>2, <2>3, Zenon
  <2> QED
    BY <2>4, Zenon
<1>10. Increasing(Tau(proof))
  <2>1. PICK pieces : pieces = [n \in 1 .. L |-> TauOf(proof.subs[n], requested[n])]
    OBVIOUS
  <2>2. DOMAIN pieces = 1 .. L /\ \A n \in 1 .. L : pieces[n] = TauOf(proof.subs[n], requested[n])
    BY <2>1
  <2>3. ASSUME NEW n \in 1 .. L
        PROVE  Increasing(TauOf(proof.subs[n], requested[n]))
    <3>1. \A i \in DOMAIN proof.subs[n].nonRevoc : proof.subs[n].nonRevoc[i] < proof.subs[n].primary
      BY <1>4, <1>5, Zenon DEF Owned
    <3> QED
      BY <1>3, <1>4, <3>1, PieceIncreases, Zenon
  <2>4. ASSUME NEW m \in 1 .. L, NEW n \in 1 .. L, m < n,
               NEW x, Occurs(x, TauOf(proof.subs[m], requested[m])),
               NEW y, Occurs(y, TauOf(proof.subs[n], requested[n]))
        PROVE  x < y
    <3>1. PICK p \in Nat : p = proof.subs[m].primary
      BY <1>7, Zenon
    <3>2. x \in Nat /\ x <= p
      <4>1. CASE x = p
        BY <4>1
      <4>2. CASE proof.subs[m].nonRevoc # <<>> /\ x = proof.subs[m].nonRevoc[1]
        <5>1. x \in Nat /\ x < p
          BY <1>4, <1>5, <1>7, <3>1, <4>2, Zenon DEF Owned
        <5> QED
          BY <5>1
      <4> QED
        BY <1>6, <2>4, <3>1, <4>1, <4>2, Zenon
    <3>3. y \in Nat /\ p < y
      <4>1. CASE y = proof.subs[n].primary
        BY <1>4, <1>5, <1>7, <2>4, <3>1, <4>1, Zenon DEF Owned
      <4>2. CASE proof.subs[n].nonRevoc # <<>> /\ y = proof.subs[n].nonRevoc[1]
        BY <1>4, <1>5, <1>7, <2>4, <3>1, <4>2, Zenon DEF Owned
      <4> QED
        BY <1>6, <2>4, <4>1, <4>2, Zenon
    <3> QED
      BY <3>2, <3>3
  <2>5. Follow(pieces)
    <3>1. ASSUME NEW m \in 1 .. L, NEW n \in 1 .. L, m < n,
                 NEW i \in DOMAIN pieces[m], NEW j \in DOMAIN pieces[n]
          PROVE  pieces[m][i] < pieces[n][j]
      <4>1. Occurs(pieces[m][i], pieces[m]) /\ Occurs(pieces[n][j], pieces[n])
        BY Zenon DEF Occurs
      <4> QED
        BY <2>2, <2>4, <3>1, <4>1, Zenon
    <3> QED
      BY <2>2, <2>3, <3>1, Zenon DEF Follow
  <2> QED
    BY <1>3, <2>1, <2>5, Zenon
<1>11. PICK other \in Seq(Nat) : other = Tau(proof)
  BY <1>3, Zenon
<1>12. \A i \in DOMAIN other : Occurs(other[i], tau)
  BY <1>8, <1>11, Zenon DEF Occurs
<1>13. \A i \in DOMAIN tau : Occurs(tau[i], other)
  BY <1>9, <1>11, Zenon DEF Occurs
<1>14. other = tau
  BY <1>5, <1>10, <1>11, <1>12, <1>13, SameIncreasing
<1> QED
  BY <1>2, <1>11, <1>14, Zenon

\* verify returns true for an honest presentation.
LEMMA HonestIsTrue ==
  ASSUME SessionInv, Books, Asked, Noted, NEW k \in DOMAIN proofs, NEW nonce, NEW result,
         Judged(k, nonce, result), Clean(proofs[k]), nonce = proofs[k].challenge.nonce,
         Len(proofs[k].subs) = Len(requested),
         \A n \in DOMAIN proofs[k].subs : AnswersRequest(proofs[k].subs[n], requested[n]),
         SharesLinks(proofs[k], CommonAttrs),
         \A w \in DOMAIN verdicts : verdicts[w].proof = k \/ verdicts[w].common \cap CommonAttrs = {}
  PROVE  result = "true"
<1>1. PICK proof : proof = proofs[k]
  OBVIOUS
<1>2. proof \in Proofs /\ WellMade(proof) /\ requested \in Seq(VerifierCalls)
  BY <1>1 DEF SessionInv, Types, Books
<1>3. PICK L \in Nat : L = Len(requested)
  BY <1>2
<1>4. /\ DOMAIN proof.subs = 1 .. L /\ DOMAIN requested = 1 .. L
      /\ Len(proof.subs) = L /\ \A n \in 1 .. L : proof.subs[n] \in SubProofs
  <2>1. proof.subs \in Seq(SubProofs)
    BY <1>2 DEF Proofs
  <2> QED
    BY <1>1, <1>2, <1>3, <2>1
<1>5. ASSUME NEW n \in 1 .. L
      PROVE  /\ Shown(proof.subs[n]) /\ proof.subs[n].call.request = requested[n].request
             /\ EqualityHolds(proof.subs[n], requested[n])
             /\ proof.subs[n].nonRevoc # <<>> =>
                  /\ Looked(proof.subs[n], requested[n])
                  /\ RevocationHolds(proof.subs[n], requested[n])
             /\ PrimaryOk(proof, n)
  <2>1. PICK sub, req : sub = proof.subs[n] /\ req = requested[n]
    OBVIOUS
  <2>2. /\ sub \in SubProofs /\ Shown(sub) /\ AnswersRequest(sub, req)
        /\ req.request.revealed \subseteq req.schema.attrs
    BY <1>1, <1>2, <1>4, <2>1, Zenon DEF WellMade, Asked
  <2>3. /\ EqualityHolds(sub, req)
        /\ sub.nonRevoc # <<>> => Looked(sub, req) /\ RevocationHolds(sub, req)
        /\ Unrevealed(req.schema, req.request) = DOMAIN sub.tilde
        /\ req.request.revealed \cup Unrevealed(req.schema, req.request) \subseteq KeyAttrs[req.key]
    BY <2>2, AnswerHolds
  <2>4. PrimaryOk(proof, n)
    BY <2>1, <2>3 DEF PrimaryOk
  <2>5. sub.call.request = req.request
    BY <2>2 DEF AnswersRequest
  <2> QED
    BY <2>1, <2>2, <2>3, <2>4, <2>5, Zenon
<1>6. ShapeMatches(proof)
  BY <1>3, <1>4, <1>5, Zenon DEF ShapeMatches
<1>7. Valid(proof, nonce)
  <2>1. Tau(proof) = proof.challenge.tau
    BY <1>1, <1>2, <1>3, <1>4, <1>5, AnswersAreValid
  <2> QED
    BY <1>1, <2>1 DEF Valid
<1>8. ASSUME NEW n \in 1 .. L, NEW a \in CommonAttrs
      PROVE  LinkOk(proof, n, a)
  <2>1. SharesLinks(proof, CommonAttrs)
    BY <1>1
  <2>2. 1 \in 1 .. L /\ (n = 1 \/ (n > 1 /\ L > 1))
    OBVIOUS
  <2>3. /\ a \in Unrevealed(proof.subs[n].call.schema, proof.subs[n].call.request)
        /\ a \in Unrevealed(proof.subs[1].call.schema, proof.subs[1].call.request)
        /\ proof.subs[1].declared[a] = proof.subs[n].declared[a]
        /\ L > 1 => proof.subs[n].declared[a] # 0
        /\ proof.subs[1].call.cred.values[a] = proof.subs[n].call.cred.values[a]
    <3>1. Len(proof.subs) > 1 <=> L > 1
      BY <1>4, Zenon
    <3>2. \A i \in 1 .. L :
            /\ a \in Unrevealed(proof.subs[i].call.schema, proof.subs[i].call.request)
            /\ proof.subs[1].declared[a] = proof.subs[i].declared[a]
            /\ L > 1 => proof.subs[i].declared[a] # 0
            /\ proof.subs[1].call.cred.values[a] = proof.subs[i].call.cred.values[a]
      <4>1. \A b \in CommonAttrs, i, j \in DOMAIN proof.subs :
              /\ b \in Unrevealed(proof.subs[j].call.schema, proof.subs[j].call.request)
              /\ proof.subs[i].declared[b] = proof.subs[j].declared[b]
              /\ Len(proof.subs) > 1 => proof.subs[j].declared[b] # 0
              /\ proof.subs[i].call.cred.values[b] = proof.subs[j].call.cred.values[b]
        BY <2>1, Zenon DEF SharesLinks
      <4> QED
        <5>1. 1 \in DOMAIN proof.subs /\ \A i \in 1 .. L : i \in DOMAIN proof.subs
          BY <1>4, <2>2, Zenon
        <5> QED
          BY <3>1, <4>1, <5>1, Zenon
    <3> QED
      BY <2>2, <3>2, Zenon
  <2>4. \A i \in 1 .. L : a \in Unrevealed(proof.subs[i].call.schema, proof.subs[i].call.request) =>
          /\ HasMHat(proof, i, a)
          /\ proof.subs[i].declared[a] # 0 => proof.subs[i].tilde[a] = proof.subs[i].declared[a]
    <3> SUFFICES ASSUME NEW i \in 1 .. L,
                        a \in Unrevealed(proof.subs[i].call.schema, proof.subs[i].call.request)
                 PROVE  /\ HasMHat(proof, i, a)
                        /\ proof.subs[i].declared[a] # 0 =>
                             proof.subs[i].tilde[a] = proof.subs[i].declared[a]
      BY Zenon
    <3>1. PICK sub : sub = proof.subs[i]
      OBVIOUS
    <3>2. Shown(sub) /\ a \in Unrevealed(sub.call.schema, sub.call.request)
      BY <1>5, <3>1, Zenon
    <3>3. a \in DOMAIN sub.tilde /\ (sub.declared[a] # 0 => sub.tilde[a] = sub.declared[a])
      BY <3>2 DEF Shown
    <3> QED
      BY <3>1, <3>3, Zenon DEF HasMHat
  <2>5. MHat(proof, n, a) = MHat(proof, 1, a)
    <3>1. CASE n = 1
      BY <3>1
    <3>2. CASE n > 1
      <4>1. proof.subs[n].tilde[a] = proof.subs[1].tilde[a]
        BY <2>2, <2>3, <2>4, <3>2, Zenon
      <4> QED
        BY <2>3, <4>1, Zenon DEF MHat
    <3> QED
      BY <2>2, <3>1, <3>2
  <2>6. links[a] # None => links[a] = MHat(proof, 1, a)
    <3> SUFFICES ASSUME links[a] # None
                 PROVE  links[a] = MHat(proof, 1, a)
      OBVIOUS
    <3>1. a \in Attrs /\ links[a] \notin {Absent, None}
      BY DEF CommonAttrs
    <3>2. PICK w \in DOMAIN verdicts :
            a \in verdicts[w].common /\ links[a] = MHat(proofs[verdicts[w].proof], 1, a)
      BY <3>1, Zenon DEF Noted
    <3>3. verdicts[w].proof = k
      BY <3>2
    <3> QED
      BY <1>1, <3>2, <3>3, Zenon
  <2>7. LinksAfter(proof, Attrs)[a] = IF links[a] = None THEN MHat(proof, 1, a) ELSE links[a]
    BY DEF LinksAfter, CommonAttrs
  <2> QED
    BY <2>3, <2>4, <2>5, <2>6, <2>7, Zenon DEF LinkOk
<1>9. NoError(proof)
  BY <1>4, <1>5, <1>8, Zenon DEF NoError, LinksOk
<1> QED
  BY <1>1, <1>6, <1>7, <1>9, Zenon DEF Judged

\* No step changes an old verdict.
LEMMA VerdictsStay ==
  ASSUME SessionInv, [Next]_vars
  PROVE  \A w \in DOMAIN verdicts : w \in DOMAIN verdicts' /\ verdicts'[w] = verdicts[w]
<1>1. CASE UNCHANGED verdicts
  BY <1>1
<1>2. ASSUME NEW k \in DOMAIN proofs, NEW nonce \in Nonces, Verify(k, nonce)
      PROVE  \A w \in DOMAIN verdicts : w \in DOMAIN verdicts' /\ verdicts'[w] = verdicts[w]
  <2>1. PICK result \in {"true", "false", "error"} :
          verdicts' = Append(verdicts, Verdict(k, nonce, result))
    BY <1>2 DEF Verify
  <2>2. verdicts \in Seq(Verdicts) /\ Verdict(k, nonce, result) \in Verdicts
    BY DEF Verdict, Verdicts, SessionInv, Types, CommonAttrs
  <2> QED
    BY <2>1, <2>2
<1> QED
  BY <1>1, <1>2 DEF Next, vars, verifierVars, AddCommonAttribute, AddSubProofRequest, Finalize,
     VerifierAddCommonAttribute, VerifierAddSubProofRequest

\* Before the first call of verify there is no verdict to refute.
LEMMA InitHonest == Init => HonestIsAccepted
BY DEF Init, HonestIsAccepted

\* A verdict on an honest presentation is true when it is given, and the
\* presentations that later calls make honest are so by the notes of verify.
LEMMA NextHonest ==
  SessionInv /\ Books /\ VerdictInv /\ Noted /\ HonestIsAccepted /\ [Next]_vars => HonestIsAccepted'
<1> SUFFICES ASSUME SessionInv, Books, VerdictInv, Noted, HonestIsAccepted, [Next]_vars,
                    NEW v \in DOMAIN verdicts', Honest(v)'
             PROVE  verdicts'[v].result = "true"
  BY Zenon DEF HonestIsAccepted
<1>1. PICK verdict : verdict = verdicts'[v]
  OBVIOUS
<1>2. PICK proof : proof = proofs'[verdict.proof]
  OBVIOUS
<1>3. Clean(proof)
  BY <1>1, <1>2, Zenon DEF Honest
<1>4. /\ verdict.nonce = proof.challenge.nonce
      /\ Len(proof.subs) = Len(verdict.requested)
  BY <1>1, <1>2, Zenon DEF Honest
<1>5. \A n \in DOMAIN proof.subs : AnswersRequest(proof.subs[n], verdict.requested[n])
  BY <1>1, <1>2, Zenon DEF Honest
<1>6. SharesLinks(proof, verdict.common)
  BY <1>1, <1>2, Zenon DEF Honest
<1>7. \A w \in 1 .. v - 1 : verdicts'[w].proof = verdict.proof
                              \/ verdicts'[w].common \cap verdict.common = {}
  BY <1>1, <1>2, Zenon DEF Honest, FirstShown
<1>8. v \in Nat /\ verdicts \in Seq(Verdicts)
  <2>1. verdicts \in Seq(Verdicts)
    BY DEF SessionInv, Types
  <2>2. v \in DOMAIN verdicts \/ v = Len(verdicts) + 1
    BY NewVerdict, Zenon
  <2> QED
    BY <2>1, <2>2
<1>9. CASE v \in DOMAIN verdicts /\ \A w \in 1 .. v : verdicts'[w] = verdicts[w]
  <2>1. verdict = verdicts[v] /\ proof = proofs[verdict.proof]
    <3>1. v \in 1 .. v
      BY <1>8, <1>9
    <3>2. verdict = verdicts[v]
      BY <1>1, <1>9, <3>1, Zenon
    <3> QED
      BY <1>2, <1>9, <3>2, ProofsStay, Zenon DEF VerdictInv, VerdictsSound
  <2>2. \A w \in 1 .. v - 1 : w \in 1 .. v
    BY <1>8
  <2>3. FirstShown(v)
    BY <1>7, <1>9, <2>1, <2>2, Zenon DEF FirstShown
  <2>4. Honest(v)
    BY <1>3, <1>4, <1>5, <1>6, <2>1, <2>3, Zenon DEF Honest
  <2> QED
    BY <1>1, <1>9, <2>1, <2>4, Zenon DEF HonestIsAccepted
<1>10. ASSUME v = Len(verdicts) + 1, \A w \in DOMAIN verdicts : verdicts'[w] = verdicts[w],
              UNCHANGED proofs, NEW k \in DOMAIN proofs, NEW nonce \in Nonces,
              NEW result, Judged(k, nonce, result), verdicts'[v] = Verdict(k, nonce, result)
       PROVE  verdicts'[v].result = "true"
  <2>1. /\ verdict.proof = k /\ verdict.nonce = nonce /\ verdict.requested = requested
        /\ verdict.common = CommonAttrs /\ verdict.result = result
    BY <1>1, <1>10 DEF Verdict
  <2>2. proof = proofs[k]
    BY <1>2, <1>10, <2>1, Zenon
  <2>3. DOMAIN verdicts = 1 .. v - 1
    BY <1>8, <1>10
  <2>4. \A w \in DOMAIN verdicts :
          verdicts[w].proof = k \/ verdicts[w].common \cap CommonAttrs = {}
    BY <1>7, <1>10, <2>1, <2>3, Zenon
  <2>5. /\ Clean(proofs[k]) /\ nonce = proofs[k].challenge.nonce
        /\ Len(proofs[k].subs) = Len(requested)
        /\ \A n \in DOMAIN proofs[k].subs : AnswersRequest(proofs[k].subs[n], requested[n])
        /\ SharesLinks(proofs[k], CommonAttrs)
    BY <1>3, <1>4, <1>5, <1>6, <2>1, <2>2, Zenon
  <2>6. result = "true"
    BY <1>10, <2>4, <2>5, HonestIsTrue, Zenon DEF VerdictInv
  <2> QED
    BY <1>1, <2>1, <2>6, Zenon
<1>11. \/ v \in DOMAIN verdicts /\ \A w \in 1 .. v : verdicts'[w] = verdicts[w]
       \/ /\ v = Len(verdicts) + 1
          /\ \A w \in DOMAIN verdicts : verdicts'[w] = verdicts[w]
          /\ UNCHANGED proofs
          /\ \E k \in DOMAIN proofs, nonce \in Nonces, result \in {"true", "false", "error"} :
               Judged(k, nonce, result) /\ verdicts'[v] = Verdict(k, nonce, result)
  <2>1. v \notin DOMAIN verdicts \/ (v \in DOMAIN verdicts /\ \A w \in 1 .. v : w \in DOMAIN verdicts)
    BY <1>8
  <2>2. \A w \in DOMAIN verdicts : w \in DOMAIN verdicts' /\ verdicts'[w] = verdicts[w]
    BY VerdictsStay
  <2> QED
    BY <2>1, <2>2, NewVerdict, Zenon
<1> QED
  BY <1>1, <1>9, <1>10, <1>11, Zenon

\* The presentation an honest prover makes for an honest verifier is accepted.
THEOREM HonestAccepted == Spec => []HonestIsAccepted
BY VerdictInvariant, SessionInvariant, InitBooks, NextBooks, InitVerdicts, NextVerdicts, InitNoted,
   NextNoted, InitHonest, NextHonest, PTL DEF Spec
=============================================================================
