----------------------------- MODULE MCDisclosure -----------------------------
(***************************************************************************)
(* Disclosure for keys of three and two messages.                          *)
(***************************************************************************)
EXTENDS Disclosure, TLC

MCCount == [k |-> 3, j |-> 2]

Committed(first, b) ==
  [at |-> [i \in 1 .. 3 |-> IF i <= Len(first) THEN first[i] ELSE 0], blinding |-> b]

SignCall(key, com, messages) == [key |-> key, com |-> com, messages |-> messages]

\* All known, one or all committed, too few, too many, an overlap.
MCSignCalls ==
  {SignCall("k", None, m) : m \in {<<1, 2, 1>>, <<2, 1, 1>>, <<1, 2>>, <<1, 2, 1, 2>>}}
  \cup {SignCall("k", Committed(<<1>>, "s"), m) : m \in {<<2, 1>>, <<1, 2, 1>>}}
  \cup {SignCall("k", Committed(<<1, 2, 1>>, "s"), <<>>)}

ShowCall(messages, blindings, revealed) ==
  [key |-> "k", messages |-> messages, blindings |-> blindings, revealed |-> revealed]

B(n) == <<"given", n>>
MCShowCalls ==
  {ShowCall(<<1, 2, 1>>, None, r) : r \in {{}, {2}, {1, 3}, {1, 2, 3}, {4}}}
  \cup {ShowCall(<<2, 1, 1>>, b, {2}) : b \in {<<B(1), B(2)>>, <<B(1)>>}}
  \cup {ShowCall(<<1, 2, 1>>, <<B(2), B(1)>>, {3}),
        ShowCall(<<1, 2, 1>>, <<B(1), B(2), B(1)>>, {}),
        ShowCall(<<1, 2>>, None, {}),
        [ShowCall(<<1, 2>>, None, {}) EXCEPT !.key = "j"]}

\* No call tells one challenge from another.
MCSymmetry == Permutations(Challenges)

VerifyCall(key, revealed) == [key |-> key, revealed |-> revealed]
Values(messages, A) == [i \in A |-> messages[i]]
MCVerifyCalls ==
  {VerifyCall("k", Values(<<1, 2, 1>>, A)) : A \in {{}, {1}, {2}, {3}, {1, 3}, {1, 2, 3}}}
  \cup {VerifyCall("k", Values(<<2, 1, 1>>, A)) : A \in {{1}, {2}}}
  \cup {VerifyCall("k", [i \in {1, 4} |-> 1]), VerifyCall("k", [i \in {4} |-> 1]),
        VerifyCall("j", [i \in {} |-> 1])}
=============================================================================
