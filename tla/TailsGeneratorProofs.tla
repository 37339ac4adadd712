------------------------- MODULE TailsGeneratorProofs --------------------------
(***************************************************************************)
(* Theorems about TailsGenerator and what its loops gather                 *)
(* (MCTailsGenerator), for every width of the integers, every capacity and *)
(* any number of generators and loops.                                     *)
(***************************************************************************)
EXTENDS MCTailsGenerator, TLAPS

Gens == {gen \in Generator : gen.current <= gen.size}

(***************************************************************************)
(* The invariant of one loop: its tails lie between where the generator    *)
(* was when it began and where it is; and while no other loop has taken    *)
(* from the generator since, the C caller has as many calls left as the    *)
(* generator has tails.                                                    *)
(***************************************************************************)
LoopInv(l) ==
  LET gen == gens[loops[l].on]
  IN  /\ loops[l] \in Loop
      /\ gen \in Gens
      /\ loops[l].from <= gen.current
      /\ Got(l) \subseteq loops[l].from .. gen.current - 1
      /\ Alone(l) =>
           /\ Null \notin {loops[l].tails[k] : k \in DOMAIN loops[l].tails}
           /\ loops[l].kind = "c" => loops[l].left = gen.size - gen.current

GeneratorInv ==
  /\ max \in MaxCreds
  /\ gens \in [Handles -> Gens \cup {Absent}]
  /\ json \in Gens \cup {Absent}
  /\ loops \in [Loops -> Loop \cup {Absent}]
  /\ \A l \in Loops : loops[l] # Absent => LoopInv(l)

-----------------------------------------------------------------------------
(***************************************************************************)
(* One step of a generator.                                                *)
(***************************************************************************)
LEMMA GeneratorFacts ==
  ASSUME NEW gen \in Gens
  PROVE  /\ gen.size \in 0 .. U32 - 1 /\ gen.current \in 0 .. U32 - 1
         /\ gen.current <= gen.size /\ gen # Absent
         /\ Count(gen) \in 0 .. U32 - 1
         /\ gen = [size |-> gen.size, current |-> gen.current]
<1>1. gen \in Generator /\ gen.current <= gen.size
  BY DEF Gens
<1>2. gen.size \in 0 .. U32 - 1 /\ gen.current \in 0 .. U32 - 1
      /\ gen = [size |-> gen.size, current |-> gen.current]
  BY <1>1 DEF Generator
<1>3. gen \in [size : Nat, current : Nat]
  BY <1>2, WidthAssumption
<1> QED
  BY <1>1, <1>2, <1>3, AbsentAssumption, WidthAssumption DEF Count

\* One call of try_next.
LEMMA AdvanceStep ==
  ASSUME NEW gen \in Gens
  PROVE  /\ Advanced(gen) \in Gens
         /\ Advanced(gen).size = gen.size
         /\ \/ /\ NextTail(gen) = Null /\ Advanced(gen) = gen /\ gen.size = gen.current
            \/ /\ NextTail(gen) = gen.current /\ NextTail(gen) \in Nat /\ NextTail(gen) # Null
               /\ Advanced(gen).current = gen.current + 1
               /\ gen.current < gen.size
<1>1. gen.size \in Nat /\ gen.current \in Nat /\ gen.current <= gen.size
      /\ gen.size \in 0 .. U32 - 1
  BY GeneratorFacts, WidthAssumption
<1>2. CASE gen.current >= gen.size
  BY <1>1, <1>2 DEF NextTail, Advanced
<1>3. CASE ~(gen.current >= gen.size)
  <2>1. Advanced(gen) = [size |-> gen.size, current |-> gen.current + 1]
    BY <1>3, GeneratorFacts DEF Advanced
  <2>2. gen.current + 1 \in 0 .. U32 - 1 /\ gen.current + 1 <= gen.size
    BY <1>1, <1>3, WidthAssumption
  <2>3. Advanced(gen) \in Gens
    BY <1>1, <2>1, <2>2 DEF Gens, Generator
  <2> QED
    BY <1>1, <1>3, <2>1, <2>3, NullAssumption DEF NextTail
<1> QED
  BY <1>2, <1>3

\* A new generator, its size wrapped around or not.
LEMMA NewGeneratorType ==
  ASSUME NEW n \in MaxCreds
  PROVE  NewGenerator(n) \in Gens
<1>1. (2 * n + 1) % U32 \in 0 .. U32 - 1
  BY WidthAssumption
<1> QED
  BY <1>1, WidthAssumption DEF NewGenerator, Gens, Generator

\* A new registry has one generator and no loop.
LEMMA InitGenerator == Init => GeneratorInv
<1> SUFFICES ASSUME Init
             PROVE  GeneratorInv
  OBVIOUS
<1>1. gens \in [Handles -> Gens \cup {Absent}]
  BY NewGeneratorType DEF Init
<1> QED
  BY <1>1 DEF Init, GeneratorInv

-----------------------------------------------------------------------------
(***************************************************************************)
(* A step that leaves loop m and its generator alone keeps the invariant   *)
(* of m: the other loops only gather more, so m is alone after the step    *)
(* only if it was alone before.                                            *)
(***************************************************************************)
LEMMA Undisturbed ==
  ASSUME GeneratorInv, NEW m \in Loops, loops[m] # Absent,
         loops'[m] = loops[m], gens'[loops[m].on] = gens[loops[m].on],
         \A k \in Loops : loops[k] # Absent =>
           loops'[k] # Absent /\ loops'[k].on = loops[k].on /\ Got(k) \subseteq Got(k)'
  PROVE  LoopInv(m)'
<1>1. LoopInv(m)
  BY DEF GeneratorInv
<1>2. Alone(m)' => Alone(m)
  BY DEF Alone, Took
<1>3. Got(m)' = Got(m)
  BY DEF Got
<1> QED
  BY <1>1, <1>2, <1>3 DEF LoopInv

\* Reading or restoring a generator disturbs no loop.
LEMMA JsonStep ==
  ASSUME GeneratorInv, NEW g \in Handles, ToJson(g) \/ FromJson(g)
  PROVE  GeneratorInv'
<1>1. /\ max' = max /\ loops' = loops
      /\ gens' \in [Handles -> Gens \cup {Absent}]
      /\ json' \in Gens \cup {Absent}
      /\ \A h \in Handles : gens[h] # Absent => gens'[h] = gens[h]
  BY DEF GeneratorInv, ToJson, FromJson
<1>2. ASSUME NEW l \in Loops, loops[l] # Absent
      PROVE  LoopInv(l)'
  <2>1. LoopInv(l)
    BY <1>2 DEF GeneratorInv
  <2>2. loops[l].on \in Handles /\ gens[loops[l].on] # Absent
    BY <2>1, GeneratorFacts DEF LoopInv, Loop
  <2>3. \A k \in Loops : Got(k)' = Got(k)
    BY <1>1 DEF Got
  <2> QED
    BY <1>1, <1>2, <2>2, <2>3, Undisturbed
<1> QED
  BY <1>1, <1>2 DEF GeneratorInv

\* A loop that begins has gathered nothing.
LEMMA BeginStep ==
  ASSUME GeneratorInv, NEW l \in Loops, NEW g \in Handles, NEW kind \in Kinds,
         Begin(l, g, kind)
  PROVE  GeneratorInv'
<1>1. gens[g] \in Gens
  BY DEF GeneratorInv, Begin
<1> DEFINE left == IF kind = "c" THEN Count(gens[g]) ELSE 0
           new == [kind |-> kind, on |-> g, from |-> gens[g].current, left |-> left,
                   tails |-> <<>>, status |-> "running"]
<1>2. loops[l] = Absent /\ loops' = [loops EXCEPT ![l] = new]
      /\ max' = max /\ gens' = gens /\ json' = json
  BY DEF Begin
<1>3. left \in 0 .. U32 - 1 /\ gens[g].current \in Nat
  BY <1>1, GeneratorFacts, WidthAssumption
<1>4. new \in Loop
  BY <1>3 DEF Loop
<1>5. loops \in [Loops -> Loop \cup {Absent}]
  BY DEF GeneratorInv
<1>6. loops'[l] = new /\ \A k \in Loops \ {l} : loops'[k] = loops[k]
  BY <1>2, <1>5
<1>7. Got(l)' = {}
  <2>1. loops'[l].tails = <<>>
    BY <1>6
  <2> QED
    BY <2>1 DEF Got
<1>8. LoopInv(l)'
  <2>1. gens'[loops'[l].on] = gens[g] /\ loops'[l].from = gens[g].current
        /\ loops'[l].tails = <<>> /\ loops'[l].kind = kind /\ loops'[l].left = left
    BY <1>2, <1>6
  <2>2. {loops'[l].tails[k] : k \in DOMAIN loops'[l].tails} = {}
    BY <2>1
  <2> HIDE DEF left, new
  <2>3. kind = "c" => left = gens[g].size - gens[g].current
    BY DEF left, Count
  <2> QED
    BY <1>1, <1>3, <1>4, <1>6, <1>7, <2>1, <2>2, <2>3 DEF LoopInv
<1>9. ASSUME NEW m \in Loops \ {l}, loops[m] # Absent
      PROVE  LoopInv(m)'
  <2>1. \A k \in Loops \ {l} : Got(k)' = Got(k)
    BY <1>6 DEF Got
  <2>2. \A k \in Loops : loops[k] # Absent =>
          loops'[k] # Absent /\ loops'[k].on = loops[k].on /\ Got(k) \subseteq Got(k)'
    BY <1>2, <1>6, <2>1
  <2> QED
    BY <1>2, <1>6, <1>9, <2>2, Undisturbed
<1>10. loops' \in [Loops -> Loop \cup {Absent}]
  BY <1>2, <1>4, <1>5
<1> HIDE DEF new
<1> QED
  BY <1>2, <1>6, <1>8, <1>9, <1>10 DEF GeneratorInv

\* A loop that ends keeps what it has.
LEMMA FinishStep ==
  ASSUME GeneratorInv, NEW l \in Loops, Finish(l)
  PROVE  GeneratorInv'
<1>1. loops[l] \in Loop /\ loops \in [Loops -> Loop \cup {Absent}]
      /\ loops[l] # Absent
  BY DEF GeneratorInv, Finish, Running
<1>2. PICK r \in Loop : r = loops[l]
  BY <1>1
<1>3. PICK new : new = [kind |-> r.kind, on |-> r.on, from |-> r.from, left |-> r.left,
                        tails |-> r.tails, status |-> "ended"]
  OBVIOUS
<1>4. new \in Loop
  BY <1>3 DEF Loop
<1>5. loops' = [loops EXCEPT ![l] = new] /\ max' = max /\ gens' = gens /\ json' = json
  <2>1. [r EXCEPT !.status = "ended"] = new
    BY <1>3 DEF Loop
  <2>2. loops' = [loops EXCEPT ![l] = [r EXCEPT !.status = "ended"]]
    BY <1>2 DEF Finish
  <2> QED
    BY <2>1, <2>2 DEF Finish
<1>6. loops'[l] = new /\ \A k \in Loops \ {l} : loops'[k] = loops[k]
  BY <1>1, <1>5
<1>7. new.on = loops[l].on /\ new.from = loops[l].from /\ new.kind = loops[l].kind
      /\ new.left = loops[l].left /\ new.tails = loops[l].tails
  BY <1>2, <1>3
<1>8. \A k \in Loops : Got(k)' = Got(k)
  BY <1>6, <1>7 DEF Got
<1>9. new # Absent
  BY <1>4, AbsentAssumption
<1>10. \A k \in Loops : loops[k] # Absent =>
         loops'[k] # Absent /\ loops'[k].on = loops[k].on /\ Got(k) \subseteq Got(k)'
  BY <1>6, <1>7, <1>8, <1>9
<1>11. LoopInv(l)
  BY <1>1 DEF GeneratorInv
<1>12. Alone(l)' => Alone(l)
  BY <1>6, <1>7, <1>8 DEF Alone, Took
<1>13. LoopInv(l)'
  BY <1>4, <1>5, <1>6, <1>7, <1>8, <1>11, <1>12 DEF LoopInv
<1>14. ASSUME NEW m \in Loops \ {l}, loops[m] # Absent
       PROVE  LoopInv(m)'
  BY <1>5, <1>6, <1>10, <1>14, Undisturbed
<1>15. loops' \in [Loops -> Loop \cup {Absent}]
  BY <1>1, <1>4, <1>5
<1> QED
  BY <1>5, <1>6, <1>13, <1>14, <1>15 DEF GeneratorInv

\* One more tail, or null, at the end.
LEMMA PushedStep ==
  ASSUME NEW loop \in Loop, NEW tail \in Nat \cup {Null},
         loop.kind = "c" => loop.left > 0
  PROVE  LET new == Pushed(loop, tail)
             Held(s) == {s[k] : k \in DOMAIN s}
         IN  /\ new \in Loop
             /\ new.kind = loop.kind /\ new.on = loop.on /\ new.from = loop.from
             /\ new.status = loop.status
             /\ new.left = IF loop.kind = "c" THEN loop.left - 1 ELSE loop.left
             /\ Held(new.tails) = Held(loop.tails) \cup {tail}
<1> DEFINE new == [kind |-> loop.kind, on |-> loop.on, from |-> loop.from,
                   left |-> IF loop.kind = "c" THEN loop.left - 1 ELSE loop.left,
                   tails |-> Append(loop.tails, tail), status |-> loop.status]
<1>1. Pushed(loop, tail) = new
  <2>1. PICK tails : tails = Append(loop.tails, tail)
    OBVIOUS
  <2> DEFINE longer == [kind |-> loop.kind, on |-> loop.on, from |-> loop.from,
                        left |-> loop.left, tails |-> tails, status |-> loop.status]
  <2> HIDE DEF new
  <2>2. [loop EXCEPT !.tails = tails] = longer
    BY DEF Loop
  <2>3. PICK left : left = longer.left - 1
    OBVIOUS
  <2>4. [longer EXCEPT !.left = left]
          = [kind |-> loop.kind, on |-> loop.on, from |-> loop.from, left |-> left,
             tails |-> tails, status |-> loop.status]
    OBVIOUS
  <2> QED
    BY <2>1, <2>2, <2>3, <2>4 DEF Pushed, new
<1>2. loop.left \in 0 .. U32 - 1 /\ loop.tails \in Seq(Nat \cup {Null})
      /\ loop.kind \in Kinds /\ loop.on \in Handles /\ loop.from \in Nat
      /\ loop.status \in {"running", "ended"}
  BY DEF Loop
<1>3. (IF loop.kind = "c" THEN loop.left - 1 ELSE loop.left) \in 0 .. U32 - 1
  BY <1>2, WidthAssumption
<1>4. Append(loop.tails, tail) \in Seq(Nat \cup {Null})
  BY <1>2
<1>5. new \in Loop
  BY <1>2, <1>3, <1>4 DEF Loop
<1>6. {Append(loop.tails, tail)[k] : k \in DOMAIN Append(loop.tails, tail)}
        = {loop.tails[k] : k \in DOMAIN loop.tails} \cup {tail}
  <2> DEFINE s == loop.tails
             t == Append(s, tail)
  <2>1. Len(s) \in Nat /\ DOMAIN s = 1 .. Len(s) /\ DOMAIN t = 1 .. Len(s) + 1
    BY <1>2
  <2>2. \A k \in 1 .. Len(s) : t[k] = s[k]
    BY <1>2
  <2>3. t[Len(s) + 1] = tail
    BY <1>2
  <2> HIDE DEF s, t
  <2>4. {t[k] : k \in DOMAIN t} \subseteq {s[k] : k \in DOMAIN s} \cup {tail}
    BY <2>1, <2>2, <2>3
  <2>5. ASSUME NEW k \in DOMAIN s PROVE s[k] \in {t[i] : i \in DOMAIN t}
    BY <2>1, <2>2
  <2>6. tail \in {t[i] : i \in DOMAIN t}
    BY <2>1, <2>3
  <2> QED
    BY <2>4, <2>5, <2>6 DEF s, t
<1> QED
  BY <1>1, <1>5, <1>6

(***************************************************************************)
(* A loop that pushes on moves its generator on.  A loop that shares the   *)
(* generator is then no longer alone, unless the generator was drained.    *)
(***************************************************************************)
LEMMA PushStep ==
  ASSUME GeneratorInv, NEW l \in Loops, Push(l)
  PROVE  GeneratorInv'
<1>1. loops[l] \in Loop /\ loops \in [Loops -> Loop \cup {Absent}] /\ loops[l] # Absent
      /\ LoopInv(l)
  BY DEF GeneratorInv, Push, Running
<1>2. PICK g \in Handles : g = loops[l].on
  BY <1>1 DEF Loop
<1>3. PICK gen \in Gens : gen = gens[g]
  BY <1>1, <1>2 DEF LoopInv
<1>4. PICK tail : tail = NextTail(gen)
  OBVIOUS
<1>5. tail \in Nat \cup {Null}
  BY <1>4, AdvanceStep
<1>6. PICK r \in Loop : r = loops[l]
  BY <1>1
<1>7. r.kind = "c" => r.left > 0
  BY <1>6 DEF Push
<1>8. PICK new : new = Pushed(r, tail)
  OBVIOUS
<1>9. /\ new \in Loop
      /\ new.kind = r.kind /\ new.on = r.on /\ new.from = r.from /\ new.status = r.status
      /\ new.left = IF r.kind = "c" THEN r.left - 1 ELSE r.left
      /\ {new.tails[k] : k \in DOMAIN new.tails}
           = {r.tails[k] : k \in DOMAIN r.tails} \cup {tail}
  BY <1>5, <1>7, <1>8, PushedStep
<1>10. loops' = [loops EXCEPT ![l] = new] /\ max' = max /\ json' = json
       /\ gens' = [gens EXCEPT ![g] = Advanced(gen)]
  BY <1>2, <1>3, <1>4, <1>6, <1>8 DEF Push
<1>11. loops'[l] = new /\ new # Absent /\ \A k \in Loops \ {l} : loops'[k] = loops[k]
  BY <1>1, <1>9, <1>10, AbsentAssumption
<1>12. gens'[g] = Advanced(gen) /\ \A h \in Handles \ {g} : gens'[h] = gens[h]
  BY <1>10 DEF GeneratorInv
<1>13. Got(l)' = Got(l) \cup ({tail} \ {Null})
  BY <1>6, <1>9, <1>11 DEF Got
<1>14. \A k \in Loops \ {l} : Got(k)' = Got(k)
  BY <1>11 DEF Got
<1>15. gen.current \in Nat /\ gen.size \in Nat /\ gen.current <= gen.size
  BY GeneratorFacts, WidthAssumption
<1>16. LoopInv(l)'
  <2>1. Alone(l)' => Alone(l)
    BY <1>6, <1>9, <1>11, <1>14 DEF Alone, Took
  <2>2. gens'[loops'[l].on] = Advanced(gen) /\ loops'[l].on = g
    BY <1>2, <1>6, <1>9, <1>11, <1>12
  <2>3. r.from \in Nat /\ r.left \in Nat
    BY WidthAssumption DEF Loop
  <2>4. r.from <= gen.current /\ Got(l) \subseteq r.from .. gen.current - 1
    BY <1>1, <1>2, <1>3, <1>6 DEF LoopInv
  <2>5. Alone(l) => Null \notin {r.tails[k] : k \in DOMAIN r.tails}
                    /\ (r.kind = "c" => r.left = gen.size - gen.current)
    BY <1>1, <1>2, <1>3, <1>6 DEF LoopInv
  <2>6. Advanced(gen) \in Gens /\ Advanced(gen).size = gen.size
    BY AdvanceStep
  <2>7. r.from <= Advanced(gen).current
    BY <1>15, <2>3, <2>4, AdvanceStep
  <2>8. Got(l)' \subseteq r.from .. Advanced(gen).current - 1
    BY <1>4, <1>13, <1>15, <2>3, <2>4, AdvanceStep
  <2>9. ASSUME Alone(l)
        PROVE  /\ tail # Null
               /\ r.kind = "c" => new.left = Advanced(gen).size - Advanced(gen).current
    <3>1. CASE r.kind = "c"
      <4>1. gen.size # gen.current
        BY <1>7, <1>15, <2>3, <2>5, <2>9, <3>1
      <4>2. tail # Null /\ Advanced(gen).current = gen.current + 1
        BY <1>4, <4>1, AdvanceStep
      <4> QED
        BY <1>9, <1>15, <2>3, <2>5, <2>6, <2>9, <3>1, <4>2
    <3>2. CASE r.kind # "c"
      BY <1>2, <1>3, <1>4, <1>6, <3>2 DEF Push
    <3> QED
      BY <3>1, <3>2
  <2>10. Alone(l)' => /\ Null \notin {new.tails[k] : k \in DOMAIN new.tails}
                      /\ new.kind = "c" => new.left = Advanced(gen).size - Advanced(gen).current
    BY <1>9, <2>1, <2>5, <2>9
  <2> QED
    BY <1>9, <1>11, <2>2, <2>6, <2>7, <2>8, <2>10 DEF LoopInv
<1>17. \A k \in Loops : loops[k] # Absent =>
         loops'[k] # Absent /\ loops'[k].on = loops[k].on /\ Got(k) \subseteq Got(k)'
  BY <1>6, <1>9, <1>11, <1>13, <1>14
<1>18. ASSUME NEW m \in Loops \ {l}, loops[m] # Absent
       PROVE  LoopInv(m)'
  <2>1. LoopInv(m) /\ loops[m].on \in Handles
    BY <1>18 DEF GeneratorInv, LoopInv, Loop
  <2>2. CASE loops[m].on # g
    BY <1>11, <1>12, <1>17, <1>18, <2>1, <2>2, Undisturbed
  <2>3. CASE loops[m].on = g
    <3>1. CASE Advanced(gen) = gen
      BY <1>3, <1>11, <1>12, <1>17, <1>18, <2>3, <3>1, Undisturbed
    <3>2. CASE Advanced(gen) # gen
      <4>1. tail = gen.current /\ tail # Null /\ Advanced(gen).current = gen.current + 1
            /\ Advanced(gen) \in Gens
        BY <1>4, <3>2, AdvanceStep
      <4>2. loops[m].from \in Nat /\ loops[m].from <= gen.current
            /\ Got(m) \subseteq loops[m].from .. gen.current - 1
        BY <1>3, <2>1, <2>3 DEF LoopInv, Loop
      <4>3. Took(l, g, loops[m].from)'
        <5>1. tail \in Got(l)' /\ tail >= loops'[m].from
          BY <1>11, <1>13, <1>15, <4>1, <4>2
        <5> QED
          BY <1>2, <1>6, <1>9, <1>11, <5>1 DEF Took
      <4>4. ~Alone(m)'
        BY <1>11, <2>3, <4>3 DEF Alone
      <4>5. Got(m)' \subseteq loops'[m].from .. Advanced(gen).current - 1
            /\ loops'[m].from <= Advanced(gen).current
        BY <1>11, <1>14, <1>15, <4>1, <4>2
      <4>6. loops'[m] \in Loop /\ gens'[loops'[m].on] = Advanced(gen)
        BY <1>11, <1>12, <2>1, <2>3 DEF LoopInv
      <4> QED
        BY <4>1, <4>4, <4>5, <4>6 DEF LoopInv
    <3> QED
      BY <3>1, <3>2
  <2> QED
    BY <2>2, <2>3
<1>19. loops' \in [Loops -> Loop \cup {Absent}]
  BY <1>1, <1>9, <1>10
<1>20. gens' \in [Handles -> Gens \cup {Absent}]
  <2>1. Advanced(gen) \in Gens
    BY AdvanceStep
  <2> QED
    BY <1>10, <2>1 DEF GeneratorInv
<1> QED
  BY <1>10, <1>11, <1>16, <1>18, <1>19, <1>20 DEF GeneratorInv

-----------------------------------------------------------------------------
\* The invariant holds in every reachable state.
LEMMA GeneratorInvariant == Spec => []GeneratorInv
<1>1. GeneratorInv /\ [Next]_vars => GeneratorInv'
  <2> SUFFICES ASSUME GeneratorInv, [Next]_vars
               PROVE  GeneratorInv'
    OBVIOUS
  <2>1. CASE \E g \in Handles : ToJson(g) \/ FromJson(g)
    BY <2>1, JsonStep
  <2>2. CASE \E l \in Loops, g \in Handles, kind \in Kinds : Begin(l, g, kind)
    BY <2>2, BeginStep
  <2>3. CASE \E l \in Loops : Push(l) \/ Finish(l)
    BY <2>3, PushStep, FinishStep
  <2>4. CASE UNCHANGED vars
    BY <2>4 DEF vars, GeneratorInv, LoopInv, Alone, Took, Got
  <2> QED
    BY <2>1, <2>2, <2>3, <2>4 DEF Next
<1> QED
  BY <1>1, InitGenerator, PTL DEF Spec

(***************************************************************************)
(* The types of a generator, its copies and its loops, for every width of  *)
(* the integers and every capacity.                                        *)
(***************************************************************************)
THEOREM GeneratorTypes == Spec => []TypeOK
<1>1. GeneratorInv => TypeOK
  BY GeneratorFacts DEF GeneratorInv, TypeOK, LoopInv, Gens
<1> QED
  BY <1>1, GeneratorInvariant, PTL

(***************************************************************************)
(* A C caller that counted the tails before it asked for them is given a   *)
(* null only if another loop has taken from the same generator since,      *)
(* for any number of generators and loops, however their calls alternate,  *)
(* and also when the size wrapped around.                                  *)
(***************************************************************************)
THEOREM NoNullAlone == Spec => []NullOnlyWhenShared
<1>1. GeneratorInv => NullOnlyWhenShared
  BY DEF GeneratorInv, NullOnlyWhenShared, LoopInv
<1> QED
  BY <1>1, GeneratorInvariant, PTL

-----------------------------------------------------------------------------
(***************************************************************************)
(* What a loop alone has gathered: the tails from the index at which it    *)
(* began to that of the generator, in their order and without a gap, and   *)
(* when it has ended all there are.  The generators of a registry all have *)
(* the size that its capacity gives, wrapped around or not.                *)
(***************************************************************************)
Gathered(l) ==
  LET loop == loops[l]
      gen  == gens[loop.on]
  IN  Alone(l) =>
        /\ loop.from + Len(loop.tails) = gen.current
        /\ \A k \in DOMAIN loop.tails : loop.tails[k] = loop.from + k - 1
        /\ loop.status = "ended" => gen.current = gen.size

SizeOf(gen) == gen.size = NewGenerator(max).size

Gathering ==
  /\ \A g \in Handles : gens[g] # Absent => SizeOf(gens[g])
  /\ json # Absent => SizeOf(json)
  /\ \A l \in Loops : loops[l] # Absent => Gathered(l)

\* A new registry has one generator, of its own size, and no loop.
LEMMA InitGathering == Init => Gathering
BY DEF Init, Gathering, SizeOf

\* A step that leaves loop m and its generator alone keeps what m has gathered.
LEMMA StillGathered ==
  ASSUME GeneratorInv, Gathering, NEW m \in Loops, loops[m] # Absent,
         loops'[m] = loops[m], gens'[loops[m].on] = gens[loops[m].on],
         \A k \in Loops : loops[k] # Absent =>
           loops'[k] # Absent /\ loops'[k].on = loops[k].on /\ Got(k) \subseteq Got(k)'
  PROVE  Gathered(m)'
<1>1. Alone(m)' => Alone(m)
  BY DEF Alone, Took
<1>2. Gathered(m)
  BY DEF Gathering
<1> QED
  BY <1>1, <1>2 DEF Gathered

\* A saved generator has the size of the one it was, and so has a restored one.
LEMMA JsonGathers ==
  ASSUME GeneratorInv, Gathering, NEW g \in Handles, ToJson(g) \/ FromJson(g)
  PROVE  Gathering'
<1>1. /\ max' = max /\ loops' = loops
      /\ \A h \in Handles : gens[h] # Absent => gens'[h] = gens[h]
  BY DEF GeneratorInv, ToJson, FromJson
<1>2. /\ \A h \in Handles : gens'[h] # Absent => gens'[h].size = NewGenerator(max).size
      /\ json' # Absent => json'.size = NewGenerator(max).size
  BY DEF GeneratorInv, Gathering, SizeOf, ToJson, FromJson
<1>3. ASSUME NEW l \in Loops, loops[l] # Absent
      PROVE  Gathered(l)'
  <2>1. LoopInv(l)
    BY <1>3 DEF GeneratorInv
  <2>2. loops[l].on \in Handles /\ gens[loops[l].on] # Absent
    BY <2>1, GeneratorFacts DEF LoopInv, Loop
  <2>3. \A k \in Loops : Got(k)' = Got(k)
    BY <1>1 DEF Got
  <2> QED
    BY <1>1, <1>3, <2>2, <2>3, StillGathered
<1> QED
  BY <1>1, <1>2, <1>3 DEF Gathering, SizeOf, NewGenerator

\* A loop that begins has gathered nothing, and nothing is what lies between.
LEMMA BeginGathers ==
  ASSUME GeneratorInv, Gathering, NEW l \in Loops, NEW g \in Handles, NEW kind \in Kinds,
         Begin(l, g, kind)
  PROVE  Gathering'
<1>1. gens[g] \in Gens
  BY DEF GeneratorInv, Begin
<1>2. PICK new : /\ loops' = [loops EXCEPT ![l] = new]
                 /\ new.on = g /\ new.from = gens[g].current
                 /\ new.tails = <<>> /\ new.status = "running"
  <2>1. PICK left : left = IF kind = "c" THEN Count(gens[g]) ELSE 0
    OBVIOUS
  <2>2. PICK new : new = [kind |-> kind, on |-> g, from |-> gens[g].current, left |-> left,
                          tails |-> <<>>, status |-> "running"]
    OBVIOUS
  <2>3. loops' = [loops EXCEPT ![l] = new]
    BY <2>1, <2>2 DEF Begin
  <2>4. new.on = g /\ new.from = gens[g].current /\ new.tails = <<>> /\ new.status = "running"
    BY <2>2
  <2> QED
    BY <2>3, <2>4, Zenon
<1>3. loops[l] = Absent /\ max' = max /\ gens' = gens /\ json' = json
  BY DEF Begin
<1>4. loops'[l] = new /\ \A k \in Loops \ {l} : loops'[k] = loops[k]
  BY <1>2 DEF GeneratorInv
<1>5. Gathered(l)'
  BY <1>1, <1>2, <1>3, <1>4, GeneratorFacts, WidthAssumption DEF Gathered
<1>6. ASSUME NEW m \in Loops \ {l}, loops[m] # Absent
      PROVE  Gathered(m)'
  <2>1. \A k \in Loops \ {l} : Got(k)' = Got(k)
    BY <1>4 DEF Got
  <2>2. \A k \in Loops : loops[k] # Absent =>
          loops'[k] # Absent /\ loops'[k].on = loops[k].on /\ Got(k) \subseteq Got(k)'
    BY <1>3, <1>4, <2>1
  <2> QED
    BY <1>3, <1>4, <1>6, <2>2, StillGathered
<1> QED
  BY <1>3, <1>4, <1>5, <1>6 DEF Gathering, SizeOf, NewGenerator

\* A loop alone ends when it has taken the last tail: the Rust loop because
\* it was given none, the C caller because it has made all its calls.
LEMMA FinishGathers ==
  ASSUME GeneratorInv, Gathering, NEW l \in Loops, Finish(l)
  PROVE  Gathering'
<1>1. loops[l] \in Loop /\ loops \in [Loops -> Loop \cup {Absent}]
      /\ loops[l] # Absent /\ LoopInv(l) /\ Gathered(l)
  BY DEF GeneratorInv, Gathering, Finish, Running
<1>2. PICK r \in Loop : r = loops[l]
  BY <1>1
<1>3. PICK new : new = [r EXCEPT !.status = "ended"]
  OBVIOUS
<1>4. new.on = r.on /\ new.from = r.from /\ new.tails = r.tails /\ new \in Loop
  BY <1>3 DEF Loop
<1>5. loops' = [loops EXCEPT ![l] = new] /\ max' = max /\ gens' = gens /\ json' = json
  BY <1>2, <1>3 DEF Finish
<1>6. loops'[l] = new /\ \A k \in Loops \ {l} : loops'[k] = loops[k]
  BY <1>1, <1>5
<1>7. \A k \in Loops : Got(k)' = Got(k)
  BY <1>2, <1>4, <1>6 DEF Got
<1>8. new # Absent
  BY <1>4, AbsentAssumption
<1>9. \A k \in Loops : loops[k] # Absent =>
        loops'[k] # Absent /\ loops'[k].on = loops[k].on /\ Got(k) \subseteq Got(k)'
  BY <1>2, <1>4, <1>6, <1>7, <1>8
<1>10. Alone(l)' => Alone(l)
  BY <1>2, <1>4, <1>6, <1>7 DEF Alone, Took
<1>11. PICK gen \in Gens : gen = gens[r.on]
  BY <1>1, <1>2 DEF LoopInv
<1>12. Alone(l) => gen.current = gen.size
  <2>1. gen.current \in Nat /\ gen.size \in Nat /\ gen.current <= gen.size
    BY GeneratorFacts, WidthAssumption
  <2>2. CASE r.kind = "c"
    <3>1. r.left = 0
      BY <1>2, <2>2 DEF Finish
    <3>2. Alone(l) => r.left = gen.size - gen.current
      BY <1>1, <1>2, <1>11, <2>2 DEF LoopInv
    <3> QED
      BY <2>1, <3>1, <3>2
  <2>3. CASE r.kind # "c"
    <3>1. NextTail(gen) = Null
      BY <1>2, <1>11, <2>3 DEF Finish
    <3> QED
      BY <3>1, AdvanceStep
  <2> QED
    BY <2>2, <2>3
<1>13. Gathered(l)'
  BY <1>1, <1>2, <1>4, <1>5, <1>6, <1>10, <1>11, <1>12 DEF Gathered
<1>14. ASSUME NEW m \in Loops \ {l}, loops[m] # Absent
       PROVE  Gathered(m)'
  BY <1>5, <1>6, <1>9, <1>14, StillGathered
<1> QED
  BY <1>5, <1>6, <1>13, <1>14 DEF Gathering, SizeOf, NewGenerator

\* What Append does, position by position.
LEMMA AppendedAt ==
  ASSUME NEW S, NEW s \in Seq(S), NEW x \in S
  PROVE  /\ Len(Append(s, x)) = Len(s) + 1
         /\ \A k \in DOMAIN Append(s, x) :
              \/ k \in DOMAIN s /\ Append(s, x)[k] = s[k]
              \/ k = Len(s) + 1 /\ Append(s, x)[k] = x
OBVIOUS

(***************************************************************************)
(* A loop alone that pushes on is given the tail under the index, which    *)
(* is the next one; and the loops that share its generator are not alone   *)
(* any more, unless the generator was drained.                             *)
(***************************************************************************)
LEMMA PushGathers ==
  ASSUME GeneratorInv, Gathering, NEW l \in Loops, Push(l)
  PROVE  Gathering'
<1>1. /\ loops[l] \in Loop /\ loops \in [Loops -> Loop \cup {Absent}] /\ loops[l] # Absent
      /\ LoopInv(l) /\ Gathered(l) /\ loops[l].status = "running"
  BY DEF GeneratorInv, Gathering, Push, Running
<1>2. PICK g \in Handles : g = loops[l].on
  BY <1>1 DEF Loop
<1>3. PICK gen \in Gens : gen = gens[g]
  BY <1>1, <1>2 DEF LoopInv
<1>4. PICK tail \in Nat \cup {Null} : tail = NextTail(gen)
  BY AdvanceStep
<1>5. PICK r \in Loop : r = loops[l]
  BY <1>1
<1>6. r.kind = "c" => r.left > 0
  BY <1>5 DEF Push
<1>7. PICK new \in Loop :
        /\ new = Pushed(r, tail)
        /\ new.on = r.on /\ new.from = r.from /\ new.status = r.status
        /\ {new.tails[k] : k \in DOMAIN new.tails} = {r.tails[k] : k \in DOMAIN r.tails} \cup {tail}
  BY <1>6, PushedStep
<1>8. {new.tails[k] : k \in DOMAIN new.tails} = {r.tails[k] : k \in DOMAIN r.tails} \cup {tail}
  BY <1>7
<1>9. new.tails = Append(r.tails, tail)
  <2>1. PICK tails : tails = Append(r.tails, tail)
    OBVIOUS
  <2>2. PICK longer : longer = [r EXCEPT !.tails = tails]
    OBVIOUS
  <2>3. longer.tails = tails /\ longer = [kind |-> r.kind, on |-> r.on, from |-> r.from,
                                          left |-> r.left, tails |-> tails, status |-> r.status]
    BY <2>2 DEF Loop
  <2>4. PICK left : left = longer.left - 1
    OBVIOUS
  <2>5. [longer EXCEPT !.left = left].tails = tails
    BY <2>3
  <2> QED
    BY <1>7, <2>1, <2>2, <2>3, <2>4, <2>5 DEF Pushed
<1>10. loops' = [loops EXCEPT ![l] = new] /\ max' = max /\ json' = json
       /\ gens' = [gens EXCEPT ![g] = Advanced(gen)]
  BY <1>2, <1>3, <1>4, <1>5, <1>7 DEF Push
<1>11. loops'[l] = new /\ new # Absent /\ \A k \in Loops \ {l} : loops'[k] = loops[k]
  BY <1>1, <1>10, AbsentAssumption
<1>12. gens'[g] = Advanced(gen) /\ \A h \in Handles \ {g} : gens'[h] = gens[h]
  BY <1>10 DEF GeneratorInv
<1>13. Got(l)' = Got(l) \cup ({tail} \ {Null})
  BY <1>5, <1>8, <1>11 DEF Got
<1>14. \A k \in Loops \ {l} : Got(k)' = Got(k)
  BY <1>11 DEF Got
<1>15. gen.current \in Nat /\ gen.size \in Nat /\ gen.current <= gen.size
  BY GeneratorFacts, WidthAssumption
<1>16. Advanced(gen) \in Gens /\ Advanced(gen).size = gen.size
  BY AdvanceStep
<1>17. Gathered(l)'
  <2>1. Alone(l)' => Alone(l)
    BY <1>5, <1>7, <1>11, <1>14 DEF Alone, Took
  <2>2. gens'[loops'[l].on] = Advanced(gen)
    BY <1>2, <1>5, <1>7, <1>11, <1>12
  <2>3. ASSUME Alone(l)
        PROVE  /\ new.from + Len(new.tails) = Advanced(gen).current
               /\ \A k \in DOMAIN new.tails : new.tails[k] = new.from + k - 1
    <3>1. tail # Null
      <4>1. CASE r.kind = "c"
        <5>1. r.left = gen.size - gen.current
          BY <1>1, <1>2, <1>3, <1>5, <2>3, <4>1 DEF LoopInv
        <5>2. gen.size # gen.current
          BY <1>6, <1>15, <4>1, <5>1
        <5> QED
          BY <1>4, <5>2, AdvanceStep
      <4>2. CASE r.kind # "c"
        BY <1>2, <1>3, <1>4, <1>5, <4>2 DEF Push
      <4> QED
        BY <4>1, <4>2
    <3>2. tail = gen.current /\ Advanced(gen).current = gen.current + 1
      BY <1>4, <3>1, AdvanceStep
    <3>3. r.from + Len(r.tails) = gen.current
          /\ \A k \in DOMAIN r.tails : r.tails[k] = r.from + k - 1
      BY <1>1, <1>2, <1>3, <1>5, <2>3 DEF Gathered
    <3>4. r.tails \in Seq(Nat \cup {Null}) /\ r.from \in Nat
      BY DEF Loop
    <3>5. Len(r.tails) \in Nat
      BY <3>4
    <3>6. Len(new.tails) = Len(r.tails) + 1
      BY <1>9, <3>4, AppendedAt
    <3>7. \A k \in DOMAIN new.tails :
            \/ k \in DOMAIN r.tails /\ new.tails[k] = r.tails[k]
            \/ k = Len(r.tails) + 1 /\ new.tails[k] = tail
      BY <1>9, <3>4, AppendedAt
    <3>8. tail = r.from + (Len(r.tails) + 1) - 1
      BY <3>2, <3>3, <3>4, <3>5
    <3>9. new.from + Len(new.tails) = Advanced(gen).current
      BY <1>7, <3>2, <3>3, <3>4, <3>5, <3>6
    <3>10. \A k \in DOMAIN new.tails : new.tails[k] = r.from + k - 1
      BY <3>3, <3>7, <3>8
    <3> QED
      BY <1>7, <3>9, <3>10
  <2>4. new.status # "ended"
    BY <1>1, <1>5, <1>7
  <2> QED
    BY <1>11, <2>1, <2>2, <2>3, <2>4 DEF Gathered
<1>18. \A k \in Loops : loops[k] # Absent =>
         loops'[k] # Absent /\ loops'[k].on = loops[k].on /\ Got(k) \subseteq Got(k)'
  BY <1>5, <1>7, <1>11, <1>13, <1>14
<1>19. ASSUME NEW m \in Loops \ {l}, loops[m] # Absent
       PROVE  Gathered(m)'
  <2>1. CASE loops[m].on # g
    <3>1. loops[m].on \in Handles
      BY <1>19 DEF GeneratorInv, LoopInv, Loop
    <3> QED
      BY <1>11, <1>12, <1>18, <1>19, <2>1, <3>1, StillGathered
  <2>2. CASE loops[m].on = g /\ Advanced(gen) = gen
    BY <1>3, <1>11, <1>12, <1>18, <1>19, <2>2, StillGathered
  <2>3. CASE loops[m].on = g /\ Advanced(gen) # gen
    <3>1. tail = gen.current /\ tail # Null
      BY <1>4, <2>3, AdvanceStep
    <3>2. loops[m].from \in Nat /\ loops[m].from <= gen.current
      BY <1>3, <1>19, <2>3 DEF GeneratorInv, LoopInv, Loop
    <3>3. tail \in Got(l)' /\ tail >= loops'[m].from
      BY <1>11, <1>13, <1>15, <3>1, <3>2
    <3>4. Took(l, g, loops[m].from)'
      BY <1>2, <1>5, <1>7, <1>11, <3>3 DEF Took
    <3>5. ~Alone(m)'
      BY <1>11, <2>3, <3>4 DEF Alone
    <3> QED
      BY <3>5 DEF Gathered
  <2> QED
    BY <2>1, <2>2, <2>3
<1>20. \A h \in Handles : gens'[h] # Absent => gens'[h].size = NewGenerator(max).size
  <2>1. gen.size = NewGenerator(max).size
    BY <1>3, GeneratorFacts DEF Gathering, SizeOf
  <2> QED
    BY <1>12, <1>16, <2>1 DEF Gathering, SizeOf
<1> QED
  BY <1>10, <1>11, <1>17, <1>19, <1>20 DEF Gathering, SizeOf, NewGenerator

\* What a loop alone has gathered is known in every reachable state.
LEMMA GatheringInvariant == Spec => [](GeneratorInv /\ Gathering)
<1>1. GeneratorInv /\ Gathering /\ [Next]_vars => Gathering'
  <2> SUFFICES ASSUME GeneratorInv, Gathering, [Next]_vars
               PROVE  Gathering'
    OBVIOUS
  <2>1. CASE \E g \in Handles : ToJson(g) \/ FromJson(g)
    BY <2>1, JsonGathers
  <2>2. CASE \E l \in Loops, g \in Handles, kind \in Kinds : Begin(l, g, kind)
    BY <2>2, BeginGathers
  <2>3. CASE \E l \in Loops : Push(l) \/ Finish(l)
    BY <2>3, PushGathers, FinishGathers
  <2>4. CASE UNCHANGED vars
    BY <2>4 DEF vars, Gathering, Gathered, SizeOf, NewGenerator, Alone, Took, Got
  <2> QED
    BY <2>1, <2>2, <2>3, <2>4 DEF Next
<1> QED
  BY <1>1, InitGathering, GeneratorInvariant, PTL DEF Spec

-----------------------------------------------------------------------------
(***************************************************************************)
(* What the calls of a registry read.  Two of the tails tell a vector that *)
(* is shifted or too short from one that serves: the first after the one   *)
(* of identifier 0, and the one of the first index.                        *)
(***************************************************************************)
LEMMA NeededTails ==
  ASSUME max \in MaxCreds
  PROVE  /\ 1 \in Needed /\ max \in Needed
         /\ 2 * max + 1 < U32 => Needed \subseteq 0 .. 2 * max
<1>1. max \in Nat /\ 1 <= max /\ max + 1 < U32 /\ U32 \in Nat
  BY WidthAssumption
<1>2. \A i \in 1 .. max : T!GetIndex(i) = max + 1 - i
  BY <1>1 DEF T!GetIndex, T!WrapSub
<1>3. T!GetIndex(max) = 1 /\ T!GetIndex(1) = max
  BY <1>1, <1>2
<1>4. 1 \in 1 .. max /\ max \in 1 .. max
  BY <1>1
<1>5. 1 \in Needed /\ max \in Needed
  BY <1>3, <1>4, Zenon DEF Needed
<1>6. ASSUME 2 * max + 1 < U32, NEW t \in Needed
      PROVE  t \in 0 .. 2 * max
  <2>1. CASE \E i \in 1 .. max : t = T!GetIndex(i)
    BY <1>1, <1>2, <2>1
  <2>2. CASE \E j \in 1 .. max, own \in 1 .. max : t = T!WitnessIndex(j, own)
    <3>1. PICK j \in 1 .. max, own \in 1 .. max : t = T!WitnessIndex(j, own)
      BY <2>2
    <3>2. t = max + 1 - j + own
      BY <1>1, <1>6, <3>1 DEF T!WitnessIndex, T!WrapAdd, T!WrapSub
    <3> QED
      BY <1>1, <3>2
  <2> QED
    BY <1>6, <2>1, <2>2 DEF Needed, T!WitnessTails
<1> QED
  BY <1>5, <1>6

\* The size of a new generator, whole or wrapped around once.
LEMMA SizeWraps ==
  ASSUME NEW n \in MaxCreds
  PROVE  /\ 2 * n + 1 < U32 => NewGenerator(n).size = 2 * n + 1
         /\ 2 * n + 1 >= U32 => NewGenerator(n).size = 2 * n + 1 - U32
<1>1. n \in Nat /\ 1 <= n /\ n + 1 < U32 /\ U32 \in Nat \ {0}
  BY WidthAssumption
<1>2. 2 * n + 1 < U32 => (2 * n + 1) % U32 = 2 * n + 1
  BY <1>1
<1>3. 2 * n + 1 >= U32 => (2 * n + 1) % U32 = 2 * n + 1 - U32
  BY <1>1
<1> QED
  BY <1>2, <1>3 DEF NewGenerator

(***************************************************************************)
(* The vector of a loop that was alone serves the calls of its registry,   *)
(* for every index, if and only if the loop began on a generator nothing   *)
(* was taken from and 2 * max_cred_num + 1 did not wrap around (mod.rs:511 *)
(* and :557): for every width of the integers, every capacity, any number  *)
(* of generators, copies and loops.                                        *)
(***************************************************************************)
THEOREM WholeServes == Spec => []ServesIfWhole
<1>1. GeneratorInv /\ Gathering => ServesIfWhole
  <2> SUFFICES ASSUME GeneratorInv, Gathering, NEW l \in Loops, loops[l] # Absent,
                      loops[l].status = "ended", Alone(l)
               PROVE  Serves(l) <=> loops[l].from = 0 /\ 2 * max + 1 < U32
    BY DEF ServesIfWhole
  <2>1. PICK from \in Nat : from = loops[l].from
    BY DEF GeneratorInv, LoopInv, Loop
  <2>2. PICK tails \in Seq(Nat \cup {Null}) : tails = loops[l].tails
    BY DEF GeneratorInv, LoopInv, Loop
  <2>3. PICK gen \in Gens : gen = gens[loops[l].on]
    BY DEF GeneratorInv, LoopInv
  <2>4. /\ from + Len(tails) = gen.size
        /\ \A k \in DOMAIN tails : tails[k] = from + k - 1
    BY <2>1, <2>2, <2>3 DEF Gathering, Gathered
  <2>5. max \in MaxCreds /\ loops[l].on \in Handles
    BY DEF GeneratorInv, LoopInv, Loop
  <2>6. gen.size = NewGenerator(max).size
    BY <2>3, <2>5, GeneratorFacts DEF Gathering, SizeOf
  <2>7. PICK n \in MaxCreds : n = max
    BY <2>5
  <2>8. n \in Nat /\ 1 <= n /\ n + 1 < U32 /\ U32 \in Nat
    BY WidthAssumption
  <2>9. Len(tails) \in Nat /\ DOMAIN tails = 1 .. Len(tails)
    BY <2>2
  <2>10. Serves(l) <=> \A t \in Needed : t + 1 \in DOMAIN tails /\ tails[t + 1] = t
    BY <2>2 DEF Serves
  <2>11. ASSUME Serves(l)
         PROVE  from = 0 /\ 2 * n + 1 < U32
    <3>1. 1 + 1 \in DOMAIN tails /\ tails[1 + 1] = 1
      BY <2>5, <2>10, <2>11, NeededTails, Zenon
    <3>2. from = 0
      <4>1. 2 \in DOMAIN tails /\ tails[2] = 1
        BY <3>1
      <4>2. tails[2] = from + 2 - 1
        BY <2>4, <4>1
      <4> QED
        BY <4>1, <4>2
    <3>3. n + 1 \in DOMAIN tails
      BY <2>5, <2>7, <2>10, <2>11, NeededTails, Zenon
    <3>4. 2 * n + 1 >= U32 => gen.size = 2 * n + 1 - U32
      BY <2>6, <2>7, SizeWraps
    <3>5. n + 1 <= gen.size
      BY <2>4, <2>9, <3>2, <3>3
    <3> QED
      BY <2>8, <3>2, <3>4, <3>5
  <2>12. ASSUME from = 0, 2 * n + 1 < U32, NEW t \in Needed
         PROVE  t + 1 \in DOMAIN tails /\ tails[t + 1] = t
    <3>1. t \in 0 .. 2 * n
      BY <2>5, <2>7, <2>12, NeededTails
    <3>2. Len(tails) = 2 * n + 1
      BY <2>4, <2>6, <2>7, <2>9, <2>12, SizeWraps
    <3>3. t + 1 \in DOMAIN tails
      BY <2>8, <2>9, <3>1, <3>2
    <3>4. tails[t + 1] = from + (t + 1) - 1
      BY <2>4, <3>3
    <3> QED
      BY <2>8, <2>12, <3>1, <3>3, <3>4
  <2> QED
    BY <2>1, <2>7, <2>10, <2>11, <2>12
<1> QED
  BY <1>1, GatheringInvariant, PTL
=============================================================================
