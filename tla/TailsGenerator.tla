---------------------------- MODULE TailsGenerator ----------------------------
(***************************************************************************)
(* The generators of the tails of one revocation registry (cl/mod.rs,      *)
(* ffi/cl/mod.rs) and the loops that drain them: SimpleTailsAccessor::new, *)
(* which asks for tails until there are none, and the loop of a C caller,  *)
(* which asks for as many as ursa_cl_tails_generator_count says.  A        *)
(* generator can be saved as JSON and restored, and calls through the C    *)
(* interface on one generator may alternate; a Rust loop borrows it alone. *)
(*                                                                         *)
(* A tail is modelled by its identifier (Tails).  A loop that runs goes    *)
(* on, since nothing in it waits.                                          *)
(***************************************************************************)
EXTENDS Naturals, Sequences

CONSTANTS
  U32,        \* 2^32
  MaxCreds,   \* max_cred_num of the registries that are considered
  Handles,    \* the generators in memory
  First,      \* the one that Issuer::new_revocation_registry_def returns
  Loops,      \* the loops that may be started
  Absent,     \* no such object
  Null        \* the null that the C interface gives for Option::None

ASSUME WidthAssumption == U32 \in Nat \ {0} /\ MaxCreds \subseteq 1 .. U32 - 2
ASSUME FirstAssumption == First \in Handles

VARIABLES
  max,    \* max_cred_num of the registry
  gens,   \* the generator behind each handle
  json,   \* the saved generator
  loops   \* the loops started so far, with what they have pushed

vars == <<max, gens, json, loops>>

Generator == [size : 0 .. U32 - 1, current : 0 .. U32 - 1]
Kinds == {"rust", "c"}

\* A loop begun on generator `on` at index `from`, that has `left` calls to make.
Loop ==
  [kind : Kinds, on : Handles, from : Nat, left : 0 .. U32 - 1,
   tails : Seq(Nat \cup {Null}), status : {"running", "ended"}]

ASSUME NullAssumption == Null \notin Nat
ASSUME AbsentAssumption == Absent \notin [size : Nat, current : Nat] \cup Loop

\* Mutant of NewGenerator: the last tail is forgotten.
ShortGenerator(n) == [size |-> (2 * n) % U32, current |-> 0]

\* A release build lets the size wrap around.
NewGenerator(n) == [size |-> (2 * n + 1) % U32, current |-> 0]

\* Mutant of Count: the tail under the index is counted twice.
CountOneMore(gen) == gen.size - gen.current + 1

Count(gen) == gen.size - gen.current

\* Mutant of Advanced: the index stays where it was.
NotAdvanced(gen) == gen

\* try_next: the tail it returns, and the generator after it.
NextTail(gen) == IF gen.current >= gen.size THEN Null ELSE gen.current
Advanced(gen) == IF gen.current >= gen.size THEN gen ELSE [gen EXCEPT !.current = @ + 1]

-----------------------------------------------------------------------------
Init ==
  /\ max \in MaxCreds
  /\ gens = [g \in Handles |-> IF g = First THEN NewGenerator(max) ELSE Absent]
  /\ json = Absent
  /\ loops = [l \in Loops |-> Absent]

Running(l) == loops[l] # Absent /\ loops[l].status = "running"

\* The loops that hold generator g.
Borrowers(g) == {l \in Loops : Running(l) /\ loops[l].on = g}

ToJson(g) ==
  /\ gens[g] # Absent
  /\ \A l \in Borrowers(g) : loops[l].kind = "c"
  /\ json' = gens[g]
  /\ UNCHANGED <<max, gens, loops>>

FromJson(g) ==
  /\ gens[g] = Absent /\ json # Absent
  /\ gens' = [gens EXCEPT ![g] = json]
  /\ UNCHANGED <<max, json, loops>>

\* left is what the C caller has counted; the Rust loop counts nothing.
Begin(l, g, kind) ==
  /\ loops[l] = Absent /\ gens[g] # Absent
  /\ \A m \in Borrowers(g) : kind = "c" /\ loops[m].kind = "c"
  /\ loops' = [loops EXCEPT ![l] =
       [kind |-> kind, on |-> g, from |-> gens[g].current,
        left |-> IF kind = "c" THEN Count(gens[g]) ELSE 0,
        tails |-> <<>>, status |-> "running"]]
  /\ UNCHANGED <<max, gens, json>>

\* The loop has what it needs: a Rust loop was given None, a C loop has
\* made all its calls.
Finish(l) ==
  /\ Running(l)
  /\ IF loops[l].kind = "c" THEN loops[l].left = 0 ELSE NextTail(gens[loops[l].on]) = Null
  /\ loops' = [loops EXCEPT ![l] = [@ EXCEPT !.status = "ended"]]
  /\ UNCHANGED <<max, gens, json>>

Pushed(loop, tail) ==
  LET longer == [loop EXCEPT !.tails = Append(@, tail)]
  IN  IF loop.kind = "c" THEN [longer EXCEPT !.left = @ - 1] ELSE longer

\* No vector holds more tails than there are identifiers.
Push(l) ==
  /\ Running(l) /\ Len(loops[l].tails) < U32
  /\ IF loops[l].kind = "c" THEN loops[l].left > 0 ELSE NextTail(gens[loops[l].on]) # Null
  /\ LET g == loops[l].on
     IN  /\ gens' = [gens EXCEPT ![g] = Advanced(@)]
         /\ loops' = [loops EXCEPT ![l] = Pushed(@, NextTail(gens[g]))]
  /\ UNCHANGED <<max, json>>

Next ==
  \/ \E g \in Handles : ToJson(g) \/ FromJson(g)
  \/ \E l \in Loops, g \in Handles, kind \in Kinds : Begin(l, g, kind)
  \/ \E l \in Loops : Push(l) \/ Finish(l)

\* A loop is straight code: once begun it goes on.  Nothing makes an
\* application begin one, save a generator or restore it.
Fairness == \A l \in Loops : WF_vars(Push(l) \/ Finish(l))

Spec == Init /\ [][Next]_vars /\ Fairness
-----------------------------------------------------------------------------
\* What loop l has pushed, nulls left out.
Got(l) == {loops[l].tails[k] : k \in DOMAIN loops[l].tails} \ {Null}

TypeOK ==
  /\ max \in MaxCreds
  /\ gens \in [Handles -> Generator \cup {Absent}]
  /\ json \in Generator \cup {Absent}
  /\ loops \in [Loops -> Loop \cup {Absent}]
  /\ \A l \in Loops : loops[l] # Absent =>
       /\ gens[loops[l].on] # Absent
       /\ Got(l) \subseteq loops[l].from .. gens[loops[l].on].current - 1

(***************************************************************************)
(* Every loop that was begun ends, however the calls of several loops on   *)
(* one generator alternate, and also when the size of the generator has    *)
(* wrapped around.                                                         *)
(***************************************************************************)
LoopsEnd == \A l \in Loops : loops[l] # Absent ~> loops[l] # Absent /\ loops[l].status = "ended"

\* Loop m has taken a tail of generator g from the index first on.
Took(m, g, first) == loops[m] # Absent /\ loops[m].on = g /\ \E t \in Got(m) : t >= first

\* No other loop has taken a tail of l's generator since l began.
Alone(l) == \A m \in Loops \ {l} : ~Took(m, loops[l].on, loops[l].from)

(***************************************************************************)
(* The two ways to drain a generator agree: a C caller that counted first  *)
(* is given a null (which its callbacks would pass on as a tail) only if   *)
(* another loop has taken a tail of the same generator since.              *)
(***************************************************************************)
NullOnlyWhenShared ==
  \A l \in Loops : loops[l] # Absent /\ Alone(l) =>
    \A k \in DOMAIN loops[l].tails : loops[l].tails[k] # Null
=============================================================================
