----------------------------- MODULE HandleProofs -----------------------------
(***************************************************************************)
(* Theorems about Handles for any set of calls, addresses and threads, and *)
(* about the multi-signatures of Aggregation for any number of signers.    *)
(***************************************************************************)
EXTENDS Handles, Aggregation, FiniteSetTheorems, FunctionTheorems, TLAPS

(***************************************************************************)
(* Where an object is, and as what, is agreed before a fault; the fault    *)
(* itself is one of the explained ones.                                    *)
(***************************************************************************)
IInv == TypeOK /\ OwnershipAgreed /\ OnlyMisnamedMistaken /\ ErrorIsOwn

\* A type is kept when objects are taken away and placed.
LEMMA WithoutType ==
  ASSUME NEW f \in [Addresses -> Kinds \cup {Nothing}], NEW S
  PROVE  Without(f, S) \in [Addresses -> Kinds \cup {Nothing}]
BY DEF Without

\* The same of objects that are placed at free addresses.
LEMMA WithType ==
  ASSUME NEW f \in [Addresses -> Kinds \cup {Nothing}],
         NEW p, \A a \in DOMAIN p : p[a] \in Kinds
  PROVE  With(f, p) \in [Addresses -> Kinds \cup {Nothing}]
BY DEF With

\* A call that takes nothing over leaves every object where it is.
LEMMA TakesNothing ==
  ASSUME NEW f \in [Addresses -> Kinds \cup {Nothing}],
         NEW c, c.takes = {},
         NEW taken \in {{}} \cup {Taken(c, p) : p \in Passings(c)}
  PROVE  Without(f, taken) = f
<1>1. taken = {}  BY DEF Taken
<1> QED  BY <1>1 DEF Without

\* What is agreed at every address is agreed when the same are vacated.
LEMMA WithoutAgreed ==
  ASSUME IInv, NEW S,
         heap' = Without(heap, S), held' = Without(held, S)
  PROVE  OwnershipAgreed'
<1> SUFFICES ASSUME NEW a \in Addresses
             PROVE  /\ held'[a] = Nothing <=> heap'[a] = Nothing
                    /\ held'[a] # Nothing => AsBoxed(held'[a], heap'[a])
  BY DEF OwnershipAgreed, AsBoxed
<1>1. CASE a \in S  BY <1>1 DEF Without
<1>2. CASE a \notin S  BY <1>2 DEF Without, IInv, OwnershipAgreed
<1> QED  BY <1>1, <1>2

-----------------------------------------------------------------------------
\* A refused call changes no object, and the application does not think so.
LEMMA CallWithNullKeeps ==
  ASSUME IInv, NEW t \in Threads, NEW c \in Calls, CallWithNull(t, c)
  PROVE  IInv'
<1>1. PICK code \in c.refusals, taken \in {{}} \cup {Taken(c, p) : p \in Passings(c)} :
        /\ heap' = HeapAfter(FALSE, code, taken, <<>>)
        /\ held' = HeldAfter(code, taken, <<>>)
        /\ Fail(t, code)
  BY DEF CallWithNull
<1>2. code \in Failures  BY CallsAssumption
<1>3. code # Success  BY <1>2 DEF Failures, Success, InvalidParam, ErrorKinds
<1>4. heap' = heap  BY <1>1 DEF HeapAfter
<1>5. held' = held
  <2>1. CASE c.takes = {}
    <3>1. Without(held, taken) = held  BY <2>1, TakesNothing DEF IInv, TypeOK
    <3> QED  BY <1>1, <1>3, <3>1 DEF HeldAfter
  <2>2. CASE c.takes # {}
    <3>1. code = InvalidParam  BY <2>2, TakersAssumption
    <3> QED  BY <1>1, <3>1 DEF HeldAfter
  <2> QED  BY <2>1, <2>2
<1>6. error' = [error EXCEPT ![t] = code] /\ failed' = [failed EXCEPT ![t] = code]
  BY <1>1 DEF Fail, SetCurrentError
<1>7. fault' = fault  BY DEF CallWithNull
<1>8. TypeOK'  BY <1>2, <1>4, <1>5, <1>6, <1>7 DEF IInv, TypeOK
<1>9. OwnershipAgreed'  BY <1>4, <1>5 DEF IInv, OwnershipAgreed, AsBoxed
<1>10. OnlyMisnamedMistaken'  BY <1>7 DEF IInv, OnlyMisnamedMistaken
<1>11. ErrorIsOwn'  BY <1>6 DEF IInv, ErrorIsOwn
<1> QED  BY <1>8, <1>9, <1>10, <1>11 DEF IInv

(***************************************************************************)
(* An object that is not what it is cast to exists, because the            *)
(* application holds it, and has a kind that is misnamed, because it is    *)
(* what its name says unless a function boxed it as something else.        *)
(***************************************************************************)
LEMMA CallMistakesKeeps ==
  ASSUME IInv, NEW c \in Calls, CallMistakes(c)
  PROVE  IInv'
<1>1. PICK p \in Passings(c), k \in c.reads \cup c.takes :
        /\ heap[p[k]] # CastTo(c, k)
        /\ fault' = <<k, heap[p[k]], CastTo(c, k)>>
  BY DEF CallMistakes
<1>2. k \in Kinds /\ CastTo(c, k) \in Kinds  BY CallsAssumption DEF CastTo
<1>3. p[k] \in Addresses /\ held[p[k]] = k  BY DEF Passings
<1>4. k # Nothing  BY <1>2, NothingAssumption
<1>5. heap[p[k]] # Nothing /\ AsBoxed(k, heap[p[k]])
  BY <1>3, <1>4 DEF IInv, OwnershipAgreed
<1>6. heap[p[k]] \in Kinds  BY <1>3, <1>5 DEF IInv, TypeOK
<1>7. k \in Misnamed
  <2>1. CASE heap[p[k]] = k  BY <1>1, <2>1 DEF CastTo, Misnamed
  <2>2. CASE heap[p[k]] # k  BY <1>5, <2>2 DEF AsBoxed, Misnamed
  <2> QED  BY <2>1, <2>2
<1>8. UNCHANGED <<heap, held, error, failed>>  BY DEF CallMistakes
<1>9. TypeOK'  BY <1>1, <1>2, <1>6, <1>8 DEF IInv, TypeOK
<1>10. OnlyMisnamedMistaken'  BY <1>1, <1>2, <1>6, <1>7 DEF OnlyMisnamedMistaken
<1> QED  BY <1>8, <1>9, <1>10 DEF IInv, OwnershipAgreed, AsBoxed, ErrorIsOwn

\* A fault at a null output leaves the objects as they were.
LEMMA CallWritesNullKeeps ==
  ASSUME IInv, NEW c \in Calls, CallWritesNull(c)
  PROVE  IInv'
<1>1. UNCHANGED <<heap, held, error, failed>> /\ fault' = NullWritten
  BY DEF CallWritesNull
<1>2. TypeOK' /\ OnlyMisnamedMistaken'  BY <1>1 DEF IInv, TypeOK, OnlyMisnamedMistaken
<1> QED  BY <1>1, <1>2 DEF IInv, OwnershipAgreed, AsBoxed, ErrorIsOwn

\* An accepted call that fails drops what it took over, and only the codes
\* that say so are returned.
LEMMA CallFailsKeeps ==
  ASSUME IInv, NEW t \in Threads, NEW c \in Calls, NEW code \in c.errors,
         CallFails(t, c, code)
  PROVE  IInv'
<1>1. PICK p \in Passings(c) :
        /\ heap' = HeapAfter(TRUE, code, Taken(c, p), <<>>)
        /\ held' = HeldAfter(code, Taken(c, p), <<>>)
  BY DEF CallFails
<1>2. code \in Failures  BY CallsAssumption
<1>3. code # Success  BY <1>2 DEF Failures, Success, InvalidParam, ErrorKinds
<1>4. heap' = Without(heap, Taken(c, p))  BY <1>1, <1>3 DEF HeapAfter
<1>5. held' = Without(held, Taken(c, p))
  <2>1. CASE c.takes = {}
    <3>1. Without(held, Taken(c, p)) = held  BY <2>1, TakesNothing DEF IInv, TypeOK
    <3> QED  BY <1>1, <1>3, <3>1 DEF HeldAfter
  <2>2. CASE c.takes # {}
    <3>1. code # InvalidParam  BY <2>2, TakersAssumption
    <3> QED  BY <1>1, <1>3, <3>1 DEF HeldAfter
  <2> QED  BY <2>1, <2>2
<1>6. /\ error' = [error EXCEPT ![t] = code] /\ failed' = [failed EXCEPT ![t] = code]
      /\ fault' = fault
  BY DEF CallFails, Fail, SetCurrentError
<1>7. /\ heap' \in [Addresses -> Kinds \cup {Nothing}]
      /\ held' \in [Addresses -> Kinds \cup {Nothing}]
  BY <1>4, <1>5, WithoutType DEF IInv, TypeOK
<1>8. OwnershipAgreed'  BY <1>4, <1>5, WithoutAgreed
<1>9. TypeOK'  BY <1>2, <1>6, <1>7 DEF IInv, TypeOK
<1>10. OnlyMisnamedMistaken' /\ ErrorIsOwn'
  BY <1>6 DEF IInv, OnlyMisnamedMistaken, ErrorIsOwn
<1> QED  BY <1>8, <1>9, <1>10 DEF IInv

\* A call that succeeds puts an object at every output it reports, of the
\* kind the output is named after or of the one its contract tells.
LEMMA CallSucceedsKeeps ==
  ASSUME IInv, NEW c \in Calls, CallSucceeds(c)
  PROVE  IInv'
<1>1. PICK p \in Passings(c), outputs \in c.gives :
        \E made \in Placements(outputs, Vacant \cup Taken(c, p)) :
          /\ heap' = HeapAfter(TRUE, Success, Taken(c, p), Boxed(c, made))
          /\ held' = HeldAfter(Success, Taken(c, p), made)
  BY DEF CallSucceeds
<1>2. PICK made \in Placements(outputs, Vacant \cup Taken(c, p)) :
        /\ heap' = HeapAfter(TRUE, Success, Taken(c, p), Boxed(c, made))
        /\ held' = HeldAfter(Success, Taken(c, p), made)
  BY <1>1
<1>3. heap' = With(Without(heap, Taken(c, p)), Boxed(c, made))  BY <1>2 DEF HeapAfter
<1>4. held' = With(Without(held, Taken(c, p)), made)
  BY <1>2 DEF HeldAfter, Success, InvalidParam
<1>5. \A a \in DOMAIN made : made[a] \in Kinds /\ BoxedAs(c, made[a]) \in Kinds
  <2>1. PICK A : made \in [A -> outputs]  BY DEF Placements
  <2>2. outputs \in SUBSET Kinds  BY CallsAssumption
  <2>3. \A a \in DOMAIN made : made[a] \in Kinds  BY <2>1, <2>2
  <2> QED  BY <2>3, CallsAssumption DEF BoxedAs
<1>6. /\ DOMAIN Boxed(c, made) = DOMAIN made
      /\ \A a \in DOMAIN made : Boxed(c, made)[a] = BoxedAs(c, made[a])
  BY DEF Boxed
<1>7. /\ heap' \in [Addresses -> Kinds \cup {Nothing}]
      /\ held' \in [Addresses -> Kinds \cup {Nothing}]
  <2>1. /\ Without(heap, Taken(c, p)) \in [Addresses -> Kinds \cup {Nothing}]
        /\ Without(held, Taken(c, p)) \in [Addresses -> Kinds \cup {Nothing}]
    BY WithoutType DEF IInv, TypeOK
  <2> QED  BY <1>3, <1>4, <1>5, <1>6, <2>1, WithType
<1>8. OwnershipAgreed'
  <2> SUFFICES ASSUME NEW a \in Addresses
               PROVE  /\ held'[a] = Nothing <=> heap'[a] = Nothing
                      /\ held'[a] # Nothing => AsBoxed(held'[a], heap'[a])
    BY DEF OwnershipAgreed, AsBoxed
  <2>1. CASE a \in DOMAIN made
    <3>1. heap'[a] = BoxedAs(c, made[a]) /\ held'[a] = made[a]
      BY <1>3, <1>4, <1>6, <2>1 DEF With
    <3>2. held'[a] # Nothing /\ heap'[a] # Nothing
      BY <1>5, <2>1, <3>1, NothingAssumption
    <3> QED  BY <3>1, <3>2 DEF BoxedAs, AsBoxed
  <2>2. CASE a \notin DOMAIN made /\ a \in Taken(c, p)
    BY <1>3, <1>4, <1>6, <2>2 DEF With, Without
  <2>3. CASE a \notin DOMAIN made /\ a \notin Taken(c, p)
    <3>1. heap'[a] = heap[a] /\ held'[a] = held[a]
      BY <1>3, <1>4, <1>6, <2>3 DEF With, Without
    <3> QED  BY <3>1 DEF IInv, OwnershipAgreed
  <2> QED  BY <2>1, <2>2, <2>3
<1>9. UNCHANGED <<error, failed, fault>>  BY DEF CallSucceeds
<1>10. TypeOK'  BY <1>7, <1>9 DEF IInv, TypeOK
<1>11. OnlyMisnamedMistaken' /\ ErrorIsOwn'
  BY <1>9 DEF IInv, OnlyMisnamedMistaken, ErrorIsOwn
<1> QED  BY <1>8, <1>10, <1>11 DEF IInv

-----------------------------------------------------------------------------
\* The invariant holds of every application and every table of contracts.
LEMMA HandleInvariant == Spec => []IInv
<1>1. Init => IInv
  BY DEF Init, IInv, TypeOK, OwnershipAgreed, OnlyMisnamedMistaken, ErrorIsOwn
<1>2. IInv /\ [Next]_vars => IInv'
  <2> SUFFICES ASSUME IInv, [Next]_vars  PROVE IInv'  OBVIOUS
  <2>1. ASSUME NEW c \in Calls, CallMistakes(c)  PROVE IInv'
    BY <2>1, CallMistakesKeeps
  <2>2. ASSUME NEW c \in Calls, CallWritesNull(c)  PROVE IInv'
    BY <2>2, CallWritesNullKeeps
  <2>3. ASSUME NEW c \in Calls, CallSucceeds(c)  PROVE IInv'
    BY <2>3, CallSucceedsKeeps
  <2>4. ASSUME NEW t \in Threads, NEW c \in Calls, CallWithNull(t, c)  PROVE IInv'
    BY <2>4, CallWithNullKeeps
  <2>5. ASSUME NEW t \in Threads, NEW c \in Calls, NEW code \in c.errors,
               CallFails(t, c, code)
        PROVE  IInv'
    BY <2>5, CallFailsKeeps
  <2>6. CASE UNCHANGED vars
    BY <2>6 DEF vars, IInv, TypeOK, OwnershipAgreed, AsBoxed, OnlyMisnamedMistaken,
                ErrorIsOwn
  <2> QED  BY <2>1, <2>2, <2>3, <2>4, <2>5, <2>6 DEF Next
<1> QED  BY <1>1, <1>2, PTL DEF Spec

\* Objects, beliefs, errors and faults keep their types.
THEOREM HandleTypes == Spec => []TypeOK
<1>1. IInv => TypeOK  BY DEF IInv
<1> QED  BY <1>1, HandleInvariant, PTL

(***************************************************************************)
(* For every set of functions whose takers keep to the convention of the C *)
(* interface (TakersAssumption), whatever their borrowing functions cast   *)
(* to, box or leave unchecked, and every number of threads, addresses and  *)
(* calls, until the first fault there is an object exactly where an        *)
(* application that goes by the return codes believes one.                 *)
(***************************************************************************)
THEOREM ReturnCodesSuffice == Spec => []OwnershipAgreed
<1>1. IInv => OwnershipAgreed  BY DEF IInv
<1> QED  BY <1>1, HandleInvariant, PTL

(***************************************************************************)
(* Such an application never passes a dead handle, and the first object    *)
(* that is taken for another type is of a kind that a function misnames.   *)
(***************************************************************************)
THEOREM MistakesAreMisnamed == Spec => []OnlyMisnamedMistaken
<1>1. IInv => OnlyMisnamedMistaken  BY DEF IInv
<1> QED  BY <1>1, HandleInvariant, PTL

(***************************************************************************)
(* If no function boxed anything but what its output is named after, every *)
(* handle would hold what the application believes: the two functions on   *)
(* deltas that do (_from_json and the merge) are the only cause of a wrong *)
(* belief.                                                                 *)
(***************************************************************************)
THEOREM NamedIsHeld ==
  ASSUME \A c \in Calls : DOMAIN c.givenAs = {}
  PROVE  Spec => []HeldIsAsNamed
<1>1. IInv => HeldIsAsNamed
  <2> SUFFICES ASSUME IInv  PROVE held = heap  BY DEF HeldIsAsNamed
  <2>1. \A a \in Addresses : held[a] = heap[a]
    BY DEF IInv, OwnershipAgreed, AsBoxed
  <2>2. heap \in [Addresses -> Kinds \cup {Nothing}] /\ held \in [Addresses -> Kinds \cup {Nothing}]
    BY DEF IInv, TypeOK
  <2> QED  BY <2>1, <2>2
<1> QED  BY <1>1, HandleInvariant, PTL

(***************************************************************************)
(* Every thread reads the error of its own last failed call, whatever the  *)
(* others do.                                                              *)
(***************************************************************************)
THEOREM EachReadsItsError == Spec => []ErrorIsOwn
<1>1. IInv => ErrorIsOwn  BY DEF IInv
<1> QED  BY <1>1, HandleInvariant, PTL

-----------------------------------------------------------------------------
(***************************************************************************)
(* What verify_multi_sig accepts, for every number of signers, signatures  *)
(* and keys (Aggregation).                                                 *)
(***************************************************************************)
\* How often a product is in a sum is a number, and zero where it is nowhere.
LEMMA CountOfProduct ==
  ASSUME NEW P, NEW list \in Seq(P), NEW p \in P
  PROVE  /\ IsFiniteSet(At(list, p))
         /\ SumOf(list, P)[p] = Cardinality(At(list, p))
         /\ Cardinality(At(list, p)) \in Nat
         /\ Cardinality(At(list, p)) = 0 <=> At(list, p) = {}
<1>1. IsFiniteSet(DOMAIN list)
  <2>1. DOMAIN list = 1 .. Len(list) /\ Len(list) \in Nat
    OBVIOUS
  <2> QED
    BY <2>1, FS_Interval
<1>2. IsFiniteSet(At(list, p))
  BY <1>1, FS_Subset DEF At
<1> QED
  BY <1>2, FS_CardinalityType, FS_EmptySet DEF SumOf

\* Every signer has as many keys as signatures, and there is nothing else.
Balanced(signatures, message, keys, gen) ==
  /\ \A k \in DOMAIN signatures : \E sk \in SignKeys : signatures[k] = SignText(message, sk)
  /\ \A j \in DOMAIN keys : \E sk \in SignKeys : keys[j] = NewVerKey(gen, sk)
  /\ \A sk \in SignKeys :
       Cardinality(At(signatures, SignText(message, sk)))
         = Cardinality(At(keys, NewVerKey(gen, sk)))

\* The pairing equation, read at the products of the message and of gen.
LEMMA AcceptedIsBalanced ==
  ASSUME NEW signatures \in Seq(Products), NEW keys \in Seq(VerKeys),
         NEW message \in Messages, NEW gen \in Generators,
         VerifyMultiSig(MultiSignature(signatures), message, keys, gen)
  PROVE  Balanced(signatures, message, keys, gen)
<1> DEFINE hash == HashOf(message, "Sha256")
<1>0. hash \in Hashes
  BY DEF HashOf, Hashes
<1>1. \A h \in Hashes, g \in Generators, sk \in SignKeys :
        (IF g = gen THEN SumOf(signatures, Products)[<<h, sk>>] ELSE 0)
          = (IF h = hash THEN SumOf(keys, VerKeys)[<<g, sk>>] ELSE 0)
  BY DEF VerifyMultiSig, VerifySignature, MultiSignature
<1>2. \A h \in Hashes, sk \in SignKeys : <<h, sk>> \in Products
  BY DEF Products
<1>3. \A g \in Generators, sk \in SignKeys : <<g, sk>> \in VerKeys
  BY DEF VerKeys
<1>4. ASSUME NEW k \in DOMAIN signatures
      PROVE  \E sk \in SignKeys : signatures[k] = SignText(message, sk)
  <2>1. PICK h \in Hashes, sk \in SignKeys : signatures[k] = <<h, sk>>
    BY <1>4 DEF Products
  <2>2. k \in At(signatures, <<h, sk>>)
    BY <2>1 DEF At
  <2>3. SumOf(signatures, Products)[<<h, sk>>] # 0
    BY <2>2, <1>2, CountOfProduct
  <2>4. h = hash
    BY <2>3, <1>1
  <2> QED
    BY <2>1, <2>4 DEF SignText, GenSignature
<1>5. ASSUME NEW j \in DOMAIN keys
      PROVE  \E sk \in SignKeys : keys[j] = NewVerKey(gen, sk)
  <2>1. PICK g \in Generators, sk \in SignKeys : keys[j] = <<g, sk>>
    BY <1>5 DEF VerKeys
  <2>2. j \in At(keys, <<g, sk>>)
    BY <2>1 DEF At
  <2>3. SumOf(keys, VerKeys)[<<g, sk>>] # 0
    BY <2>2, <1>3, CountOfProduct
  <2>4. g = gen
    BY <2>3, <1>1, <1>0
  <2> QED
    BY <2>1, <2>4 DEF NewVerKey
<1>6. ASSUME NEW sk \in SignKeys
      PROVE  Cardinality(At(signatures, SignText(message, sk)))
               = Cardinality(At(keys, NewVerKey(gen, sk)))
  <2>1. SumOf(signatures, Products)[<<hash, sk>>] = SumOf(keys, VerKeys)[<<gen, sk>>]
    BY <1>0, <1>1
  <2> QED
    BY <2>1, <1>0, <1>2, <1>3, CountOfProduct DEF SignText, GenSignature, NewVerKey
<1> QED
  BY <1>4, <1>5, <1>6 DEF Balanced

\* The other products of the equation are in neither sum.
LEMMA BalancedIsAccepted ==
  ASSUME NEW signatures \in Seq(Products), NEW keys \in Seq(VerKeys),
         NEW message \in Messages, NEW gen \in Generators,
         Balanced(signatures, message, keys, gen)
  PROVE  VerifyMultiSig(MultiSignature(signatures), message, keys, gen)
<1> DEFINE hash == HashOf(message, "Sha256")
<1>1. SUFFICES ASSUME NEW h \in Hashes, NEW g \in Generators, NEW sk \in SignKeys
      PROVE  (IF g = gen THEN SumOf(signatures, Products)[<<h, sk>>] ELSE 0)
               = (IF h = hash THEN SumOf(keys, VerKeys)[<<g, sk>>] ELSE 0)
  BY DEF VerifyMultiSig, VerifySignature, MultiSignature
<1>2. <<h, sk>> \in Products /\ <<g, sk>> \in VerKeys
  BY DEF Products, VerKeys
<1>3. CASE h = hash /\ g = gen
  <2>1. Cardinality(At(signatures, <<h, sk>>)) = Cardinality(At(keys, <<g, sk>>))
    BY <1>3 DEF Balanced, SignText, GenSignature, NewVerKey
  <2> QED
    BY <1>2, <1>3, <2>1, CountOfProduct
<1>4. CASE h # hash
  <2>1. At(signatures, <<h, sk>>) = {}
    BY <1>4 DEF At, Balanced, SignText, GenSignature
  <2> QED
    BY <1>2, <1>4, <2>1, CountOfProduct
<1>5. CASE g # gen
  <2>1. At(keys, <<g, sk>>) = {}
    BY <1>5 DEF At, Balanced, NewVerKey
  <2> QED
    BY <1>2, <1>5, <2>1, CountOfProduct
<1> QED
  BY <1>3, <1>4, <1>5

(***************************************************************************)
(* A multi-signature is accepted for a list of keys if and only if every   *)
(* signature in it is one on the message and signatures and keys come in   *)
(* pairs of one signer, whatever the two orders are: who added up the      *)
(* signatures cannot have left out a listed signer, and who lists the keys *)
(* cannot leave out one of those that signed.                              *)
(***************************************************************************)
THEOREM MultiSignatureExact ==
  ASSUME NEW signatures \in Seq(Products), NEW keys \in Seq(VerKeys),
         NEW message \in Messages, NEW gen \in Generators
  PROVE  VerifyMultiSig(MultiSignature(signatures), message, keys, gen)
           <=> Paired(signatures, message, keys, gen)
<1> DEFINE Signed(sk) == At(signatures, SignText(message, sk))
           Listed(sk) == At(keys, NewVerKey(gen, sk))
<1>1. \A sk \in SignKeys : SignText(message, sk) \in Products /\ NewVerKey(gen, sk) \in VerKeys
  BY DEF SignText, GenSignature, HashOf, Products, Hashes, NewVerKey, VerKeys
<1>2. \A sk \in SignKeys : IsFiniteSet(Signed(sk)) /\ IsFiniteSet(Listed(sk))
  BY <1>1, CountOfProduct
<1>3. ASSUME Balanced(signatures, message, keys, gen)
      PROVE  Paired(signatures, message, keys, gen)
  <2>1. \A sk \in SignKeys : \E f : f \in Bijection(Listed(sk), Signed(sk))
    <3>1. \A sk \in SignKeys : Cardinality(Listed(sk)) = Cardinality(Signed(sk))
      BY <1>3 DEF Balanced
    <3> QED
      BY <3>1, <1>2, FS_SameCardinalityBij, Fun_ExistsBij
  <2> DEFINE f[sk \in SignKeys] == CHOOSE b : b \in Bijection(Listed(sk), Signed(sk))
             p == [j \in DOMAIN keys |-> f[keys[j][2]][j]]
  <2>2. ASSUME NEW sk \in SignKeys
        PROVE  /\ f[sk] \in [Listed(sk) -> Signed(sk)]
               /\ \A i, j \in Listed(sk) : f[sk][i] = f[sk][j] => i = j
               /\ \A k \in Signed(sk) : \E j \in Listed(sk) : f[sk][j] = k
    <3>1. f[sk] \in Bijection(Listed(sk), Signed(sk))
      BY <2>1
    <3> QED
      BY <3>1 DEF Bijection, Injection, Surjection, IsInjective
  <2> HIDE DEF f
  <2>3. ASSUME NEW j \in DOMAIN keys
        PROVE  \E sk \in SignKeys : /\ keys[j] = NewVerKey(gen, sk) /\ j \in Listed(sk)
                                     /\ p[j] = f[sk][j] /\ p[j] \in Signed(sk)
    <3>1. PICK sk \in SignKeys : keys[j] = NewVerKey(gen, sk)
      BY <1>3 DEF Balanced
    <3>2. j \in Listed(sk) /\ p[j] = f[sk][j]
      BY <3>1 DEF At, NewVerKey
    <3>3. p[j] \in Signed(sk)
      BY <3>2, <2>2
    <3> QED
      BY <3>1, <3>2, <3>3
  <2>4. p \in [DOMAIN keys -> DOMAIN signatures]
    BY <2>3 DEF At
  <2>5. \A k \in DOMAIN signatures : \E j \in DOMAIN keys : p[j] = k
    <3> TAKE k \in DOMAIN signatures
    <3>1. PICK sk \in SignKeys : signatures[k] = SignText(message, sk)
      BY <1>3 DEF Balanced
    <3>2. PICK j \in Listed(sk) : f[sk][j] = k
      BY <3>1, <2>2 DEF At
    <3>3. j \in DOMAIN keys /\ keys[j][2] = sk
      BY DEF At, NewVerKey
    <3> QED
      BY <3>2, <3>3
  <2>6. \A i, j \in DOMAIN keys : p[i] = p[j] => i = j
    <3> TAKE i, j \in DOMAIN keys
    <3> HAVE p[i] = p[j]
    <3>1. PICK a \in SignKeys : i \in Listed(a) /\ p[i] = f[a][i] /\ p[i] \in Signed(a)
      BY <2>3
    <3>2. PICK b \in SignKeys : j \in Listed(b) /\ p[j] = f[b][j] /\ p[j] \in Signed(b)
      BY <2>3
    <3>3. a = b
      BY <3>1, <3>2 DEF At, SignText, GenSignature
    <3> QED
      BY <3>1, <3>2, <3>3, <2>2
  <2>7. \A j \in DOMAIN keys : \E sk \in SignKeys :
          keys[j] = NewVerKey(gen, sk) /\ signatures[p[j]] = SignText(message, sk)
    BY <2>3 DEF At
  <2> HIDE DEF p
  <2> QED
    BY <2>4, <2>5, <2>6, <2>7 DEF Paired
<1>4. ASSUME Paired(signatures, message, keys, gen)
      PROVE  Balanced(signatures, message, keys, gen)
  <2>1. PICK p \in [DOMAIN keys -> DOMAIN signatures] :
          /\ \A k \in DOMAIN signatures : \E j \in DOMAIN keys : p[j] = k
          /\ \A i, j \in DOMAIN keys : p[i] = p[j] => i = j
          /\ \A j \in DOMAIN keys : \E sk \in SignKeys :
               keys[j] = NewVerKey(gen, sk) /\ signatures[p[j]] = SignText(message, sk)
    BY <1>4 DEF Paired
  <2>2. ASSUME NEW sk \in SignKeys
        PROVE  Cardinality(Signed(sk)) = Cardinality(Listed(sk))
    <3> DEFINE b == [j \in Listed(sk) |-> p[j]]
    <3>1. \A j \in DOMAIN keys : j \in Listed(sk) <=> p[j] \in Signed(sk)
      BY <2>1 DEF At, SignText, GenSignature, NewVerKey
    <3>2. b \in [Listed(sk) -> Signed(sk)]
      BY <3>1 DEF At
    <3>3. \A i, j \in Listed(sk) : b[i] = b[j] => i = j
      BY <2>1 DEF At
    <3>4. \A k \in Signed(sk) : \E j \in Listed(sk) : b[j] = k
      BY <2>1, <3>1 DEF At
    <3>5. b \in Bijection(Listed(sk), Signed(sk))
      BY <3>2, <3>3, <3>4 DEF Bijection, Injection, Surjection, IsInjective
    <3>6. ExistsBijection(Listed(sk), Signed(sk))
      BY <3>5, Fun_ExistsBij
    <3> QED
      BY <3>6, <1>2, FS_Bijection
  <2>3. \A k \in DOMAIN signatures : \E sk \in SignKeys : signatures[k] = SignText(message, sk)
    BY <2>1
  <2>4. \A j \in DOMAIN keys : \E sk \in SignKeys : keys[j] = NewVerKey(gen, sk)
    BY <2>1
  <2> QED
    BY <2>2, <2>3, <2>4 DEF Balanced
<1> QED
  BY <1>3, <1>4, AcceptedIsBalanced, BalancedIsAccepted

(***************************************************************************)
(* A signature on a message, were it the bytes of a verification key, is   *)
(* never accepted as the proof of possession of any key.                   *)
(***************************************************************************)
THEOREM SignatureIsNoPossession ==
  ASSUME NEW message \in Messages, NEW sk \in SignKeys, NEW key \in VerKeys, NEW gen \in Generators
  PROVE  ~VerifyPossession(SignText(message, sk), key, gen)
<1> DEFINE signature == SignText(message, sk)
           h == HashOf(message, "Sha256")
<1>1. h \in Hashes /\ signature \in Products /\ signature = <<h, sk>>
  BY DEF HashOf, Hashes, SignText, GenSignature, Products
<1>2. SumOf(<<signature>>, Products)[signature] # 0
  <2>1. <<signature>> \in Seq(Products) /\ 1 \in At(<<signature>>, signature)
    BY <1>1 DEF At
  <2> QED
    BY <2>1, <1>1, CountOfProduct
<1>3. h # HashOf(key, "Keccak256")
  BY DEF HashOf
<1> QED
  BY <1>1, <1>2, <1>3 DEF VerifyPossession, VerifySignature
=============================================================================
