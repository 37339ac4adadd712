------------------------------- MODULE Handles --------------------------------
(***************************************************************************)
(* The objects behind the handles of the C interface and the last error of *)
(* each thread, for an application that goes by return codes and names: it *)
(* believes that an object it passed to a finalizing call is gone unless   *)
(* the code says that a parameter was invalid, that output parameters hold *)
(* what they are named after when the code is Success, and that the last   *)
(* error is the one its last failed call reported.  It passes only handles *)
(* it believes to be alive and of the right kind, or null; the library     *)
(* tells neither a dead handle from a live one nor one type from another,  *)
(* it casts and dereferences.  What happens after that is undefined, and   *)
(* the model ends there.                                                   *)
(***************************************************************************)
EXTENDS CInterface, Integers

CONSTANTS
  Addresses,    \* bound: the addresses the allocator hands out
  Threads,      \* the threads of the application
  Calls,        \* the functions it calls, as contracts of CInterface
  Nothing,      \* no object, no error, no fault
  NullWritten   \* the fault of writing through a null pointer

Kinds == KindsOf(Calls)

Failures == {InvalidParam} \cup ErrorKinds

ASSUME CallsAssumption ==
  \A c \in Calls : /\ c.reads \subseteq Kinds /\ c.takes \subseteq Kinds
                   /\ c.gives \subseteq SUBSET Kinds
                   /\ \A k \in DOMAIN c.readAs : c.readAs[k] \in Kinds
                   /\ \A k \in DOMAIN c.givenAs : c.givenAs[k] \in Kinds
                   /\ c.errors \cup c.refusals \subseteq Failures
\* What the C interface sees to: a call that takes an object over refuses
\* null with codes that the library function behind it does not return.
ASSUME TakersAssumption ==
  \A c \in Calls : c.takes # {} => c.refusals = {InvalidParam} /\ InvalidParam \notin c.errors
ASSUME NothingAssumption == Nothing \notin Kinds \cup Failures

VARIABLES
  heap,    \* the kind of the object at each address
  held,    \* the kind of the object the application believes to be there
  error,   \* CURRENT_ERROR_C_JSON of each thread: the error it describes
  failed,  \* the code of the last failed call of each thread
  fault    \* NullWritten, or the object that was taken for something else: the
           \* kind the application held it as, its kind, the kind it was cast to

vars == <<heap, held, error, failed, fault>>

-----------------------------------------------------------------------------
Vacant == {a \in Addresses : heap[a] = Nothing /\ held[a] = Nothing}

Without(f, S) == [a \in Addresses |-> IF a \in S THEN Nothing ELSE f[a]]

With(f, placed) == [a \in Addresses |-> IF a \in DOMAIN placed THEN placed[a] ELSE f[a]]

\* The ways the allocator may place an object of each of some kinds.
Placements(kinds, free) ==
  UNION {{p \in [A -> kinds] : \A k \in kinds : \E a \in A : p[a] = k} :
           A \in {B \in SUBSET free : Cardinality(B) = Cardinality(kinds)}}

\* What the application passes for the parameters that must not be null.
Passings(c) ==
  {p \in [c.reads \cup c.takes -> Addresses] : \A k \in DOMAIN p : held[p[k]] = k}

Taken(c, p) == {p[k] : k \in c.takes}

CastTo(c, k) == IF k \in DOMAIN c.readAs THEN c.readAs[k] ELSE k

BoxedAs(c, k) == IF k \in DOMAIN c.givenAs THEN c.givenAs[k] ELSE k

\* Every object is there and has the type it is cast to.
Sound(c, p) == \A k \in DOMAIN p : heap[p[k]] = CastTo(c, k)

Boxed(c, made) == [a \in DOMAIN made |-> BoxedAs(c, made[a])]

(***************************************************************************)
(* What a call does to the objects: the macros check every parameter and   *)
(* return before Box::from_raw takes an object over, and outputs are boxed *)
(* only when the library function has returned Ok.                         *)
(***************************************************************************)
\* Mutant of HeapAfter: Box::from_raw comes before the checks.
TakenUnchecked(accepted, code, taken, made) ==
  IF accepted /\ code = Success THEN With(Without(heap, taken), made) ELSE Without(heap, taken)

\* Mutant of HeapAfter: an object taken over is given back when the call fails.
KeptOnError(accepted, code, taken, made) ==
  IF accepted /\ code = Success THEN With(Without(heap, taken), made) ELSE heap

HeapAfter(accepted, code, taken, made) ==
  IF ~accepted THEN heap
  ELSE IF code = Success THEN With(Without(heap, taken), made)
  ELSE Without(heap, taken)

\* What the application makes of the same call, from the code alone.
HeldAfter(code, taken, named) ==
  IF code = InvalidParam THEN held
  ELSE IF code = Success THEN With(Without(held, taken), named)
  ELSE Without(held, taken)

\* Mutant of SetCurrentError: one error for all threads.
SharedError(t, code) == error' = [u \in Threads |-> code]

\* set_current_error, which every failing call passes through, writes to a
\* thread-local; a successful call leaves it alone.
SetCurrentError(t, code) == error' = [error EXCEPT ![t] = code]

\* Mutant of Fail: the error is noted and Success returned.
Swallowed(t, code) ==
  /\ SetCurrentError(t, code)
  /\ failed' = [failed EXCEPT ![t] = Success]

Fail(t, code) ==
  /\ SetCurrentError(t, code)
  /\ failed' = [failed EXCEPT ![t] = code]

-----------------------------------------------------------------------------
Init ==
  /\ heap = [a \in Addresses |-> Nothing]
  /\ held = [a \in Addresses |-> Nothing]
  /\ error = [t \in Threads |-> Nothing]
  /\ failed = [t \in Threads |-> Nothing]
  /\ fault = Nothing

\* A parameter that the function checks is null, whatever the others are.
CallWithNull(t, c) ==
  /\ fault = Nothing
  /\ \E code \in c.refusals, taken \in {{}} \cup {Taken(c, p) : p \in Passings(c)} :
       /\ heap' = HeapAfter(FALSE, code, taken, <<>>)
       /\ held' = HeldAfter(code, taken, <<>>)
       /\ Fail(t, code)
  /\ UNCHANGED fault

\* Handles are not what they are cast to.
CallMistakes(c) ==
  /\ fault = Nothing
  /\ \E p \in Passings(c), k \in c.reads \cup c.takes :
       /\ heap[p[k]] # CastTo(c, k)
       /\ fault' = <<k, heap[p[k]], CastTo(c, k)>>
  /\ UNCHANGED <<heap, held, error, failed>>

\* The output pointer is null and not checked, and the library function
\* returns Ok: its work is done when the result is written to the pointer.
CallWritesNull(c) ==
  /\ fault = Nothing /\ c.unchecked
  /\ \E p \in Passings(c) : Sound(c, p)
  /\ fault' = NullWritten
  /\ UNCHANGED <<heap, held, error, failed>>

\* The parameters are accepted and the library function returns an error.
CallFails(t, c, code) ==
  /\ fault = Nothing
  /\ \E p \in Passings(c) :
       /\ Sound(c, p)
       /\ heap' = HeapAfter(TRUE, code, Taken(c, p), <<>>)
       /\ held' = HeldAfter(code, Taken(c, p), <<>>)
  /\ Fail(t, code)
  /\ UNCHANGED fault

\* The library function returns Ok.  A freed address may be used again.
CallSucceeds(c) ==
  /\ fault = Nothing
  /\ \E p \in Passings(c), outputs \in c.gives :
       /\ Sound(c, p)
       /\ \E made \in Placements(outputs, Vacant \cup Taken(c, p)) :
            /\ heap' = HeapAfter(TRUE, Success, Taken(c, p), Boxed(c, made))
            /\ held' = HeldAfter(Success, Taken(c, p), made)
  /\ UNCHANGED <<error, failed, fault>>

Next ==
  \E c \in Calls :
    \/ CallMistakes(c)
    \/ CallWritesNull(c)
    \/ CallSucceeds(c)
    \/ \E t \in Threads :
         \/ CallWithNull(t, c)
         \/ \E code \in c.errors : CallFails(t, c, code)

Spec == Init /\ [][Next]_vars
-----------------------------------------------------------------------------
\* The kinds that some function casts or boxes as another type.
Misnamed == UNION {DOMAIN c.readAs \cup DOMAIN c.givenAs : c \in Calls}

TypeOK ==
  /\ heap \in [Addresses -> Kinds \cup {Nothing}]
  /\ held \in [Addresses -> Kinds \cup {Nothing}]
  /\ error \in [Threads -> Failures \cup {Nothing}]
  /\ failed \in [Threads -> Failures \cup {Nothing}]
  /\ fault \in {Nothing, NullWritten} \cup (Kinds \X (Kinds \cup {Nothing}) \X Kinds)

\* The object behind a handle is what the name says, or a function boxes
\* that name as what it is.
AsBoxed(name, type) ==
  type # name => \E c \in Calls : name \in DOMAIN c.givenAs /\ c.givenAs[name] = type

(***************************************************************************)
(* The return code alone tells who owns what: after any calls of any       *)
(* threads, failed or not, there is an object exactly where the            *)
(* application believes it holds one, although addresses are used again:   *)
(* a builder consumed by a failed finalize or verify, a builder left by    *)
(* one that was refused, no output of a failed call.  It is of the kind    *)
(* the application believes, except where a function boxed something else. *)
(***************************************************************************)
OwnershipAgreed ==
  \A a \in Addresses :
    /\ held[a] = Nothing <=> heap[a] = Nothing
    /\ held[a] # Nothing => AsBoxed(held[a], heap[a])

(***************************************************************************)
(* No call ever dereferences a dead handle, and none takes an object for   *)
(* one of another type, except a handle of the kinds that some function    *)
(* misnames (in the code: a delta converted to or from JSON, or merged).   *)
(***************************************************************************)
OnlyMisnamedMistaken ==
  fault \in {Nothing, NullWritten} \cup (Misnamed \X Kinds \X Kinds)

(***************************************************************************)
(* What ursa_get_current_error returns in a thread is the error of the     *)
(* last call that failed in that thread, whatever other threads and later  *)
(* successful calls did.                                                   *)
(***************************************************************************)
ErrorIsOwn == error = failed

\* An output is what the parameter that received it is named after.
HeldIsAsNamed == held = heap
=============================================================================
