----------------------------- MODULE IdResolver -----------------------------
(***************************************************************************)
(* How source names become ids (config/primitives/id_resolver.rs).  The    *)
(* startup configuration and every reload driver share one resolver; each  *)
(* call runs under its mutex, from the first lookup to the insertion.      *)
(*                                                                         *)
(* An id is a sequence: a name, or a name followed by dot numbers, so that *)
(* the literal name "a.1" and the first renaming of "a" are the same id.   *)
(***************************************************************************)
EXTENDS Naturals, Sequences

CONSTANTS
  Names,      \* the names asked for, as written in configs and file stems
  Uniques,    \* unique names: canonical paths, URLs, table signatures
  Sanitised,  \* [Names -> Seq(...)]: the name with its odd characters replaced
  Reserved,   \* reserved ids
  MaxIndex    \* i32::MAX

ASSUME IndexAssumption == MaxIndex \in Nat \ {0}

\* "Assumes that reserved keywords never end in a dot number."
ASSUME ReservedAssumption ==
  \A n \in Names, i \in 1..MaxIndex : Append(Sanitised[n], i) \notin Reserved

VARIABLES
  names,     \* [a set of ids -> Uniques]: who owns each id
  answers,   \* history: every call that returned, as [name, unique, id]
  poisoned   \* a call panicked with the mutex held

vars == <<names, answers, poisoned>>

Indices == 0..(MaxIndex - 1)

Candidate(name, i) ==
  IF i = 0 THEN Sanitised[name] ELSE Append(Sanitised[name], i)

Candidates == {Candidate(n, i) : n \in Names, i \in Indices}

Answer == [name : Names, unique : Uniques, id : Candidates]

TypeOK ==
  /\ DOMAIN names \subseteq Candidates
  /\ names \in [DOMAIN names -> Uniques]
  /\ answers \subseteq Answer
  /\ poisoned \in BOOLEAN

Init ==
  /\ names = [id \in {} |-> CHOOSE u \in Uniques : TRUE]
  /\ answers = {}
  /\ poisoned = FALSE

\* A mutant: an id that is taken fits whoever took it.
FitsTaken(name, unique, i) ==
  i = 0 => Sanitised[name] \notin Reserved

\* The i-th candidate is vacant or already belongs to this unique name.
Fits(name, unique, i) ==
  /\ i = 0 => Sanitised[name] \notin Reserved
  /\ Candidate(name, i) \in DOMAIN names => names[Candidate(name, i)] = unique

First(name, unique, i) ==
  /\ Fits(name, unique, i)
  /\ \A j \in 0..(i - 1) : ~Fits(name, unique, j)

Owned(id, unique) ==
  [c \in DOMAIN names \cup {id} |-> IF c = id THEN unique ELSE names[c]]

Resolve(name, unique) ==
  /\ ~poisoned
  /\ \E i \in Indices :
       /\ First(name, unique, i)
       /\ names' = Owned(Candidate(name, i), unique)
       /\ answers' = answers \cup
            {[name |-> name, unique |-> unique, id |-> Candidate(name, i)]}
  /\ UNCHANGED poisoned

\* A mutant: the collision count is not checked.
OverflowUnchecked(name, unique) ==
  /\ ~poisoned
  /\ \A i \in Indices : ~Fits(name, unique, i)
  /\ names' = Owned(Candidate(name, MaxIndex), unique)
  /\ UNCHANGED <<answers, poisoned>>

\* The collision count overflows: the call panics and poisons the mutex, and
\* with it every later call.
Overflow(name, unique) ==
  /\ ~poisoned
  /\ \A i \in Indices : ~Fits(name, unique, i)
  /\ poisoned' = TRUE
  /\ UNCHANGED <<names, answers>>

Next == \E name \in Names, unique \in Uniques :
          Resolve(name, unique) \/ Overflow(name, unique)

Spec == Init /\ [][Next]_vars
-----------------------------------------------------------------------------
(* Properties.                                                             *)

\* Two sources never get the same id, whatever their names become when they
\* are sanitised or renamed (a literal "a.1" against the renaming of "a").
OneOwner ==
  \A a, b \in answers : a.id = b.id => a.unique = b.unique

\* Asking again gives the same id, however many ids were handed out in
\* between: drivers resolve every listed file again on each scan, and diff
\* the result by id.
SameAnswer ==
  \A a, b \in answers : a.name = b.name /\ a.unique = b.unique => a.id = b.id

\* No source shadows a route of the server.
NoneReserved == \A a \in answers : a.id \notin Reserved

\* An id means one source, keeps meaning it, and shadows no route.
IdsRight == OneOwner /\ SameAnswer /\ NoneReserved

\* What the three follow from: every answer given is still the first fitting
\* candidate of its call, and owned by its unique name.
Remembered ==
  \A a \in answers : \E i \in Indices :
    /\ a.id = Candidate(a.name, i)
    /\ a.id \in DOMAIN names
    /\ First(a.name, a.unique, i)
=============================================================================
