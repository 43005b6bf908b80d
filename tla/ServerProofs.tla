----------------------------- MODULE ServerProofs -----------------------------
(***************************************************************************)
(* Theorems about the parts of the server composed in MCServer: its ids     *)
(* (IdResolver), the directory cache of PMTiles (PmtilesCache), the         *)
(* passthrough source (Upstream), its tile responses (TileResponse) and the *)
(* files it serves (Cog, MbtilesSource), for any names, archives, clients,  *)
(* templates, answers, sources, headers, images and files.                  *)
(***************************************************************************)
EXTENDS MCServer, FiniteSetTheorems, SequenceTheorems, WellFoundedInduction, TLAPS

-----------------------------------------------------------------------------
(* IdResolver.  The argument is one strengthening, Remembered: ownership    *)
(* only grows, so the first candidate that fitted a call keeps fitting it,  *)
(* and those before it, owned by others or reserved, never do.              *)

\* A call that finds an id leaves every owner as it was.
LEMMA Growth ==
  ASSUME NEW c \in DOMAIN names, NEW id, NEW unique,
         id \in DOMAIN names => names[id] = unique
  PROVE  /\ c \in DOMAIN Owned(id, unique)
         /\ Owned(id, unique)[c] = names[c]
  BY DEF Owned

\* The first candidate to fit is itself owned once it was handed out, and
\* no earlier candidate comes to fit.
LEMMA FirstStays ==
  ASSUME NEW n \in Names, NEW u \in Uniques, NEW i \in Indices,
         First(n, u, i), Candidate(n, i) \in DOMAIN names,
         NEW id, NEW unique, id \in DOMAIN names => names[id] = unique,
         names' = Owned(id, unique)
  PROVE  First(n, u, i)' /\ (Candidate(n, i) \in DOMAIN names)'
<1>1. Candidate(n, i)' = Candidate(n, i)
  BY DEF Candidate
<1>2. Fits(n, u, i)'
  BY Growth, <1>1 DEF First, Fits
<1>3. ASSUME NEW j \in 0..(i - 1)
      PROVE  ~Fits(n, u, j)'
  <2>1. ~Fits(n, u, j)
    BY DEF First
  <2>2. Candidate(n, j)' = Candidate(n, j)
    BY DEF Candidate
  <2>3. CASE j = 0 /\ Sanitised[n] \in Reserved
    BY <2>3 DEF Fits
  <2>4. CASE Candidate(n, j) \in DOMAIN names /\ names[Candidate(n, j)] # u
    BY <2>2, <2>4, Growth DEF Fits
  <2> QED BY <2>1, <2>3, <2>4 DEF Fits
<1>4. (Candidate(n, i) \in DOMAIN names)'
  BY <1>1, Growth
<1> QED BY <1>2, <1>3, <1>4 DEF First

IdInv == TypeOK /\ Remembered

LEMMA IdInit == Init => IdInv
BY DEF Init, IdInv, TypeOK, Remembered

LEMMA TypeStep ==
  ASSUME TypeOK, [Next]_vars
  PROVE  TypeOK'
<1> USE DEF TypeOK
<1>1. ASSUME NEW name \in Names, NEW unique \in Uniques, Resolve(name, unique)
      PROVE  TypeOK'
  <2>1. PICK i \in Indices :
          /\ names' = Owned(Candidate(name, i), unique)
          /\ answers' = answers \cup
               {[name |-> name, unique |-> unique, id |-> Candidate(name, i)]}
    BY <1>1 DEF Resolve
  <2>2. Candidate(name, i) \in Candidates
    BY DEF Candidates
  <2>3. answers' \subseteq Answer
    BY <2>1, <2>2 DEF Answer
  <2>4. DOMAIN names' \subseteq Candidates /\ names' \in [DOMAIN names' -> Uniques]
    BY <2>1, <2>2 DEF Owned
  <2> QED BY <1>1, <2>3, <2>4 DEF Resolve, Answer, Candidates, Candidate
<1>2. ASSUME NEW name \in Names, NEW unique \in Uniques, Overflow(name, unique)
      PROVE  TypeOK'
  BY <1>2 DEF Overflow, Answer, Candidates, Candidate
<1>3. CASE UNCHANGED vars
  BY <1>3 DEF vars, Answer, Candidates, Candidate
<1> QED BY <1>1, <1>2, <1>3 DEF Next

LEMMA RememberedStep ==
  ASSUME IdInv, [Next]_vars
  PROVE  Remembered'
<1>1. ASSUME NEW name \in Names, NEW unique \in Uniques, Resolve(name, unique)
      PROVE  Remembered'
  <2>1. PICK k \in Indices :
          /\ First(name, unique, k)
          /\ names' = Owned(Candidate(name, k), unique)
          /\ answers' = answers \cup
               {[name |-> name, unique |-> unique, id |-> Candidate(name, k)]}
    BY <1>1 DEF Resolve
  <2>2. Candidate(name, k) \in DOMAIN names => names[Candidate(name, k)] = unique
    BY <2>1 DEF First, Fits
  <2>3. ASSUME NEW a \in answers
        PROVE  \E i \in Indices : /\ a.id = Candidate(a.name, i)
                                  /\ a.id \in DOMAIN names'
                                  /\ First(a.name, a.unique, i)'
    <3>1. PICK i \in Indices : /\ a.id = Candidate(a.name, i)
                               /\ a.id \in DOMAIN names
                               /\ First(a.name, a.unique, i)
      BY DEF IdInv, Remembered
    <3>2. a.name \in Names /\ a.unique \in Uniques
      BY DEF IdInv, TypeOK, Answer
    <3>3. First(a.name, a.unique, i)' /\ (Candidate(a.name, i) \in DOMAIN names)'
      BY <2>1, <2>2, <3>1, <3>2, FirstStays
    <3> QED BY <3>1, <3>3 DEF Candidate
  <2>4. First(name, unique, k)' /\ Candidate(name, k) \in DOMAIN names'
    <3>1. Candidate(name, k) \in DOMAIN names'
      BY <2>1 DEF Owned
    <3>2. Fits(name, unique, k)'
      BY <2>1 DEF First, Fits, Owned, Candidate
    <3>3. ASSUME NEW j \in 0..(k - 1)
          PROVE  ~Fits(name, unique, j)'
      <4>1. ~Fits(name, unique, j)
        BY <2>1 DEF First
      <4>2. Candidate(name, j)' = Candidate(name, j)
        BY DEF Candidate
      <4>3. CASE j = 0 /\ Sanitised[name] \in Reserved
        BY <4>3 DEF Fits
      <4>4. CASE Candidate(name, j) \in DOMAIN names /\ names[Candidate(name, j)] # unique
        <5>1. Candidate(name, j) \in DOMAIN names'
              /\ names'[Candidate(name, j)] = names[Candidate(name, j)]
          BY <2>1, <2>2, <4>4, Growth
        <5> QED BY <4>2, <4>4, <5>1 DEF Fits
      <4> QED BY <4>1, <4>3, <4>4 DEF Fits
    <3> QED BY <3>1, <3>2, <3>3 DEF First
  <2>5. ASSUME NEW a \in answers'
        PROVE  \E i \in Indices : /\ a.id = Candidate(a.name, i)
                                  /\ a.id \in DOMAIN names'
                                  /\ First(a.name, a.unique, i)'
    <3>1. CASE a \in answers
      BY <2>3, <3>1
    <3>2. CASE a = [name |-> name, unique |-> unique, id |-> Candidate(name, k)]
      BY <2>4, <3>2
    <3> QED BY <2>1, <3>1, <3>2
  <2> QED BY <2>5 DEF Remembered, Candidate
<1>2. ASSUME NEW name \in Names, NEW unique \in Uniques, Overflow(name, unique)
      PROVE  Remembered'
  BY <1>2 DEF Overflow, IdInv, Remembered, First, Fits, Candidate
<1>3. CASE UNCHANGED vars
  BY <1>3 DEF vars, IdInv, Remembered, First, Fits, Candidate
<1> QED BY <1>1, <1>2, <1>3 DEF Next

\* The strengthening holds in every reachable state.
THEOREM AllRemembered == Spec => []IdInv
<1>1. IdInv /\ [Next]_vars => IdInv'
  BY TypeStep, RememberedStep DEF IdInv
<1> QED BY IdInit, <1>1, PTL DEF Spec

\* The state of the resolver keeps its type (IdResolver::resolve).
THEOREM TypeCorrect == Spec => []TypeOK
<1>1. IdInv => TypeOK
  BY DEF IdInv
<1> QED BY AllRemembered, <1>1, PTL

\* Ids are unique: an id has one owner, and an answer is owned by its caller.
THEOREM UniqueIds == Spec => []OneOwner
<1>1. ASSUME IdInv
      PROVE  OneOwner
  <2>1. ASSUME NEW a \in answers
        PROVE  names[a.id] = a.unique
    BY <1>1 DEF IdInv, Remembered, First, Fits
  <2> QED BY <2>1 DEF OneOwner
<1> QED BY AllRemembered, <1>1, PTL

\* The same question has one answer: two candidates that are both the first
\* to fit are the same.
THEOREM StableIds == Spec => []SameAnswer
<1>1. ASSUME IdInv
      PROVE  SameAnswer
  <2>1. SUFFICES ASSUME NEW a \in answers, NEW b \in answers,
                        a.name = b.name, a.unique = b.unique
                 PROVE  a.id = b.id
    BY DEF SameAnswer
  <2>2. PICK i \in Indices : /\ a.id = Candidate(a.name, i)
                             /\ First(a.name, a.unique, i)
    BY <1>1 DEF IdInv, Remembered
  <2>3. PICK j \in Indices : /\ b.id = Candidate(b.name, j)
                             /\ First(b.name, b.unique, j)
    BY <1>1 DEF IdInv, Remembered
  <2>4. i \in Nat /\ j \in Nat
    BY IndexAssumption DEF Indices
  <2>5. ~(i < j) /\ ~(j < i)
    BY <2>1, <2>2, <2>3, <2>4 DEF First
  <2>6. i = j
    BY <2>4, <2>5
  <2> QED BY <2>1, <2>2, <2>3, <2>6
<1> QED BY AllRemembered, <1>1, PTL

\* No id is reserved, as long as no reserved id ends in a dot number.
THEOREM NoReservedIds == Spec => []NoneReserved
<1>1. ASSUME IdInv
      PROVE  NoneReserved
  <2>1. SUFFICES ASSUME NEW a \in answers
                 PROVE  a.id \notin Reserved
    BY DEF NoneReserved
  <2>2. PICK i \in Indices : /\ a.id = Candidate(a.name, i)
                             /\ First(a.name, a.unique, i)
    BY <1>1 DEF IdInv, Remembered
  <2>3. a.name \in Names
    BY <1>1 DEF IdInv, TypeOK, Answer
  <2>4. CASE i = 0
    BY <2>2, <2>4 DEF First, Fits, Candidate
  <2>5. CASE i # 0
    <3>1. i \in 1..MaxIndex
      BY <2>5, IndexAssumption DEF Indices
    <3> QED BY <2>2, <2>3, <2>5, <3>1, ReservedAssumption DEF Candidate
  <2> QED BY <2>4, <2>5
<1> QED BY AllRemembered, <1>1, PTL

\* All three together: an id stands for one source, for good, and for no route.
THEOREM IdsAreRight == Spec => []IdsRight
<1>1. OneOwner /\ SameAnswer /\ NoneReserved => IdsRight
  BY DEF IdsRight
<1> QED BY UniqueIds, StableIds, NoReservedIds, <1>1, PTL

-----------------------------------------------------------------------------
(* PmtilesCache, with its variables called as they are called there.        *)

version == v1
reader == v2
nextId == v3
cache == v4
fetching == v5
request == v6

USE DEF version, reader, nextId, cache, fetching, request, P!vars

Reader == [id : Nat, version : Nat]

Request ==
  [at : {"new", "lookup", "fetch", "data", "modified", "error", "done"},
   archive : Archives, reader : Reader, offset : Offsets \cup {0},
   directory : {P!Nothing} \cup (Archives \X Nat), sent : {P!Nothing} \cup (Archives \X Nat)]

CacheTypes ==
  /\ version \in [Archives -> Nat]
  /\ reader \in [Archives -> Reader]
  /\ nextId \in Nat
  /\ DOMAIN cache \subseteq Nat \X (Offsets \cup {0})
  /\ \A k \in DOMAIN cache : cache[k] \in Archives \X Nat
  /\ request \in [Clients -> Request]

\* What an id stands for: the archive, and the version of it the reader opened.
OfReader(a) == <<a, reader[a].version>>
OfRequest(r) == <<request[r].archive, request[r].reader.version>>
Asking(r) == request[r].at # "new"

\* An id stands for one version of one archive, wherever it is still used: by the
\* reader that is served, by a request that began with an older one, or in the
\* cache.
OneMeaning ==
  /\ \A a \in Archives : reader[a].id < nextId
  /\ \A r \in Clients : Asking(r) => request[r].reader.id < nextId
  /\ \A k \in DOMAIN cache : k[1] < nextId
  /\ \A a, b \in Archives : reader[a].id = reader[b].id => a = b
  /\ \A a \in Archives, r \in Clients :
       Asking(r) /\ reader[a].id = request[r].reader.id => OfReader(a) = OfRequest(r)
  /\ \A q, r \in Clients :
       Asking(q) /\ Asking(r) /\ request[q].reader.id = request[r].reader.id
         => OfRequest(q) = OfRequest(r)
  /\ \A a \in Archives, k \in DOMAIN cache : reader[a].id = k[1] => cache[k] = OfReader(a)
  /\ \A r \in Clients, k \in DOMAIN cache :
       Asking(r) /\ request[r].reader.id = k[1] => cache[k] = OfRequest(r)
  /\ \A j, k \in DOMAIN cache : j[1] = k[1] => cache[j] = cache[k]

\* A request that goes for the data has a directory of its reader's version.
OwnDirectory ==
  \A r \in Clients :
    /\ request[r].at = "data" => request[r].directory = OfRequest(r)
    /\ request[r].at # "done" => request[r].sent = P!Nothing
    /\ request[r].sent # P!Nothing => request[r].directory = request[r].sent

CacheInv == CacheTypes /\ OneMeaning /\ OwnDirectory

\* The steps that leave the archives, the readers and the meaning of ids alone.
LEMMA GoesKeeps ==
  ASSUME CacheTypes, NEW r \in Clients, NEW at \in {"data", "fetch", "error", "done"},
         NEW directory \in {P!Nothing} \cup (Archives \X Nat), P!Goes(r, at, directory)
  PROVE  /\ request' \in [Clients -> Request]
         /\ \A q \in Clients : q # r => request'[q] = request[q]
         /\ request'[r].at = at /\ request'[r].directory = directory
         /\ request'[r].archive = request[r].archive
         /\ request'[r].reader = request[r].reader
         /\ request'[r].sent = request[r].sent
<1>1. request[r] \in Request
  BY DEF CacheTypes
<1>2. [request[r] EXCEPT !.at = at, !.directory = directory] \in Request
  BY <1>1 DEF Request
<1>3. request' = [request EXCEPT ![r] = [request[r] EXCEPT !.at = at, !.directory = directory]]
  BY DEF P!Goes
<1> QED BY <1>1, <1>2, <1>3 DEF CacheTypes, Request

LEMMA CacheInit ==
  ASSUME P!Init
  PROVE  CacheInv
<1>1. Cardinality(Archives) \in Nat
  BY FS_CardinalityType, ArchivesAssumption
<1>2. (CHOOSE a \in Archives : TRUE) \in Archives
  BY ArchivesAssumption
<1>3. PICK ids \in [Archives -> 1..Cardinality(Archives)] :
        /\ \A a, b \in Archives : ids[a] = ids[b] => a = b
        /\ reader = [a \in Archives |-> [id |-> ids[a], version |-> 1]]
  BY DEF P!Init, P!Cardinality, Cardinality
<1>7. nextId = Cardinality(Archives) + 1
  BY DEF P!Init, P!Cardinality, Cardinality
<1>4. CacheTypes
  <2>1. version \in [Archives -> Nat] /\ reader \in [Archives -> Reader] /\ nextId \in Nat
    BY <1>1, <1>3, <1>7 DEF P!Init, Reader
  <2>2. request \in [Clients -> Request]
    BY <1>2 DEF P!Init, Reader, Request
  <2> QED BY <2>1, <2>2 DEF P!Init, CacheTypes
<1>5. \A r \in Clients : ~Asking(r) /\ request[r].sent = P!Nothing /\ request[r].at = "new"
  BY DEF P!Init, Asking
<1>6. DOMAIN cache = {}
  BY DEF P!Init
<1>8. OneMeaning
  BY <1>1, <1>3, <1>5, <1>6, <1>7 DEF OneMeaning
<1>9. OwnDirectory
  BY <1>5 DEF OwnDirectory
<1> QED BY <1>4, <1>8, <1>9 DEF CacheInv

LEMMA CacheStep == CacheInv /\ [P!Next]_P!vars => CacheInv'
<1> SUFFICES ASSUME CacheInv, [P!Next]_P!vars PROVE CacheInv'
  OBVIOUS
<1>t. CacheTypes /\ OneMeaning /\ OwnDirectory
  BY DEF CacheInv
<1>r. \A r \in Clients : /\ request[r] \in Request /\ request[r].archive \in Archives
                          /\ request[r].reader \in Reader
                          /\ OfRequest(r) \in Archives \X Nat
  BY <1>t DEF CacheTypes, Request, Reader, OfRequest
<1>1. ASSUME NEW r \in Clients, NEW a \in Archives, NEW offset \in Offsets, P!Start(r, a, offset)
      PROVE  CacheInv'
  <2>1. /\ request'[r] = [at |-> "lookup", archive |-> a, reader |-> reader[a],
                          offset |-> offset, directory |-> P!Nothing, sent |-> P!Nothing]
        /\ \A q \in Clients : q # r => request'[q] = request[q]
        /\ UNCHANGED <<version, reader, nextId, cache>>
    BY <1>1, <1>t DEF P!Start, CacheTypes
  <2>2. CacheTypes'
    BY <1>1, <1>t DEF P!Start, CacheTypes, Request
  <2>3. OneMeaning'
    BY <1>t, <2>1 DEF OneMeaning, OfReader, OfRequest, Asking
  <2>4. OwnDirectory'
    BY <1>t, <2>1 DEF OwnDirectory, OfRequest
  <2> QED BY <2>2, <2>3, <2>4 DEF CacheInv
\* A request goes on without a change of the cache.
<1>2. ASSUME NEW r \in Clients, NEW at \in {"data", "fetch", "error", "done"},
             NEW directory \in {P!Nothing} \cup (Archives \X Nat),
             P!Goes(r, at, directory), UNCHANGED <<version, reader, nextId, cache>>,
             request[r].at \notin {"new", "done"},
             at = "data" => directory = OfRequest(r)
      PROVE  CacheInv'
  <2>1. /\ request' \in [Clients -> Request]
        /\ \A q \in Clients : q # r => request'[q] = request[q]
        /\ request'[r].at = at /\ request'[r].directory = directory
        /\ request'[r].archive = request[r].archive
        /\ request'[r].reader = request[r].reader
        /\ request'[r].sent = request[r].sent
    BY <1>2, <1>t, GoesKeeps
  <2>2. CacheTypes'
    BY <1>2, <1>t, <2>1 DEF CacheTypes
  <2>3. OneMeaning'
    BY <1>2, <1>t, <2>1 DEF OneMeaning, OfReader, OfRequest, Asking
  <2>4. OwnDirectory'
    BY <1>2, <1>t, <2>1 DEF OwnDirectory, OfRequest
  <2> QED BY <2>2, <2>3, <2>4 DEF CacheInv
<1>3. ASSUME NEW r \in Clients, P!Lookup(r) PROVE CacheInv'
  <2>1. CASE P!Key(r) \in DOMAIN cache
    <3>1. cache[P!Key(r)] = OfRequest(r)
      BY <1>3, <1>t, <2>1 DEF P!Lookup, P!At, OneMeaning, Asking, P!Key
    <3> QED BY <1>2, <1>3, <1>r, <2>1, <3>1 DEF P!Lookup, P!At
  <2>2. CASE P!Key(r) \notin DOMAIN cache
    BY <1>2, <1>3, <2>2 DEF P!Lookup, P!At
  <2> QED BY <2>1, <2>2
<1>4. ASSUME NEW r \in Clients, P!Fetch(r) PROVE CacheInv'
  <2>1. CASE ~P!Current(r)
    BY <1>2, <1>4, <2>1 DEF P!Fetch, P!At
  <2>2. CASE P!Current(r)
    <3> DEFINE directory == <<request[r].archive, version[request[r].archive]>>
    <3>1. directory = OfRequest(r) /\ directory \in Archives \X Nat
      BY <1>r, <2>2 DEF P!Current, OfRequest
    <3>2. P!Goes(r, "data", directory) /\ request[r].at = "fetch"
      BY <1>4, <2>2 DEF P!Fetch, P!At
    <3>3. /\ request' \in [Clients -> Request]
          /\ \A q \in Clients : q # r => request'[q] = request[q]
          /\ request'[r].at = "data" /\ request'[r].directory = directory
          /\ request'[r].archive = request[r].archive
          /\ request'[r].reader = request[r].reader
          /\ request'[r].sent = request[r].sent
      BY <1>t, <3>1, <3>2, GoesKeeps
    <3>4. /\ DOMAIN cache' = DOMAIN cache \cup {P!Key(r)}
          /\ cache'[P!Key(r)] = directory
          /\ \A k \in DOMAIN cache : k # P!Key(r) => cache'[k] = cache[k]
          /\ UNCHANGED <<version, reader, nextId>>
      BY <1>4, <2>2 DEF P!Fetch
    <3>5. /\ P!Key(r) \in Nat \X (Offsets \cup {0}) /\ P!Key(r)[1] = request[r].reader.id
          /\ Asking(r)
      BY <1>r, <3>2 DEF P!Key, Request, Reader, Asking
    <3>6. CacheTypes'
      BY <1>t, <3>1, <3>3, <3>4, <3>5 DEF CacheTypes
    <3>7. \A q \in Clients : /\ request'[q].archive = request[q].archive
                             /\ request'[q].reader = request[q].reader
                             /\ request'[q].at # "new" <=> request[q].at # "new"
      BY <3>2, <3>3
    <3>8. \A k \in DOMAIN cache' : k = P!Key(r) \/ (k \in DOMAIN cache /\ cache'[k] = cache[k])
      BY <3>4
    <3>9. OneMeaning'
      BY <1>t, <3>1, <3>4, <3>5, <3>7, <3>8 DEF OneMeaning, OfReader, OfRequest, Asking
    <3>10. OwnDirectory'
      BY <1>t, <3>1, <3>2, <3>3, <3>7 DEF OwnDirectory, OfRequest
    <3> QED BY <3>6, <3>9, <3>10 DEF CacheInv
  <2> QED BY <2>1, <2>2
<1>5. ASSUME NEW r \in Clients, P!Drop(r) \/ P!Fail(r) PROVE CacheInv'
  BY <1>2, <1>5 DEF P!Drop, P!Fail, P!At
<1>6. ASSUME NEW r \in Clients, P!ReadData(r) PROVE CacheInv'
  <2>1. /\ request[r].at = "data" /\ UNCHANGED <<version, reader, nextId, cache>>
        /\ \A q \in Clients : q # r => request'[q] = request[q]
    BY <1>6, <1>t DEF P!ReadData, P!At, CacheTypes
  <2>2. /\ request'[r] \in Request
        /\ request'[r].archive = request[r].archive
        /\ request'[r].reader = request[r].reader
        /\ request'[r].directory = request[r].directory
        /\ \/ request'[r].at = "done" /\ request'[r].sent = OfRequest(r)
           \/ request'[r].at = "modified" /\ request'[r].sent = request[r].sent
    <3>1. CASE P!Current(r)
      <4>1. request'[r] = [request[r] EXCEPT !.at = "done",
              !.sent = <<request[r].archive, version[request[r].archive]>>]
        BY <1>6, <1>t, <3>1 DEF P!ReadData, CacheTypes
      <4>2. <<request[r].archive, version[request[r].archive]>> = OfRequest(r)
        BY <3>1 DEF P!Current, OfRequest
      <4> QED BY <1>r, <4>1, <4>2, ZenonT(60) DEF Request
    <3>2. CASE ~P!Current(r)
      <4>1. request'[r] = [request[r] EXCEPT !.at = "modified"]
        BY <1>6, <1>t, <3>2 DEF P!ReadData, CacheTypes
      <4> QED BY <1>r, <4>1 DEF Request
    <3> QED BY <3>1, <3>2
  <2>3. CacheTypes'
    BY <1>6, <1>t, <2>1, <2>2 DEF P!ReadData, CacheTypes
  <2>4. OneMeaning'
    BY <1>t, <2>1, <2>2 DEF OneMeaning, OfReader, OfRequest, Asking
  <2>5. OwnDirectory'
    BY <1>t, <2>1, <2>2 DEF OwnDirectory, OfRequest
  <2> QED BY <2>3, <2>4, <2>5 DEF CacheInv
<1>7. ASSUME NEW r \in Clients, P!Reload(r) PROVE CacheInv'
  <2> DEFINE a == request[r].archive
  <2>0. a \in Archives
    BY <1>r
  <2>1. /\ P!Goes(r, "done", P!Nothing) /\ request[r].at = "modified"
        /\ reader'[a] = [id |-> nextId, version |-> version[a]]
        /\ \A b \in Archives \ {a} : reader'[b] = reader[b]
        /\ nextId' = nextId + 1 /\ UNCHANGED <<version, cache>>
        /\ reader' \in [Archives -> Reader]
    BY <1>7, <1>t, <2>0 DEF P!Reload, P!At, P!ForkedId, CacheTypes, Reader
  <2>2. /\ request' \in [Clients -> Request]
        /\ \A q \in Clients : q # r => request'[q] = request[q]
        /\ request'[r].at = "done" /\ request'[r].directory = P!Nothing
        /\ request'[r].archive = request[r].archive
        /\ request'[r].reader = request[r].reader
        /\ request'[r].sent = request[r].sent
    BY <1>t, <2>1, GoesKeeps
  <2>3. CacheTypes'
    BY <1>t, <2>1, <2>2 DEF CacheTypes
  <2>4. \A q \in Clients : /\ request'[q].archive = request[q].archive
                           /\ request'[q].reader = request[q].reader
                           /\ request'[q].at # "new" <=> request[q].at # "new"
    BY <2>1, <2>2
  <2>5. /\ \A b \in Archives : reader[b].id \in Nat
        /\ \A q \in Clients : request[q].reader.id \in Nat
        /\ \A k \in DOMAIN cache : k[1] \in Nat
        /\ nextId \in Nat
    BY <1>t, <1>r DEF CacheTypes, Reader
  <2>6. OneMeaning'
    BY <1>t, <2>0, <2>1, <2>4, <2>5 DEF OneMeaning, OfReader, OfRequest, Asking
  <2>7. OwnDirectory'
    BY <1>t, <2>1, <2>2, <2>4 DEF OwnDirectory, OfRequest
  <2> QED BY <2>3, <2>6, <2>7 DEF CacheInv
<1>8. ASSUME NEW a \in Archives, P!Publish(a) PROVE CacheInv'
  <2>1. CacheTypes'
    BY <1>8, <1>t DEF P!Publish, CacheTypes
  <2> QED BY <1>8, <1>t, <2>1
          DEF P!Publish, CacheInv, OneMeaning, OwnDirectory, OfReader, OfRequest, Asking
<1>9. ASSUME NEW k \in DOMAIN cache, P!Evict(k) PROVE CacheInv'
  <2>1. /\ DOMAIN cache' \subseteq DOMAIN cache
        /\ \A j \in DOMAIN cache' : cache'[j] = cache[j]
        /\ UNCHANGED <<version, reader, nextId, request>>
    BY <1>9 DEF P!Evict
  <2>2. CacheTypes'
    BY <1>t, <2>1 DEF CacheTypes
  <2> QED BY <1>t, <2>1, <2>2
          DEF CacheInv, OneMeaning, OwnDirectory, OfReader, OfRequest, Asking
<1>10. CASE UNCHANGED P!vars
  BY <1>10, <1>t DEF CacheInv, CacheTypes, OneMeaning, OwnDirectory, OfReader, OfRequest, Asking
<1> QED
  BY <1>1, <1>3, <1>4, <1>5, <1>6, <1>7, <1>8, <1>9, <1>10 DEF P!Next


\* A key is being fetched when one request fetches it.
FetchesAgree ==
  /\ \A k \in fetching : \E r \in Clients : P!At(r, "fetch") /\ P!Key(r) = k
  /\ \A r \in Clients : P!At(r, "fetch") => P!Key(r) \in fetching
  /\ \A q, r \in Clients :
       P!At(q, "fetch") /\ P!At(r, "fetch") /\ P!Key(q) = P!Key(r) => q = r

LEMMA FetchesStep ==
  ASSUME CacheInv, FetchesAgree, [P!Next]_P!vars
  PROVE  FetchesAgree'
<1>t. CacheTypes
  BY DEF CacheInv
\* The steps that leave what is being fetched alone, and who fetches.
<1>1. ASSUME NEW r \in Clients, UNCHANGED fetching,
             request' \in [Clients -> Request], \A q \in Clients : q # r => request'[q] = request[q],
             request[r].at # "fetch", request'[r].at # "fetch"
      PROVE  FetchesAgree'
  BY <1>1 DEF FetchesAgree, P!At, P!Key
\* A request goes on with the reader and the directory it asked for.
<1>2. ASSUME NEW r \in Clients, NEW at \in {"data", "fetch", "error", "done"},
             NEW directory \in {P!Nothing} \cup (Archives \X Nat), P!Goes(r, at, directory)
      PROVE  /\ request' \in [Clients -> Request]
             /\ \A q \in Clients : q # r => request'[q] = request[q]
             /\ request'[r].at = at
             /\ P!Key(r)' = P!Key(r)
  <2>1. request' = [request EXCEPT ![r] = [request[r] EXCEPT !.at = at, !.directory = directory]]
    BY <1>2 DEF P!Goes
  <2>2. request[r] \in Request
    BY <1>t DEF CacheTypes
  <2> QED BY <1>2, <1>t, <2>1, <2>2, GoesKeeps DEF P!Key, Request, CacheTypes
<1>3. ASSUME NEW r \in Clients, NEW a \in Archives, NEW offset \in Offsets, P!Start(r, a, offset)
      PROVE  FetchesAgree'
  <2>1. /\ request' \in [Clients -> Request] /\ UNCHANGED fetching
        /\ \A q \in Clients : q # r => request'[q] = request[q]
        /\ request[r].at \in {"new", "done"} /\ request'[r].at = "lookup"
    BY <1>3, <1>t DEF P!Start, CacheTypes, Request
  <2> QED BY <1>1, <2>1
<1>4. ASSUME NEW r \in Clients, P!Lookup(r) PROVE FetchesAgree'
  <2>1. CASE P!Key(r) \in DOMAIN cache
    <3>1. cache[P!Key(r)] \in Archives \X Nat
      BY <1>t, <2>1 DEF CacheTypes
    <3>2. UNCHANGED fetching /\ P!Goes(r, "data", cache[P!Key(r)]) /\ request[r].at = "lookup"
      BY <1>4, <2>1 DEF P!Lookup, P!At
    <3> QED BY <1>1, <1>2, <3>1, <3>2
  <2>2. CASE P!Key(r) \notin DOMAIN cache
    <3>1. /\ P!Key(r) \notin fetching /\ fetching' = fetching \cup {P!Key(r)}
          /\ P!Goes(r, "fetch", P!Nothing)
      BY <1>4, <2>2 DEF P!Lookup
    <3>2. /\ \A q \in Clients : q # r => request'[q] = request[q]
          /\ request'[r].at = "fetch" /\ P!Key(r)' = P!Key(r)
      BY <1>2, <3>1
    <3> QED BY <3>1, <3>2 DEF FetchesAgree, P!At, P!Key
  <2> QED BY <2>1, <2>2
\* A fetch that ends takes its key with it, and no other was for that key.
<1>5. ASSUME NEW r \in Clients, NEW at \in {"data", "error", "done"}, NEW directory \in {P!Nothing} \cup (Archives \X Nat),
             request[r].at = "fetch", P!Goes(r, at, directory), fetching' = fetching \ {P!Key(r)}
      PROVE  FetchesAgree'
  <2>1. /\ \A q \in Clients : q # r => request'[q] = request[q]
        /\ request'[r].at = at
    BY <1>2, <1>5
  <2> QED BY <1>5, <2>1 DEF FetchesAgree, P!At, P!Key
<1>6. ASSUME NEW r \in Clients, P!Fetch(r) PROVE FetchesAgree'
  <2> DEFINE directory == <<request[r].archive, version[request[r].archive]>>
  <2>1. request[r].at = "fetch" /\ fetching' = fetching \ {P!Key(r)}
    BY <1>6 DEF P!Fetch, P!At
  <2>2. directory \in Archives \X Nat
    BY <1>t DEF CacheTypes, Request
  <2>3. P!Goes(r, "data", directory) \/ P!Goes(r, "error", P!Nothing)
    BY <1>6 DEF P!Fetch
  <2> HIDE DEF directory
  <2> QED BY <1>5, <2>1, <2>2, <2>3
<1>7. ASSUME NEW r \in Clients, P!Drop(r) PROVE FetchesAgree'
  <2>1. P!Goes(r, "done", P!Nothing)
    BY <1>7 DEF P!Drop
  <2>2. CASE request[r].at = "fetch"
    BY <1>5, <1>7, <2>1, <2>2 DEF P!Drop, P!At
  <2>3. CASE request[r].at # "fetch"
    BY <1>1, <1>2, <1>7, <2>1, <2>3 DEF P!Drop, P!At
  <2> QED BY <2>2, <2>3
<1>8. ASSUME NEW r \in Clients, P!Fail(r) \/ P!Reload(r) PROVE FetchesAgree'
  <2>1. P!Goes(r, "done", P!Nothing) /\ UNCHANGED fetching /\ request[r].at \in {"error", "modified"}
    BY <1>8 DEF P!Fail, P!Reload, P!At
  <2> QED BY <1>1, <1>2, <2>1
<1>9. ASSUME NEW r \in Clients, P!ReadData(r) PROVE FetchesAgree'
  <2>1. /\ UNCHANGED fetching /\ request[r].at = "data"
        /\ \A q \in Clients : q # r => request'[q] = request[q]
    BY <1>9, <1>t DEF P!ReadData, P!At, CacheTypes
  <2>2. request'[r].at \in {"done", "modified"}
    <3>1. CASE P!Current(r)
      <4>1. request'[r] = [request[r] EXCEPT !.at = "done",
              !.sent = <<request[r].archive, version[request[r].archive]>>]
        BY <1>9, <1>t, <3>1 DEF P!ReadData, CacheTypes
      <4> QED BY <1>t, <4>1 DEF CacheTypes, Request
    <3>2. CASE ~P!Current(r)
      <4>1. request'[r] = [request[r] EXCEPT !.at = "modified"]
        BY <1>9, <1>t, <3>2 DEF P!ReadData, CacheTypes
      <4> QED BY <1>t, <4>1 DEF CacheTypes, Request
    <3> QED BY <3>1, <3>2
  <2> QED BY <2>1, <2>2 DEF FetchesAgree, P!At, P!Key
<1>10. ASSUME UNCHANGED <<request, fetching>> PROVE FetchesAgree'
  BY <1>10 DEF FetchesAgree, P!At, P!Key
<1> QED
  BY <1>3, <1>4, <1>6, <1>7, <1>8, <1>9, <1>10 DEF P!Next, P!Publish, P!Evict

\* What is sent and what is fetched are as they should be.
LEMMA CacheIsRight ==
  ASSUME CacheInv, FetchesAgree
  PROVE  P!DirectoryOfItsData /\ P!OneFetch
<1>1. P!DirectoryOfItsData
  BY DEF CacheInv, OwnDirectory, P!DirectoryOfItsData
<1>2. ASSUME NEW k \in fetching
      PROVE  Cardinality({r \in Clients : P!At(r, "fetch") /\ P!Key(r) = k}) = 1
  <2>1. PICK r \in Clients : P!At(r, "fetch") /\ P!Key(r) = k
    BY DEF FetchesAgree
  <2>2. {q \in Clients : P!At(q, "fetch") /\ P!Key(q) = k} = {r}
    BY <2>1 DEF FetchesAgree
  <2> QED BY <2>2, FS_Singleton
<1> QED BY <1>1, <1>2 DEF P!OneFetch, P!Cardinality, Cardinality

\* The bytes that are sent were found through a directory of the same version of
\* the same archive, however many readers, reloads and requests share the cache.
THEOREM OwnDirectoryServed == P!Spec => []P!DirectoryOfItsData
<1>1. CacheInv => P!DirectoryOfItsData
  BY DEF CacheInv, OwnDirectory, P!DirectoryOfItsData
<1> QED BY CacheInit, CacheStep, <1>1, PTL DEF P!Spec

-----------------------------------------------------------------------------
(* Upstream: the source is called so there, and what it answered since it    *)
(* was built is here what it fetched.                                        *)

source == v3
fetched == v4

USE DEF source, fetched, U!vars

\* Every answer is of the template that the source gives its place, and a body is
\* labelled from what was sent with it.
AsSent(a) ==
  /\ a.sent \in Given
  /\ a.url = U!UrlOf(a.place)
  /\ ~a.failed /\ a.body # {} => a.body = a.sent.body /\ a.info = U!Label(a.sent)

UpstreamInv ==
  /\ fetched \in Seq({fetched[i] : i \in DOMAIN fetched})
  /\ \A i \in DOMAIN fetched : AsSent(fetched[i])
  /\ source.state = "none" => fetched = <<>>
  /\ U!StandsOnItsTemplates

LEMMA NothingFetched ==
  ASSUME fetched = <<>>, U!StandsOnItsTemplates
  PROVE  UpstreamInv
BY DEF UpstreamInv

LEMMA BuiltStands ==
  /\ U!Built.state # "none"
  /\ U!Built.state = "built" => U!Built.urls # <<>> /\ U!Built.info # {}
<1>1. ASSUME NEW urls, NEW format
      PROVE  /\ U!SourceOf(urls, format).state # "none"
             /\ U!SourceOf(urls, format).state = "built" =>
                  U!SourceOf(urls, format).urls # <<>> /\ U!SourceOf(urls, format).info # {}
  BY DEF U!SourceOf, U!Failed
<1>2. \/ U!Built = U!Failed
      \/ \E urls, format : U!Built = U!SourceOf(urls, format)
  BY DEF U!Built
<1> QED BY <1>1, <1>2 DEF U!Failed

LEMMA UpstreamStep == UpstreamInv /\ [U!Next]_U!vars => UpstreamInv'
<1> SUFFICES ASSUME UpstreamInv, [U!Next]_U!vars PROVE UpstreamInv'
  OBVIOUS
<1>1. CASE U!Build
  <2>1. fetched' = <<>>
    BY <1>1 DEF U!Build, UpstreamInv
  <2>2. U!StandsOnItsTemplates'
    BY <1>1, BuiltStands DEF U!Build, U!StandsOnItsTemplates
  <2> QED BY <2>1, <2>2 DEF UpstreamInv
\* Either the source is the one that stood, or nothing was fetched from it.
<1>2. CASE UNCHANGED <<source, fetched>>
  BY <1>2 DEF UpstreamInv, AsSent, U!UrlOf, U!Label, U!StandsOnItsTemplates
<1>3. CASE U!Reload
  <2>1. CASE U!Built \in {U!Failed, source}
    <3>1. UNCHANGED <<source, fetched>>
      BY <1>3, <2>1 DEF U!Reload
    <3> QED BY <1>2, <3>1
  <2>2. CASE U!Built \notin {U!Failed, source}
    <3>1. fetched' = <<>> /\ source' = U!Built
      BY <1>3, <2>2 DEF U!Reload
    <3>2. U!StandsOnItsTemplates'
      BY <3>1, BuiltStands DEF U!StandsOnItsTemplates
    <3> QED BY <3>1, <3>2 DEF UpstreamInv
  <2> QED BY <2>1, <2>2
<1>4. ASSUME NEW place \in Places, NEW sent \in Given, U!Fetch(place, sent)
      PROVE  UpstreamInv'
  <2> DEFINE a == U!Answer(place, sent)
             Some == {fetched[i] : i \in DOMAIN fetched} \cup {a}
  <2>1. source.state = "built" /\ UNCHANGED source /\ fetched' = Append(fetched, a)
    BY <1>4 DEF U!Fetch, U!Append, Append
  <2>2. AsSent(a)
    BY DEF U!Answer, AsSent
  <2> HIDE DEF a
  <2>3. fetched \in Seq(Some) /\ a \in Some
    BY DEF UpstreamInv
  <2> HIDE DEF Some
  <2>4. /\ fetched' \in Seq(Some) /\ Len(fetched') = Len(fetched) + 1 /\ Len(fetched) \in Nat
        /\ DOMAIN fetched' = 1..Len(fetched) + 1 /\ DOMAIN fetched = 1..Len(fetched)
        /\ \A i \in 1..Len(fetched) : fetched'[i] = fetched[i]
        /\ fetched'[Len(fetched) + 1] = a
    BY <2>1, <2>3, AppendProperties
  <2>5. \A i \in DOMAIN fetched' : AsSent(fetched'[i])
    BY <2>2, <2>4 DEF UpstreamInv
  <2>6. (\A i \in DOMAIN fetched : AsSent(fetched[i]))'
    BY <2>1, <2>5 DEF AsSent, U!UrlOf, U!Label
  <2>7. (fetched \in Seq({fetched[i] : i \in DOMAIN fetched}))'
    BY <2>4
  <2> QED BY <2>1, <2>6, <2>7 DEF UpstreamInv, U!StandsOnItsTemplates
<1> QED
  BY <1>1, <1>2, <1>3, <1>4 DEF U!Next, U!ChangeDocument

\* Whatever an honest server says of a tile, or leaves to its bytes, is its label.
LEMMA UpstreamIsRight ==
  ASSUME UpstreamInv
  PROVE  U!UpstreamPassedOn
<1>1. U!OnePlaceOneUrl
  BY DEF UpstreamInv, AsSent, U!OnePlaceOneUrl
<1>2. ASSUME NEW sent \in Given, NEW b \in sent.body,
             \A t \in sent.type : t = b.kind,
             \/ sent.encoding = {b.packing}
             \/ sent.encoding = {} /\ b.packing = "none",
             sent.type = {} => U!Recognised(b)
      PROVE  U!Tells(U!Label(sent), b)
  <2>1. U!First(sent.body) = b /\ b.packing # "internal"
    BY GivenAssumption DEF U!First
  <2>2. U!Label(sent).format = b.kind
    BY <1>2, <2>1 DEF U!Label, U!First, U!Info, U!Detect, U!Recognised, U!Rasters, U!OfFormat
  <2>3. U!Label(sent).encoding = b.packing
    BY <1>2 DEF U!Label, U!First, U!Info
  <2> QED BY <2>1, <2>2, <2>3 DEF U!Tells, U!Packed
<1>3. U!LabelledAsSent
  BY <1>2 DEF UpstreamInv, AsSent, U!LabelledAsSent
<1> QED BY <1>1, <1>3 DEF UpstreamInv, U!UpstreamPassedOn

\* What is fetched from elsewhere is passed on as what it is: a directory of its
\* data, by one fetch at a time, and another server's tile under the right label.
THEOREM RemotesArePassedOn == AllSpec => []RemotesRight
<1> DEFINE IInv == /\ scene = "pmtiles" => CacheInv /\ FetchesAgree
                   /\ scene = "upstream" => UpstreamInv
<1>1. AllInit => IInv
  <2>1. P!Init => FetchesAgree
    BY DEF P!Init, FetchesAgree, P!At
  <2>2. U!Init => UpstreamInv
    BY NothingFetched DEF U!Init, U!StandsOnItsTemplates, U!NoSource
  <2> QED BY <2>1, <2>2, CacheInit DEF AllInit
<1>2. IInv /\ [AllNext]_allVars => IInv'
  <2> SUFFICES ASSUME IInv, [AllNext]_allVars PROVE IInv'
    OBVIOUS
  <2>1. UNCHANGED scene
    BY DEF AllNext, allVars
  <2>2. scene = "pmtiles" => [P!Next]_P!vars
    BY DEF AllNext, allVars, free
  <2>3. scene = "upstream" => [U!Next]_U!vars
    BY DEF AllNext, allVars, free
  <2> QED BY <2>1, <2>2, <2>3, CacheStep, FetchesStep, UpstreamStep
<1>3. IInv => RemotesRight
  BY CacheIsRight, UpstreamIsRight DEF RemotesRight
<1> HIDE DEF IInv
<1> QED BY <1>1, <1>2, <1>3, PTL DEF AllSpec

-----------------------------------------------------------------------------
(* Induction, recursion, and sequences that are concatenated.               *)

LEMMA LeastOf ==
  ASSUME NEW Some \in SUBSET Nat, Some # {}
  PROVE  \E x \in Some : \A y \in Some : x <= y
<1> DEFINE less == OpToRel(<, Nat)
<1>1. IsWellFoundedOn(less, Nat)
  BY NatLessThanWellFounded
<1>2. \A x, y \in Nat : <<y, x>> \in less <=> y < x
  BY DEF OpToRel
<1> HIDE DEF less
<1>3. \E x \in Some : \A y \in Some : <<y, x>> \notin less
  BY <1>1, WFMin
<1>4. PICK x \in Some : \A y \in Some : <<y, x>> \notin less
  BY <1>3
<1>5. ASSUME NEW y \in Some PROVE x <= y
  <2>1. x \in Nat /\ y \in Nat
    OBVIOUS
  <2>2. ~(y < x)
    BY <1>2, <1>4, <2>1
  <2> QED BY <2>1, <2>2
<1> QED BY <1>5

LEMMA Induction ==
  ASSUME NEW n \in Nat, NEW Hold, 0 \in Hold, \A i \in 1..n : i - 1 \in Hold => i \in Hold
  PROVE  \A i \in 0..n : i \in Hold
<1> DEFINE bad == {i \in 0..n : i \notin Hold}
<1> SUFFICES ASSUME bad # {} PROVE FALSE
  OBVIOUS
<1>1. bad \in SUBSET Nat
  OBVIOUS
<1>2. PICK m \in bad : \A i \in bad : m <= i
  BY <1>1, LeastOf
<1> HIDE DEF bad
<1>3. m \in 0..n /\ m \notin Hold /\ m # 0
  BY <1>2 DEF bad
<1>4. m - 1 \in 0..n /\ m - 1 \notin bad
  BY <1>2, <1>3
<1>5. m - 1 \in Hold
  BY <1>4 DEF bad
<1> QED BY <1>3, <1>5

\* Some function on 0..n that is defined from its value before.
StepsOf(n, Elems) == [1..n -> [Elems -> Elems]]

Stepwise(n, b, step, f) == f[0] = b /\ \A i \in 1..n : f[i] = step[i][f[i - 1]]

LEMMA Recursion ==
  ASSUME NEW n \in Nat, NEW Elems, NEW b \in Elems, NEW step, step \in StepsOf(n, Elems)
  PROVE  \E f \in [0..n -> Elems] : Stepwise(n, b, step, f)
<1> USE DEF StepsOf, Stepwise
<1> DEFINE Upto(m, f) == f[0] = b /\ \A i \in 1..m : f[i] = step[i][f[i - 1]]
           Hold == {m \in 0..n : \E f \in [0..m -> Elems] : Upto(m, f)}
<1>1. 0 \in Hold
  <2> DEFINE f == [i \in 0..0 |-> b]
  <2>1. f \in [0..0 -> Elems] /\ Upto(0, f)
    OBVIOUS
  <2> HIDE DEF f
  <2>2. \E h \in [0..0 -> Elems] : Upto(0, h)
    BY <2>1
  <2>3. 0 \in 0..n
    OBVIOUS
  <2> HIDE DEF Upto
  <2> QED BY <2>2, <2>3
<1>2. ASSUME NEW m \in 1..n, m - 1 \in Hold PROVE m \in Hold
  <2>1. PICK f \in [0..(m - 1) -> Elems] : Upto(m - 1, f)
    BY <1>2
  <2> DEFINE h == [i \in 0..m |-> IF i = m THEN step[m][f[m - 1]] ELSE f[i]]
  <2>2. step[m] \in [Elems -> Elems] /\ f[m - 1] \in Elems
    OBVIOUS
  <2>3. h \in [0..m -> Elems]
    BY <2>2
  <2>4. h[0] = b
    BY <2>1
  <2>5. ASSUME NEW i \in 1..m PROVE h[i] = step[i][h[i - 1]]
    BY <2>1
  <2> HIDE DEF h
  <2>6. Upto(m, h)
    BY <2>4, <2>5
  <2>7. m \in 0..n
    OBVIOUS
  <2> QED BY <2>3, <2>6, <2>7
<1>4. \A m \in 1..n : m - 1 \in Hold => m \in Hold
  BY <1>2
<1> HIDE DEF Hold
<1>3. n \in Hold
  <2>1. \A m \in 0..n : m \in Hold
    BY <1>1, <1>4, Induction
  <2> QED BY <2>1
<1> QED BY <1>3 DEF Hold

LEMMA Concatenation ==
  ASSUME NEW Elems, NEW a \in Seq(Elems), NEW b \in Seq(Elems)
  PROVE  /\ a \o b \in Seq(Elems)
         /\ Len(a \o b) = Len(a) + Len(b)
         /\ \A i \in 1..(Len(a) + Len(b)) :
              (a \o b)[i] = IF i <= Len(a) THEN a[i] ELSE b[i - Len(a)]
BY ConcatProperties

\* f holds what is concatenated of the first sequences, up to all of them.
Flattens(f, seqs) ==
  /\ f[0] = <<>> /\ f[Len(seqs)] = FlattenSeq(seqs)
  /\ \A i \in 1..Len(seqs) : f[i] = f[i - 1] \o seqs[i]

LEMMA Flattening ==
  ASSUME NEW Elems, NEW seqs \in Seq(Seq(Elems))
  PROVE  \E f \in [0..Len(seqs) -> Seq(Elems)] : Flattens(f, seqs)
<1> DEFINE n == Len(seqs)
<1>n. n \in Nat /\ (\A i \in 1..n : seqs[i] \in Seq(Elems)) /\ <<>> \in Seq(Elems)
  OBVIOUS
<1> DEFINE step == [i \in 1..n |-> [x \in Seq(Elems) |-> x \o seqs[i]]]
           Seqs == Seq(Elems)
           empty == <<>>
<1>1. step \in StepsOf(n, Seqs)
  <2>1. ASSUME NEW i \in 1..n, NEW x \in Seq(Elems) PROVE x \o seqs[i] \in Seq(Elems)
    BY <1>n, Concatenation
  <2> QED BY <2>1 DEF StepsOf
<1>2. \A i \in 1..n : \A x \in Seq(Elems) : step[i][x] = x \o seqs[i]
  OBVIOUS
<1>3. n \in Nat /\ empty \in Seqs
  BY <1>n
<1> HIDE DEF n, Seqs, empty, step
<1>4. PICK f \in [0..n -> Seqs] : Stepwise(n, empty, step, f)
  BY <1>1, <1>3, Recursion
<1>5. f[0] = <<>> /\ f \in [0..n -> Seq(Elems)]
  BY <1>4 DEF Stepwise, empty, Seqs
<1>6. \A i \in 1..n : i - 1 \in 0..n /\ f[i] = f[i - 1] \o seqs[i]
  <2> TAKE i \in 1..n
  <2>1. i - 1 \in 0..n
    BY <1>n
  <2>2. f[i - 1] \in Seq(Elems) /\ f[i] = step[i][f[i - 1]]
    BY <1>4, <1>5, <2>1 DEF Stepwise
  <2> QED BY <1>2, <2>1, <2>2
<1>7. f[n] = FlattenSeq(seqs)
  <2>1. CASE n = 0
    <3>1. seqs = <<>> /\ FlattenSeq(seqs) = seqs
      BY <2>1 DEF FlattenSeq, n
    <3> QED BY <1>5, <2>1, <3>1
  <2>2. CASE n # 0
    <3> DEFINE Is(h) == h = [i \in 1..n |-> IF i = 1 THEN seqs[i] ELSE h[i - 1] \o seqs[i]]
               g == [i \in 1..n |-> f[i]]
    <3>1. f[1] = seqs[1]
      <4>1. 1 \in 1..n /\ 1 - 1 = 0 /\ seqs[1] \in Seq(Elems)
        BY <2>2, <1>n
      <4>2. f[1] = <<>> \o seqs[1]
        BY <1>5, <1>6, <4>1
      <4> QED BY <4>1, <4>2, ConcatEmptySeq
    <3>2. Is(g)
      <4>1. ASSUME NEW i \in 1..n PROVE g[i] = IF i = 1 THEN seqs[i] ELSE g[i - 1] \o seqs[i]
        <5>1. CASE i = 1
          BY <3>1, <5>1
        <5>2. CASE i # 1
          <6>1. i - 1 \in 1..n /\ g[i - 1] = f[i - 1] /\ g[i] = f[i]
            BY <1>n, <5>2
          <6> QED BY <1>6, <5>2, <6>1
        <5> QED BY <5>1, <5>2
      <4>2. g = [i \in 1..n |-> g[i]]
        OBVIOUS
      <4> HIDE DEF g
      <4> QED BY <4>1, <4>2
    <3> DEFINE h == CHOOSE h : Is(h)
    <3>3. Is(h)
      <4> HIDE DEF Is, g
      <4> QED BY <3>2
    <3>4. FlattenSeq(seqs) = h[n]
      BY <2>2, Zenon DEF FlattenSeq, n
    <3>5. h[1] = seqs[1] /\ \A i \in 2..n : i - 1 \in 1..n /\ h[i] = h[i - 1] \o seqs[i]
      <4>1. ASSUME NEW i \in 1..n PROVE h[i] = IF i = 1 THEN seqs[i] ELSE h[i - 1] \o seqs[i]
        <5>1. h = [j \in 1..n |-> IF j = 1 THEN seqs[j] ELSE h[j - 1] \o seqs[j]]
          BY <3>3
        <5> HIDE DEF h
        <5> QED BY <5>1
      <4>2. 1 \in 1..n /\ \A i \in 2..n : i \in 1..n /\ i - 1 \in 1..n /\ i # 1
        BY <2>2, <1>n
      <4> HIDE DEF h
      <4> QED BY <4>1, <4>2
    <3> HIDE DEF h, Is
    <3> DEFINE Hold == {i \in 0..n : i = 0 \/ h[i] = f[i]}
    <3>6. ASSUME NEW i \in 1..n, i - 1 \in Hold PROVE i \in Hold
      <4>1. CASE i = 1
        BY <3>1, <3>5, <4>1
      <4>2. CASE i # 1
        <5>1. i \in 2..n /\ i - 1 # 0
          BY <1>n, <4>2
        <5>2. h[i - 1] = f[i - 1]
          BY <3>6, <5>1
        <5>3. h[i] = h[i - 1] \o seqs[i]
          BY <3>5, <5>1
        <5>4. f[i] = f[i - 1] \o seqs[i]
          BY <1>6
        <5>5. h[i] = f[i] /\ i \in 0..n
          BY <1>n, <5>2, <5>3, <5>4
        <5> QED BY <5>5
      <4> QED BY <4>1, <4>2
    <3>7. 0 \in Hold /\ \A i \in 1..n : i - 1 \in Hold => i \in Hold
      BY <1>n, <3>6
    <3>8. n \in Hold
      <4> HIDE DEF Hold
      <4>1. \A i \in 0..n : i \in Hold
        BY <1>n, <3>7, Induction
      <4> QED BY <1>n, <4>1
    <3> QED BY <2>2, <3>4, <3>8
  <2> QED BY <2>1, <2>2
<1>8. Flattens(f, seqs)
  BY <1>5, <1>6, <1>7 DEF Flattens, n
<1> QED BY <1>5, <1>8 DEF n

LEMMA FlatType ==
  ASSUME NEW Elems, NEW seqs \in Seq(Seq(Elems))
  PROVE  FlattenSeq(seqs) \in Seq(Elems)
<1>1. PICK f \in [0..Len(seqs) -> Seq(Elems)] : Flattens(f, seqs)
  BY Flattening
<1> QED BY <1>1 DEF Flattens

\* Of one sequence beside empty ones nothing but that sequence is left.
LEMMA FlatOfOne ==
  ASSUME NEW Elems, NEW seqs \in Seq(Seq(Elems)), NEW k \in 1..Len(seqs),
         \A i \in 1..Len(seqs) : i # k => seqs[i] = <<>>
  PROVE  FlattenSeq(seqs) = seqs[k]
<1> DEFINE n == Len(seqs)
<1>1. n \in Nat /\ k \in 1..n /\ (\A i \in 1..n : i # k => seqs[i] = <<>>) /\ seqs[k] \in Seq(Elems)
  <2>1. n \in Nat /\ k \in 1..n
    OBVIOUS
  <2>2. \A i \in 1..n : i # k => seqs[i] = <<>>
    OBVIOUS
  <2>3. seqs[k] \in Seq(Elems)
    OBVIOUS
  <2> QED BY <2>1, <2>2, <2>3
<1>2. PICK f \in [0..n -> Seq(Elems)] : Flattens(f, seqs)
  BY Flattening
<1>3. /\ f \in [0..n -> Seq(Elems)] /\ f[0] = <<>> /\ f[n] = FlattenSeq(seqs)
      /\ \A i \in 1..n : f[i] = f[i - 1] \o seqs[i]
  BY <1>2 DEF Flattens
<1> HIDE DEF n
<1> DEFINE Hold == {i \in 0..n : f[i] = IF i < k THEN <<>> ELSE seqs[k]}
<1>4. ASSUME NEW i \in 1..n, i - 1 \in Hold PROVE i \in Hold
  <2>1. i - 1 \in 0..n /\ f[i - 1] \in Seq(Elems) /\ f[i] = f[i - 1] \o seqs[i]
    <3>1. i - 1 \in 0..n
      BY <1>1
    <3>2. f[i - 1] \in Seq(Elems)
      BY <1>3, <3>1
    <3> QED BY <1>1, <1>3, <3>1, <3>2
  <2>2. CASE i < k
    <3>1. f[i - 1] = <<>> /\ seqs[i] = <<>>
      BY <1>1, <1>4, <2>2
    <3>2. f[i] = <<>>
      BY <2>1, <3>1
    <3> QED BY <2>2, <3>2
  <2>3. CASE i = k
    <3>1. f[i - 1] = <<>>
      BY <1>1, <1>4, <2>3
    <3>2. f[i] = seqs[k]
      BY <1>1, <2>1, <2>3, <3>1, ConcatEmptySeq
    <3> QED BY <2>3, <3>2
  <2>4. CASE i > k
    <3>1. f[i - 1] = seqs[k] /\ seqs[i] = <<>>
      BY <1>1, <1>4, <2>4
    <3>2. f[i] = seqs[k]
      BY <1>1, <2>1, <3>1, ConcatEmptySeq
    <3> QED BY <1>1, <2>4, <3>2
  <2> QED BY <1>1, <2>2, <2>3, <2>4
<1>5. 0 \in Hold /\ \A i \in 1..n : i - 1 \in Hold => i \in Hold
  <2>1. 0 \in Hold
    <3>1. 0 \in 0..n /\ 0 < k
      BY <1>1
    <3> QED BY <1>3, <3>1
  <2> HIDE DEF Hold
  <2> QED BY <1>4, <2>1
<1>6. n \in Hold
  <2> HIDE DEF Hold
  <2>1. \A i \in 0..n : i \in Hold
    BY <1>1, <1>5, Induction
  <2> QED BY <1>1, <2>1
<1> QED BY <1>1, <1>3, <1>6

\* Sequences of one element each are its elements.
LEMMA FlatOfSingles ==
  ASSUME NEW Elems, NEW seqs \in Seq(Seq(Elems)), \A i \in 1..Len(seqs) : Len(seqs[i]) = 1
  PROVE  /\ Len(FlattenSeq(seqs)) = Len(seqs)
         /\ \A i \in 1..Len(seqs) : FlattenSeq(seqs)[i] = seqs[i][1]
<1> DEFINE n == Len(seqs)
<1>1. n \in Nat /\ \A i \in 1..n : seqs[i] \in Seq(Elems) /\ Len(seqs[i]) = 1
  OBVIOUS
<1>2. PICK f \in [0..n -> Seq(Elems)] : Flattens(f, seqs)
  BY Flattening
<1>3. /\ f \in [0..n -> Seq(Elems)] /\ f[0] = <<>> /\ f[n] = FlattenSeq(seqs)
      /\ \A i \in 1..n : f[i] = f[i - 1] \o seqs[i]
  BY <1>2 DEF Flattens
<1> HIDE DEF n
<1> DEFINE Hold == {i \in 0..n : Len(f[i]) = i /\ \A j \in 1..i : f[i][j] = seqs[j][1]}
<1>4. ASSUME NEW i \in 1..n, i - 1 \in Hold PROVE i \in Hold
  <2>1. i - 1 \in 0..n /\ f[i - 1] \in Seq(Elems) /\ f[i] = f[i - 1] \o seqs[i] /\ seqs[i] \in Seq(Elems)
    <3>1. i - 1 \in 0..n
      BY <1>1
    <3>2. f[i - 1] \in Seq(Elems)
      BY <1>3, <3>1
    <3> QED BY <1>1, <1>3, <3>1, <3>2
  <2>2. Len(f[i - 1]) = i - 1 /\ Len(seqs[i]) = 1 /\ \A j \in 1..(i - 1) : f[i - 1][j] = seqs[j][1]
    BY <1>1, <1>4
  <2>3. /\ Len(f[i]) = Len(f[i - 1]) + Len(seqs[i])
        /\ \A j \in 1..(Len(f[i - 1]) + Len(seqs[i])) :
             f[i][j] = IF j <= Len(f[i - 1]) THEN f[i - 1][j] ELSE seqs[i][j - Len(f[i - 1])]
    <3> DEFINE a == f[i - 1]
               b == seqs[i]
    <3>1. a \in Seq(Elems) /\ b \in Seq(Elems) /\ f[i] = a \o b
      BY <2>1
    <3> HIDE DEF a, b
    <3>2. /\ Len(a \o b) = Len(a) + Len(b)
          /\ \A j \in 1..(Len(a) + Len(b)) :
               (a \o b)[j] = IF j <= Len(a) THEN a[j] ELSE b[j - Len(a)]
      BY <3>1, Concatenation
    <3> QED BY <3>1, <3>2 DEF a, b
  <2>4. Len(f[i]) = i
    BY <1>1, <2>2, <2>3
  <2>5. ASSUME NEW j \in 1..i PROVE f[i][j] = seqs[j][1]
    <3>1. CASE j <= i - 1
      <4>1. j \in 1..(i - 1)
        BY <1>1, <3>1
      <4> QED BY <1>1, <2>2, <2>3, <4>1
    <3>2. CASE j = i
      <4>1. j - (i - 1) = 1 /\ ~(j <= i - 1)
        BY <1>1, <3>2
      <4> QED BY <1>1, <2>2, <2>3, <3>2, <4>1
    <3> QED BY <1>1, <3>1, <3>2
  <2> QED BY <2>4, <2>5
<1>5. 0 \in Hold /\ \A i \in 1..n : i - 1 \in Hold => i \in Hold
  <2>1. 0 \in Hold
    <3>1. Len(f[0]) = 0
      BY <1>3
    <3>2. 0 \in 0..n /\ 1..0 = {}
      BY <1>1
    <3> QED BY <3>1, <3>2
  <2> HIDE DEF Hold
  <2> QED BY <1>4, <2>1
<1>6. n \in Hold
  <2> HIDE DEF Hold
  <2>1. \A i \in 0..n : i \in Hold
    BY <1>1, <1>5, Induction
  <2> QED BY <1>1, <2>1
<1> QED BY <1>1, <1>3, <1>6 DEF n

\* Of finitely many indices one has the greatest value.
LEMMA Greatest ==
  ASSUME NEW n \in Nat, NEW f \in [1..n -> Int], NEW Elems \in SUBSET (1..n), Elems # {}
  PROVE  \E x \in Elems : \A y \in Elems : f[x] >= f[y]
<1> DEFINE Has(Some) == \E x \in Some : \A y \in Some : f[x] >= f[y]
           Hold == {m \in 0..n : \A Some \in SUBSET (1..m) : Some # {} => Has(Some)}
<1>1. ASSUME NEW m \in 1..n, m - 1 \in Hold PROVE m \in Hold
  <2>1. ASSUME NEW Some \in SUBSET (1..m), Some # {} PROVE Has(Some)
    <3>1. CASE Some \ {m} = {}
      <4>1. Some = {m} /\ f[m] \in Int
        BY <2>1, <3>1
      <4> QED BY <4>1
    <3>2. CASE Some \ {m} # {}
      <4>1. Some \ {m} \in SUBSET (1..(m - 1))
        OBVIOUS
      <4>2. PICK x \in Some \ {m} : \A y \in Some \ {m} : f[x] >= f[y]
        BY <1>1, <3>2, <4>1
      <4>3. f[x] \in Int /\ f[m] \in Int /\ \A y \in Some : f[y] \in Int
        OBVIOUS
      <4>4. CASE m \in Some /\ f[m] > f[x]
        <5>1. \A y \in Some : f[m] >= f[y]
          BY <4>2, <4>3, <4>4
        <5> QED BY <4>4, <5>1
      <4>5. CASE m \notin Some \/ f[m] <= f[x]
        <5>1. \A y \in Some : f[x] >= f[y]
          BY <4>2, <4>3, <4>5
        <5> QED BY <5>1
      <4> QED BY <4>3, <4>4, <4>5
    <3> QED BY <3>1, <3>2
  <2> HIDE DEF Has
  <2> QED BY <2>1
<1>2. 0 \in Hold /\ \A m \in 1..n : m - 1 \in Hold => m \in Hold
  <2>1. 1..0 = {} /\ 0 \in 0..n
    OBVIOUS
  <2>2. 0 \in Hold
    BY <2>1
  <2> HIDE DEF Hold
  <2> QED BY <1>1, <2>2
<1>3. n \in Hold
  <2> HIDE DEF Hold
  <2>1. \A m \in 0..n : m \in Hold
    BY <1>2, Induction
  <2> QED BY <2>1
<1> QED BY <1>3

-----------------------------------------------------------------------------
(* TileResponse: its variables under other names here.                      *)

catalog == v1
kept    == v2
stage   == v3
ask     == v4
parts   == v5
merged  == v6
reply   == v7
copy    == v8
asked   == v9

USE DEF catalog, kept, stage, ask, parts, merged, reply, copy, asked

Served == [format : T!Formats, encoding : T!Encodings, empty : BOOLEAN,
           inZoom : BOOLEAN, converts : BOOLEAN]

Targets == T!Formats \cup {T!AnyFormat}

Layer == [source : Sources, format : T!Formats]

Converting(s, target) ==
  /\ ~catalog[s].empty /\ catalog[s].converts
  /\ {target, catalog[s].format} = T!Vector

LayersFor(s, format) ==
  IF catalog[s].empty THEN <<>> ELSE <<[source |-> s, format |-> format]>>

MarkOf(s, format) == IF catalog[s].empty THEN <<Pending, T!AnyFormat>> ELSE <<s, format>>

\* t is what the source s has for a request of the target format.
FromSource(t, s, target) ==
  /\ t \in T!TileType
  /\ t.data.layers = LayersFor(s, t.format)
  /\ t.etag = <<MarkOf(s, t.format)>>
  /\ ~catalog[s].empty => t.data.codec = T!Codec(t.encoding)
  /\ Converting(s, target) =>
       t.format = target /\ t.encoding = IF target = "mlt" THEN "internal" ELSE "none"
  /\ ~Converting(s, target) =>
       t.format = catalog[s].format /\ t.encoding = catalog[s].encoding

Marks == (Sources \cup {Pending}) \X (T!Formats \cup {T!AnyFormat})

\* Fields of a tile.
HasFields(t, layers, codec, format, encoding, etag) ==
  /\ t \in T!TileType
  /\ t.data.layers = layers /\ t.data.codec = codec
  /\ t.format = format /\ t.encoding = encoding /\ t.etag = etag

LEMMA TileFields ==
  ASSUME NEW t, NEW layers \in Seq(Layer), NEW codec \in T!Encodings \cup {"broken"},
         NEW format \in T!Formats, NEW encoding \in T!Encodings, NEW etag \in Seq(Marks),
         t = T!Tile(layers, codec, format, encoding, etag)
  PROVE  HasFields(t, layers, codec, format, encoding, etag)
BY DEF HasFields, T!Tile, T!TileType, Layer, Marks

\* A decoded tile is not encoded, and is readable if it was.
LEMMA DecodedIs ==
  ASSUME NEW t \in T!TileType
  PROVE  /\ T!Decoded(t) \in T!TileType
         /\ T!Decoded(t).data.layers = t.data.layers
         /\ T!Decoded(t).format = t.format /\ T!Decoded(t).etag = t.etag
         /\ T!Decoded(t).encoding = IF t.encoding = "internal" THEN "internal" ELSE "none"
         /\ t.data.codec = T!Codec(t.encoding) =>
              T!Decoded(t).data.codec = "none" /\ T!Codec(T!Decoded(t).encoding) = "none"
<1>t. /\ t.data.layers \in Seq(Layer) /\ t.data.codec \in T!Encodings \cup {"broken"}
      /\ t.format \in T!Formats /\ t.encoding \in T!Encodings /\ t.etag \in Seq(Marks)
      /\ t.data = [layers |-> t.data.layers, codec |-> t.data.codec]
      /\ t = [data |-> t.data, format |-> t.format, encoding |-> t.encoding, etag |-> t.etag]
  BY DEF T!TileType, Layer, Marks
<1>1. CASE t.encoding \in {"none", "internal"}
  <2>1. T!Decoded(t) = t
    BY <1>1 DEF T!Decoded
  <2> QED BY <1>1, <2>1 DEF T!Codec
<1>2. CASE t.encoding \notin {"none", "internal"}
  <2> DEFINE codec == IF t.data.codec = t.encoding THEN "none" ELSE "broken"
             d == T!Tile(t.data.layers, codec, t.format, "none", t.etag)
  <2>1. T!Decoded(t) = d
    BY <1>2, <1>t DEF T!Decoded, T!Tile
  <2>2. codec \in T!Encodings \cup {"broken"} /\ "none" \in T!Encodings
    BY DEF T!Encodings
  <2>3. t.data.codec = T!Codec(t.encoding) => codec = "none"
    BY <1>2 DEF T!Codec
  <2> HIDE DEF codec
  <2>4. HasFields(d, t.data.layers, codec, t.format, "none", t.etag)
    BY <1>t, <2>2, TileFields
  <2>5. T!Codec("none") = "none"
    BY DEF T!Codec
  <2> HIDE DEF d
  <2> QED BY <1>2, <2>1, <2>3, <2>4, <2>5 DEF HasFields
<1> QED BY <1>1, <1>2

LEMMA ProcessedIs ==
  ASSUME catalog \in [Sources -> Served], NEW s \in Sources, NEW target \in Targets
  PROVE  FromSource(T!Processed(s, target), s, target)
<1> DEFINE c == catalog[s]
           stored == T!Stored(s)
           mark == MarkOf(s, c.format)
           none == <<>>
           one == <<[source |-> s, format |-> c.format]>>
<1>1. /\ c \in Served /\ c.format \in T!Formats /\ c.encoding \in T!Encodings
      /\ c.empty \in BOOLEAN /\ c.converts \in BOOLEAN
  BY DEF Served
<1>2. /\ none \in Seq(Layer) /\ one \in Seq(Layer) /\ <<mark>> \in Seq(Marks)
      /\ T!Codec(c.encoding) \in T!Encodings \cup {"broken"} /\ "none" \in T!Encodings \cup {"broken"}
  BY <1>1 DEF Layer, Marks, MarkOf, T!Codec, T!Encodings
<1>3. stored = T!Tile(IF c.empty THEN none ELSE one, IF c.empty THEN "none" ELSE T!Codec(c.encoding),
                      c.format, c.encoding, <<mark>>)
  BY DEF T!Stored, T!Hash, MarkOf
<1> DEFINE layers == IF c.empty THEN none ELSE one
           codec == IF c.empty THEN "none" ELSE T!Codec(c.encoding)
           marks == <<mark>>
<1>i. layers \in Seq(Layer) /\ codec \in T!Encodings \cup {"broken"} /\ marks \in Seq(Marks)
  BY <1>2
<1>j. stored = T!Tile(layers, codec, c.format, c.encoding, marks)
  BY <1>3
<1> HIDE DEF none, one, stored, mark, layers, codec, marks
<1>k. HasFields(stored, layers, codec, c.format, c.encoding, marks)
  BY <1>1, <1>i, <1>j, TileFields
<1>4. /\ stored \in T!TileType /\ stored.data.layers = IF c.empty THEN none ELSE one
      /\ stored.data.codec = IF c.empty THEN "none" ELSE T!Codec(c.encoding)
      /\ stored.format = c.format /\ stored.encoding = c.encoding /\ stored.etag = <<mark>>
  BY <1>k DEF HasFields, layers, codec, marks
<1>5. CASE Converting(s, target)
  <2> DEFINE encoding == IF target = "mlt" THEN "internal" ELSE "none"
             plain == T!Decoded(stored).data.codec
             part == <<[source |-> s, format |-> target]>>
             other == <<s, target>>
             others == <<other>>
  <2>1. ~c.empty /\ target \in T!Formats
    BY <1>5 DEF Converting, T!Vector, T!Formats
  <2>2. T!Processed(s, target) = T!Tile(part, plain, target, encoding, others)
    BY <1>5 DEF T!Processed, Converting, T!Converted, T!Hash, stored
  <2>3. plain = "none"
    BY <1>4, <2>1, DecodedIs
  <2>4. part \in Seq(Layer) /\ others \in Seq(Marks) /\ encoding \in T!Encodings
    BY <2>1 DEF Layer, Marks, T!Encodings
  <2>5. part = LayersFor(s, target) /\ other = MarkOf(s, target)
    BY <2>1 DEF LayersFor, MarkOf
  <2>6. T!Codec(encoding) = "none"
    BY DEF T!Codec
  <2>7. target = "mlt" => encoding = "internal"
    OBVIOUS
  <2>8. target # "mlt" => encoding = "none"
    OBVIOUS
  <2> HIDE DEF part, other, others, plain, encoding
  <2> DEFINE t == T!Processed(s, target)
  <2>9. HasFields(t, part, plain, target, encoding, others)
    BY <1>2, <2>1, <2>2, <2>3, <2>4, TileFields
  <2> HIDE DEF t
  <2>10. FromSource(t, s, target)
    BY <1>5, <2>3, <2>5, <2>6, <2>7, <2>8, <2>9 DEF FromSource, HasFields, others
  <2> QED BY <2>10 DEF t
<1>6. CASE ~Converting(s, target)
  <2>1. T!Processed(s, target) = stored
    BY <1>6 DEF T!Processed, Converting, stored
  <2>2. (IF c.empty THEN none ELSE one) = LayersFor(s, c.format)
    BY DEF LayersFor, none, one
  <2>3. FromSource(stored, s, target)
    BY <1>4, <1>6, <2>2 DEF FromSource, mark
  <2> QED BY <2>1, <2>3
<1> QED BY <1>5, <1>6

\* The greatest and the least of finitely many indices.
LEMMA Extremes ==
  ASSUME NEW n \in Nat, NEW some \in SUBSET (1..n), some # {}
  PROVE  /\ T!Max(some) \in some /\ \A y \in some : T!Max(some) >= y
         /\ T!Min(some) \in some
<1> DEFINE up == [i \in 1..n |-> i]
           down == [i \in 1..n |-> -i]
<1>1. up \in [1..n -> Int] /\ down \in [1..n -> Int]
  OBVIOUS
<1>2. /\ \A i \in some : i \in Int /\ up[i] = i /\ down[i] = -i
  OBVIOUS
<1> HIDE DEF up, down
<1>3. PICK x \in some : \A y \in some : up[x] >= up[y]
  BY <1>1, Greatest
<1>4. PICK z \in some : \A y \in some : down[z] >= down[y]
  BY <1>1, Greatest
<1>5. \A y \in some : x >= y /\ z <= y
  BY <1>2, <1>3, <1>4
<1>6. T!Max(some) \in some /\ \A y \in some : T!Max(some) >= y
  BY <1>5 DEF T!Max
<1>7. T!Min(some) \in some
  BY <1>5 DEF T!Min
<1> QED BY <1>6, <1>7

Headers == Seq([item : STRING, q : Nat])

LEMMA HeaderIs ==
  ASSUME NEW header \in Headers
  PROVE  /\ Len(header) \in Nat /\ DOMAIN header = 1..Len(header)
         /\ \A i \in 1..Len(header) : header[i].q \in Nat
<1> DEFINE H == [item : STRING, q : Nat]
<1>1. header \in Seq(H)
  BY DEF Headers
<1>2. \A h \in H : h.q \in Nat
  OBVIOUS
<1> HIDE DEF H
<1>3. Len(header) \in Nat /\ DOMAIN header = 1..Len(header) /\ \A i \in 1..Len(header) : header[i] \in H
  BY <1>1
<1> QED BY <1>2, <1>3

LEMMA QualityIs ==
  ASSUME NEW header \in Headers, NEW e
  PROVE  T!QualityOf(e, header) \in Int
<1> DEFINE n == Len(header)
           specific == {i \in DOMAIN header : header[i].item = e}
           any == {i \in DOMAIN header : header[i].item = "*"}
<1>1. /\ n \in Nat /\ DOMAIN header = 1..n
      /\ \A i \in 1..n : header[i].q \in Nat
  BY HeaderIs
<1>2. specific \in SUBSET (1..n) /\ any \in SUBSET (1..n)
  BY <1>1
<1>3. T!QualityOf(e, header) =
        CASE specific # {} -> header[T!Max(specific)].q
          [] specific = {} /\ any # {} -> header[T!Min(any)].q
          [] OTHER -> -1
  BY DEF T!QualityOf
<1> HIDE DEF n, specific, any
<1>4. CASE specific # {}
  <2>1. T!Max(specific) \in specific
    BY <1>1, <1>2, <1>4, Extremes
  <2>2. T!QualityOf(e, header) = header[T!Max(specific)].q
    BY <1>3, <1>4
  <2>3. header[T!Max(specific)].q \in Nat
    BY <1>1, <1>2, <2>1
  <2> QED BY <2>2, <2>3
<1>5. CASE specific = {} /\ any # {}
  <2>1. T!Min(any) \in any
    BY <1>1, <1>2, <1>5, Extremes
  <2>2. T!QualityOf(e, header) = header[T!Min(any)].q
    BY <1>3, <1>5
  <2>3. header[T!Min(any)].q \in Nat
    BY <1>1, <1>2, <2>1
  <2> QED BY <2>2, <2>3
<1>6. CASE specific = {} /\ any = {}
  <2>1. T!QualityOf(e, header) = -1
    BY <1>3, <1>6
  <2> QED BY <2>1
<1> QED BY <1>4, <1>5, <1>6

Codings == T!Compressors \cup {"identity", "refused"}

LEMMA NegotiateIs ==
  ASSUME NEW header \in Headers
  PROVE  T!Negotiate(header) \in Codings
<1> DEFINE n == Len(header)
           usable == {i \in DOMAIN header :
                        header[i].item \in T!Compressors \cup {"identity"} /\ header[i].q > 0}
           best == {i \in usable : \A j \in usable : header[i].q >= header[j].q}
           quality == [i \in 1..n |-> header[i].q]
           ident == {header[i].q : i \in {j \in DOMAIN header : header[j].item \in {"identity", "*"}}}
<1>1. n \in Nat /\ DOMAIN header = 1..n /\ \A i \in 1..n : header[i].q \in Nat
  BY HeaderIs
<1>2. usable \in SUBSET (1..n) /\ best \in SUBSET (1..n) /\ best \in SUBSET usable
  BY <1>1
<1>3. quality \in [1..n -> Int]
  BY <1>1
<1>4. ASSUME usable # {} PROVE best # {}
  <2> HIDE DEF usable, quality, n
  <2>1. PICK x \in usable : \A y \in usable : quality[x] >= quality[y]
    BY <1>1, <1>2, <1>3, <1>4, Greatest
  <2>2. \A y \in usable : quality[y] = header[y].q
    BY <1>2 DEF quality
  <2> QED BY <2>1, <2>2
<1>5. T!Negotiate(header) =
        CASE usable # {} -> header[T!Min(best)].item
          [] usable = {} /\ (ident = {} \/ T!Max(ident) > 0) -> "identity"
          [] OTHER -> "refused"
  BY DEF T!Negotiate
<1>6. \A i \in usable : header[i].item \in Codings
  BY DEF Codings
<1>7. {"identity", "refused"} \subseteq Codings
  BY DEF Codings
<1> HIDE DEF usable, best, ident, n, quality
<1>8. CASE usable # {}
  <2>1. T!Min(best) \in usable
    BY <1>1, <1>2, <1>4, <1>8, Extremes
  <2>2. T!Negotiate(header) = header[T!Min(best)].item
    BY <1>5, <1>8
  <2> QED BY <1>6, <2>1, <2>2
<1>9. CASE usable = {}
  BY <1>5, <1>7, <1>9
<1> QED BY <1>8, <1>9

LEMMA DecidedIs ==
  ASSUME NEW header \in Headers
  PROVE  T!Decided(header) \in Codings
<1> DEFINE q == [e \in T!Compressors |-> T!Max({T!QualityOf(e, header), 0})]
           best == {e \in T!Compressors : \A f \in T!Compressors : q[e] >= q[f]}
<1>1. ASSUME NEW e \in T!Compressors PROVE q[e] \in Int
  <2> DEFINE x == T!QualityOf(e, header)
  <2>1. x \in Int
    BY QualityIs
  <2>2. q[e] = T!Max({x, 0})
    OBVIOUS
  <2> HIDE DEF x, q
  <2>3. T!Max({x, 0}) \in {x, 0}
    <3>1. CASE x >= 0
      BY <2>1, <3>1 DEF T!Max
    <3>2. CASE x < 0
      BY <2>1, <3>2 DEF T!Max
    <3> QED BY <2>1, <3>1, <3>2
  <2> QED BY <2>1, <2>2, <2>3
<1> HIDE DEF q
<1>2. best # {}
  <2>1. q["gzip"] \in Int /\ q["br"] \in Int /\ q["zstd"] \in Int
    BY <1>1 DEF T!Compressors
  <2>2. \E e \in T!Compressors : \A f \in T!Compressors : q[e] >= q[f]
    <3>1. CASE q["gzip"] >= q["br"] /\ q["gzip"] >= q["zstd"]
      BY <2>1, <3>1 DEF T!Compressors
    <3>2. CASE q["br"] >= q["gzip"] /\ q["br"] >= q["zstd"]
      BY <2>1, <3>2 DEF T!Compressors
    <3>3. CASE q["zstd"] >= q["gzip"] /\ q["zstd"] >= q["br"]
      BY <2>1, <3>3 DEF T!Compressors
    <3> QED BY <2>1, <3>1, <3>2, <3>3
  <2> QED BY <2>2
<1>3. T!Decided(header) =
        IF T!QualityOf("gzip", header) < 0 \/ T!QualityOf("br", header) < 0
        THEN T!Negotiate(header)
        ELSE CASE \A e \in best : q[e] = 0 -> "identity"
               [] T!Cardinality(best) > 1 /\ \E e \in best : q[e] # 0 -> Preferred
               [] OTHER -> CHOOSE e \in best : TRUE
  BY DEF T!Decided, q
<1>4. (CHOOSE e \in best : TRUE) \in T!Compressors
  <2>1. (CHOOSE e \in best : TRUE) \in best
    <3> HIDE DEF best
    <3> QED BY <1>2
  <2> QED BY <2>1
<1>5. Preferred \in T!Compressors
  BY ResponsesAssumption DEF T!Compressors
<1> DEFINE zero == \A e \in best : q[e] = 0
           some == \E e \in best : q[e] # 0
           more == T!Cardinality(best) > 1
           one == CHOOSE e \in best : TRUE
<1>6. T!Decided(header) \in {T!Negotiate(header), "identity", Preferred, one}
  BY <1>3, Zenon
<1>7. one \in T!Compressors
  BY <1>4
<1> HIDE DEF one
<1> QED BY <1>5, <1>6, <1>7, NegotiateIs DEF Codings

\* The layers that an ETag stands for.
MarkedLayers(mark) ==
  IF mark[1] = Pending THEN <<>> ELSE <<[source |-> mark[1], format |-> mark[2]]>>

EtagLayers(etag) == FlattenSeq([i \in DOMAIN etag |-> MarkedLayers(etag[i])])

\* A tile that may be sent or held: it decodes under its encoding, and its ETag
\* says which layers it has, all of its format.
Sound(t) ==
  /\ t \in T!TileType
  /\ t.data.codec = T!Codec(t.encoding)
  /\ t.data.layers = EtagLayers(t.etag)
  /\ t.etag # <<>>
  /\ \E i \in DOMAIN t.etag : t.etag[i][1] # Pending
  /\ \A i \in DOMAIN t.etag : t.etag[i][1] # Pending => t.etag[i][2] = t.format

\* It is what the request asks for, in the format one of its sources gave it.
Carries(t) ==
  /\ Sound(t)
  /\ t.data.layers = T!Wanted(t.format)
  /\ \E k \in DOMAIN ask.path :
       /\ ~catalog[ask.path[k]].empty
       /\ t.format = T!Processed(ask.path[k], ask.accepted).format

\* The encoding of a tile makes no difference to that.
LEMMA Recoded ==
  ASSUME NEW t, NEW u, Carries(t), u \in T!TileType, u.data.codec = T!Codec(u.encoding),
         u.data.layers = t.data.layers, u.format = t.format, u.etag = t.etag
  PROVE  Carries(u)
BY DEF Carries, Sound

LEMMA EncodedIs ==
  ASSUME NEW t \in T!TileType, NEW coding \in T!Compressors \cup {"identity"},
         t.data.codec = T!Codec(t.encoding)
  PROVE  /\ T!Encoded(t, coding) \in T!TileType
         /\ T!Encoded(t, coding).data.codec = T!Codec(T!Encoded(t, coding).encoding)
         /\ T!Encoded(t, coding).data.layers = t.data.layers
         /\ T!Encoded(t, coding).format = t.format /\ T!Encoded(t, coding).etag = t.etag
<1>t. /\ t.data.layers \in Seq(Layer) /\ t.format \in T!Formats /\ t.etag \in Seq(Marks)
      /\ t.data = [layers |-> t.data.layers, codec |-> t.data.codec]
      /\ t = [data |-> t.data, format |-> t.format, encoding |-> t.encoding, etag |-> t.etag]
  BY DEF T!TileType, Layer, Marks
<1>1. CASE coding = "identity"
  BY <1>1 DEF T!Encoded
<1>2. CASE coding # "identity"
  <2> DEFINE e == T!Tile(t.data.layers, coding, t.format, coding, t.etag)
  <2>1. T!Encoded(t, coding) = e
    BY <1>2, <1>t DEF T!Encoded, T!Tile
  <2>2. coding \in T!Encodings /\ coding \in T!Encodings \cup {"broken"} /\ T!Codec(coding) = coding
    BY <1>2 DEF T!Compressors, T!Encodings, T!Codec
  <2>3. HasFields(e, t.data.layers, coding, t.format, coding, t.etag)
    BY <1>t, <2>2, TileFields
  <2> HIDE DEF e
  <2> QED BY <2>1, <2>2, <2>3 DEF HasFields
<1> QED BY <1>1, <1>2

LEMMA SameFlat ==
  ASSUME NEW seqs
  PROVE  T!FlattenSeq(seqs) = FlattenSeq(seqs)
BY DEF T!FlattenSeq, FlattenSeq

\* All parts of the request are there.
Fetched ==
  /\ catalog \in [Sources -> Served]
  /\ ask.path \in Seq(Sources) /\ ask.path # <<>>
  /\ ask.accepted \in Targets
  /\ DOMAIN parts = DOMAIN ask.path
  /\ \A i \in DOMAIN parts : parts[i] = T!Processed(ask.path[i], ask.accepted)

LEMMA FetchedIs ==
  ASSUME Fetched
  PROVE  /\ Len(ask.path) \in Nat \ {0}
         /\ DOMAIN parts = 1..Len(ask.path) /\ DOMAIN ask.path = 1..Len(ask.path)
         /\ \A i \in 1..Len(ask.path) :
              /\ ask.path[i] \in Sources
              /\ FromSource(parts[i], ask.path[i], ask.accepted)
         /\ T!NonEmpty = {i \in 1..Len(ask.path) : ~catalog[ask.path[i]].empty}
<1>1. /\ Len(ask.path) \in Nat \ {0}
      /\ DOMAIN parts = 1..Len(ask.path) /\ DOMAIN ask.path = 1..Len(ask.path)
      /\ \A i \in 1..Len(ask.path) : ask.path[i] \in Sources
  BY DEF Fetched
<1>2. ASSUME NEW i \in 1..Len(ask.path)
      PROVE  FromSource(parts[i], ask.path[i], ask.accepted)
  BY <1>1, ProcessedIs DEF Fetched
<1>3. ASSUME NEW i \in 1..Len(ask.path)
      PROVE  T!IsEmpty(parts[i]) <=> catalog[ask.path[i]].empty
  <2>1. parts[i].data.layers = LayersFor(ask.path[i], parts[i].format)
    BY <1>2 DEF FromSource
  <2>2. catalog[ask.path[i]].empty \in BOOLEAN
    BY <1>1 DEF Fetched, Served
  <2> QED BY <2>1, <2>2 DEF T!IsEmpty, LayersFor
<1> QED BY <1>1, <1>2, <1>3 DEF T!NonEmpty

LEMMA LayerTypes ==
  ASSUME catalog \in [Sources -> Served], NEW s \in Sources, NEW format \in T!Formats
  PROVE  /\ LayersFor(s, format) \in Seq(Layer)
         /\ MarkOf(s, format) \in Marks
         /\ MarkedLayers(MarkOf(s, format)) = LayersFor(s, format)
         /\ MarkOf(s, format)[1] = Pending <=> catalog[s].empty
         /\ ~catalog[s].empty => MarkOf(s, format)[2] = format
<1>1. catalog[s].empty \in BOOLEAN /\ s # Pending
  BY ResponsesAssumption DEF Served
<1> DEFINE none == <<Pending, T!AnyFormat>>
           mark == <<s, format>>
           layer == [source |-> s, format |-> format]
<1>2. none \in Marks /\ none[1] = Pending /\ mark \in Marks /\ mark[1] = s /\ mark[2] = format
  BY DEF Marks
<1>3. layer \in Layer
  BY DEF Layer
<1>4. CASE catalog[s].empty
  <2>1. MarkOf(s, format) = none /\ LayersFor(s, format) = <<>>
    BY <1>4 DEF MarkOf, LayersFor
  <2> HIDE DEF none
  <2>2. MarkedLayers(none) = <<>>
    BY <1>2 DEF MarkedLayers
  <2> QED BY <1>2, <1>4, <2>1, <2>2
<1>5. CASE ~catalog[s].empty
  <2>1. MarkOf(s, format) = mark /\ LayersFor(s, format) = <<layer>>
    BY <1>5 DEF MarkOf, LayersFor
  <2>2. MarkedLayers(mark) = <<layer>>
    BY <1>1, <1>2 DEF MarkedLayers
  <2> HIDE DEF mark, layer
  <2>3. <<layer>> \in Seq(Layer)
    BY <1>3
  <2> QED BY <1>1, <1>2, <1>5, <2>1, <2>2, <2>3
<1> QED BY <1>4, <1>5

\* What the request asks for, in terms of its sources.
LEMMA WantedIs ==
  ASSUME NEW format
  PROVE  T!Wanted(format) = FlattenSeq([i \in DOMAIN ask.path |-> LayersFor(ask.path[i], format)])
BY SameFlat DEF T!Wanted, LayersFor

\* A tile that is alone is sent as it is.
LEMMA AloneCarries ==
  ASSUME Fetched, NEW k, T!NonEmpty = {k}
  PROVE  Carries(parts[k])
<1> DEFINE n == Len(ask.path)
           t == parts[k]
           s == ask.path[k]
<1>1. /\ n \in Nat \ {0} /\ DOMAIN parts = 1..n /\ DOMAIN ask.path = 1..n
      /\ \A i \in 1..n : ask.path[i] \in Sources /\ FromSource(parts[i], ask.path[i], ask.accepted)
      /\ T!NonEmpty = {i \in 1..n : ~catalog[ask.path[i]].empty}
  BY FetchedIs
<1> HIDE DEF n
<1>2. k \in 1..n /\ s \in Sources /\ FromSource(t, s, ask.accepted) /\ ~catalog[s].empty
  BY <1>1
<1>3. t.format \in T!Formats
  BY <1>2 DEF FromSource, T!TileType
<1> DEFINE seqs == [i \in 1..n |-> LayersFor(ask.path[i], t.format)]
<1>4. T!Wanted(t.format) = t.data.layers
  <2>1. seqs \in Seq(Seq(Layer))
    <3>1. \A i \in 1..n : LayersFor(ask.path[i], t.format) \in Seq(Layer)
      BY <1>1, <1>3, LayerTypes DEF Fetched
    <3> QED BY <1>1, <3>1
  <2>2. Len(seqs) = n
    BY <1>1
  <2>3. \A i \in 1..Len(seqs) : i # k => seqs[i] = <<>>
    BY <1>1, <2>2 DEF LayersFor
  <2>4. seqs[k] = t.data.layers
    BY <1>2 DEF FromSource
  <2>5. T!Wanted(t.format) = FlattenSeq(seqs)
    BY <1>1, WantedIs
  <2>6. k \in 1..Len(seqs)
    BY <1>2, <2>2
  <2> HIDE DEF seqs
  <2>7. FlattenSeq(seqs) = seqs[k]
    BY <2>1, <2>3, <2>6, FlatOfOne
  <2> QED BY <2>4, <2>5, <2>7
<1>5. t.data.layers = EtagLayers(t.etag)
  <2> DEFINE layers == LayersFor(s, t.format)
             one == <<layers>>
             mark == MarkOf(s, t.format)
  <2>1. layers \in Seq(Layer) /\ MarkedLayers(mark) = layers
    BY <1>2, <1>3, LayerTypes DEF Fetched
  <2>2. t.etag = <<mark>>
    BY <1>2 DEF FromSource
  <2> HIDE DEF layers, mark
  <2>3. [i \in DOMAIN t.etag |-> MarkedLayers(t.etag[i])] = one
    BY <2>1, <2>2
  <2>4. one \in Seq(Seq(Layer)) /\ Len(one) = 1 /\ one[1] = layers
    BY <2>1
  <2>5. 1 \in 1..Len(one) /\ \A i \in 1..Len(one) : i # 1 => one[i] = <<>>
    BY <2>4
  <2> HIDE DEF one
  <2>6. FlattenSeq(one) = one[1]
    BY <2>4, <2>5, FlatOfOne
  <2>7. t.data.layers = layers
    BY <1>2 DEF FromSource, layers
  <2> QED BY <2>3, <2>4, <2>6, <2>7 DEF EtagLayers
<1>6. /\ t.etag # <<>>
      /\ \E i \in DOMAIN t.etag : t.etag[i][1] # Pending
      /\ \A i \in DOMAIN t.etag : t.etag[i][1] # Pending => t.etag[i][2] = t.format
  <2> DEFINE mark == MarkOf(s, t.format)
  <2>1. mark[1] # Pending /\ mark[2] = t.format
    BY <1>2, <1>3, LayerTypes DEF Fetched
  <2>2. t.etag = <<mark>>
    BY <1>2 DEF FromSource
  <2> HIDE DEF mark
  <2> QED BY <2>1, <2>2
<1>7. t \in T!TileType /\ t.data.codec = T!Codec(t.encoding)
  BY <1>2 DEF FromSource
<1>8. t = T!Processed(s, ask.accepted) /\ k \in DOMAIN ask.path
  BY <1>1, <1>2 DEF Fetched
<1> QED BY <1>2, <1>4, <1>5, <1>6, <1>7, <1>8 DEF Carries, Sound

\* The layers and the ETag of all parts together.
LEMMA TogetherIs ==
  ASSUME Fetched, NEW format \in T!Formats,
         \A i \in DOMAIN parts : parts[i].format = format
  PROVE  /\ T!Layers(parts) \in Seq(Layer) /\ T!Etags(parts) \in Seq(Marks)
         /\ T!Layers(parts) = T!Wanted(format)
         /\ T!Layers(parts) = EtagLayers(T!Etags(parts))
         /\ T!Etags(parts) # <<>>
         /\ \A i \in DOMAIN T!Etags(parts) : T!Etags(parts)[i][1] # Pending => T!Etags(parts)[i][2] = format
         /\ \A i \in T!NonEmpty : i \in DOMAIN T!Etags(parts) /\ T!Etags(parts)[i][1] # Pending
<1> DEFINE n == Len(ask.path)
           layers == [i \in 1..n |-> LayersFor(ask.path[i], format)]
           marks == [i \in 1..n |-> <<MarkOf(ask.path[i], format)>>]
           etag == T!Etags(parts)
<1>1. /\ n \in Nat \ {0} /\ DOMAIN parts = 1..n /\ DOMAIN ask.path = 1..n
      /\ \A i \in 1..n : ask.path[i] \in Sources /\ FromSource(parts[i], ask.path[i], ask.accepted)
      /\ T!NonEmpty = {i \in 1..n : ~catalog[ask.path[i]].empty}
  BY FetchedIs
<1>2. \A i \in 1..n : parts[i].data.layers = LayersFor(ask.path[i], format)
                      /\ parts[i].etag = <<MarkOf(ask.path[i], format)>>
  BY <1>1 DEF FromSource
<1>3. [i \in DOMAIN parts |-> parts[i].data.layers] = layers
  BY <1>1, <1>2
<1>4. [i \in DOMAIN parts |-> parts[i].etag] = marks
  BY <1>1, <1>2
<1>5. T!Layers(parts) = FlattenSeq(layers)
  BY <1>3, SameFlat DEF T!Layers
<1>6. etag = FlattenSeq(marks)
  BY <1>4, SameFlat DEF T!Etags
<1>7. T!Layers(parts) = T!Wanted(format)
  BY <1>1, <1>5, WantedIs
<1> HIDE DEF n, etag
<1>8. \A i \in 1..n : /\ LayersFor(ask.path[i], format) \in Seq(Layer)
                      /\ MarkOf(ask.path[i], format) \in Marks
                      /\ MarkedLayers(MarkOf(ask.path[i], format)) = LayersFor(ask.path[i], format)
                      /\ MarkOf(ask.path[i], format)[1] = Pending <=> catalog[ask.path[i]].empty
                      /\ ~catalog[ask.path[i]].empty => MarkOf(ask.path[i], format)[2] = format
  BY <1>1, LayerTypes DEF Fetched
<1>9. layers \in Seq(Seq(Layer)) /\ Len(layers) = n
  BY <1>1, <1>8
<1>10. /\ marks \in Seq(Seq(Marks)) /\ Len(marks) = n
       /\ \A i \in 1..n : Len(marks[i]) = 1 /\ marks[i][1] = MarkOf(ask.path[i], format)
  <2>1. \A i \in 1..n : marks[i] = <<MarkOf(ask.path[i], format)>>
    OBVIOUS
  <2>2. \A i \in 1..n : /\ <<MarkOf(ask.path[i], format)>> \in Seq(Marks)
                        /\ Len(<<MarkOf(ask.path[i], format)>>) = 1
    BY <1>8
  <2> QED BY <1>1, <2>1, <2>2
<1> HIDE DEF layers, marks
<1>11. FlattenSeq(layers) \in Seq(Layer) /\ FlattenSeq(marks) \in Seq(Marks)
  BY <1>9, <1>10, FlatType
<1>12. \A i \in 1..Len(marks) : Len(marks[i]) = 1
  BY <1>10
<1>13. Len(FlattenSeq(marks)) = n /\ \A i \in 1..n : FlattenSeq(marks)[i] = marks[i][1]
  BY <1>10, <1>12, FlatOfSingles
<1>14. /\ etag \in Seq(Marks) /\ DOMAIN etag = 1..n
       /\ \A i \in 1..n : etag[i] = MarkOf(ask.path[i], format)
  BY <1>6, <1>10, <1>11, <1>13
<1>15. EtagLayers(etag) = T!Layers(parts)
  <2>1. [i \in DOMAIN etag |-> MarkedLayers(etag[i])] = layers
    BY <1>8, <1>14 DEF layers
  <2> QED BY <1>5, <2>1 DEF EtagLayers
<1>16. etag # <<>>
  BY <1>1, <1>14
<1>17. /\ \A i \in DOMAIN etag : etag[i][1] # Pending => etag[i][2] = format
       /\ \A i \in T!NonEmpty : i \in DOMAIN etag /\ etag[i][1] # Pending
  <2> DEFINE mark(i) == MarkOf(ask.path[i], format)
  <2>1. \A i \in 1..n : /\ mark(i)[1] = Pending <=> catalog[ask.path[i]].empty
                        /\ ~catalog[ask.path[i]].empty => mark(i)[2] = format
    BY <1>8
  <2>2. DOMAIN etag = 1..n /\ \A i \in 1..n : etag[i] = mark(i)
    BY <1>14
  <2>3. T!NonEmpty = {i \in 1..n : ~catalog[ask.path[i]].empty}
    BY <1>1
  <2> HIDE DEF mark
  <2>4. ASSUME NEW i \in DOMAIN etag, etag[i][1] # Pending PROVE etag[i][2] = format
    BY <2>1, <2>2, <2>4
  <2>5. ASSUME NEW i \in T!NonEmpty PROVE i \in DOMAIN etag /\ etag[i][1] # Pending
    BY <2>1, <2>2, <2>3
  <2> QED BY <2>4, <2>5
<1> QED BY <1>5, <1>7, <1>11, <1>14, <1>15, <1>16, <1>17 DEF etag

LEMMA ConcatenatedIs ==
  ASSUME NEW ts, NEW c \in {"none", "gzip", "zstd"}, T!NonEmpty # {},
         \A i \in T!NonEmpty : ts[i].data.codec = c
  PROVE  T!Concatenated(ts) = c
<1>1. {ts[i].data.codec : i \in T!NonEmpty} = {c}
  OBVIOUS
<1>2. T!Cardinality({c}) = 1
  BY FS_Singleton DEF T!Cardinality, Cardinality
<1>3. (CHOOSE x \in {c} : TRUE) = c
  OBVIOUS
<1> QED BY <1>1, <1>2, <1>3 DEF T!Concatenated

LEMMA JoinedCarries ==
  ASSUME Fetched, T!NonEmpty # {}, T!CanJoin
  PROVE  Carries(T!Joined)
<1> DEFINE n == Len(ask.path)
           last == T!Max(T!NonEmpty)
           format == parts[last].format
           encoding == parts[last].encoding
           layers == T!Layers(parts)
           etag == T!Etags(parts)
<1>1. /\ n \in Nat \ {0} /\ DOMAIN parts = 1..n /\ DOMAIN ask.path = 1..n
      /\ \A i \in 1..n : ask.path[i] \in Sources /\ FromSource(parts[i], ask.path[i], ask.accepted)
      /\ T!NonEmpty = {i \in 1..n : ~catalog[ask.path[i]].empty}
  BY FetchedIs
<1> HIDE DEF n
<1>2. last \in T!NonEmpty
  BY <1>1, Extremes
<1>3. \A i \in 1..n : parts[i].format = format /\ parts[i].encoding = encoding
  BY <1>1 DEF T!CanJoin, T!LastInfo
<1> HIDE DEF last
<1>4. \A i \in 1..n : parts[i] \in T!TileType /\ parts[i].format \in T!Formats /\ parts[i].encoding \in T!Encodings
  BY <1>1 DEF FromSource, T!TileType
<1>5. format \in T!Formats /\ encoding \in T!Encodings
  BY <1>1, <1>2, <1>4
<1>6. T!LastInfo = <<format, encoding>>
  BY DEF T!LastInfo, last
<1>7. \A i \in T!NonEmpty : parts[i].data.codec = T!Codec(encoding)
  BY <1>1, <1>3 DEF FromSource
<1>8. /\ layers \in Seq(Layer) /\ etag \in Seq(Marks)
      /\ layers = T!Wanted(format) /\ layers = EtagLayers(etag) /\ etag # <<>>
      /\ \A i \in DOMAIN etag : etag[i][1] # Pending => etag[i][2] = format
      /\ \A i \in T!NonEmpty : i \in DOMAIN etag /\ etag[i][1] # Pending
  BY <1>1, <1>3, <1>5, TogetherIs
<1> HIDE DEF layers, etag
<1>9. \E k \in DOMAIN ask.path : /\ ~catalog[ask.path[k]].empty
                                 /\ format = T!Processed(ask.path[k], ask.accepted).format
  <2>1. last \in DOMAIN ask.path /\ ~catalog[ask.path[last]].empty
    BY <1>1, <1>2
  <2>2. parts[last] = T!Processed(ask.path[last], ask.accepted)
    BY <1>1, <1>2 DEF Fetched
  <2> QED BY <2>1, <2>2
<1> HIDE DEF format, encoding
<1>10. ASSUME NEW t, NEW e \in T!Encodings, HasFields(t, layers, T!Codec(e), format, e, etag)
       PROVE  Carries(t)
  <2>1. Sound(t)
    BY <1>2, <1>8, <1>10 DEF Sound, HasFields
  <2> QED BY <1>8, <1>9, <1>10, <2>1 DEF Carries, HasFields
<1>11. CASE encoding \in {"none", "gzip", "zstd"}
  <2>1. T!Codec(encoding) = encoding
    BY <1>11 DEF T!Codec
  <2>2. T!Concatenated(parts) = encoding
    BY <1>2, <1>7, <1>11, <2>1, ConcatenatedIs
  <2>3. T!Joined = T!Tile(layers, encoding, format, encoding, etag)
    BY <1>6, <1>11, <2>2 DEF T!Joined, layers, etag
  <2>4. encoding \in T!Encodings \cup {"broken"}
    BY <1>5
  <2> DEFINE t == T!Joined
  <2>5. t = T!Tile(layers, encoding, format, encoding, etag)
    BY <2>3
  <2> HIDE DEF t
  <2>6. HasFields(t, layers, encoding, format, encoding, etag)
    BY <1>5, <1>8, <2>4, <2>5, TileFields
  <2>7. Carries(t)
    BY <1>5, <1>10, <2>1, <2>6
  <2> QED BY <2>7 DEF t
<1>12. CASE encoding \notin {"none", "gzip", "zstd"}
  <2> DEFINE ts == [i \in DOMAIN parts |-> T!Decoded(parts[i])]
             plain == "none"
  <2>1. \A i \in T!NonEmpty : ts[i].data.codec = plain
    <3> TAKE i \in T!NonEmpty
    <3>1. i \in DOMAIN parts /\ parts[i] \in T!TileType /\ parts[i].encoding = encoding
          /\ parts[i].data.codec = T!Codec(parts[i].encoding)
      BY <1>1, <1>3, <1>4, <1>7
    <3>2. T!Decoded(parts[i]).data.codec = "none"
      BY <3>1, DecodedIs
    <3> QED BY <3>1, <3>2
  <2>2. plain \in {"none", "gzip", "zstd"} /\ plain \in T!Encodings /\ plain \in T!Encodings \cup {"broken"}
        /\ T!Codec(plain) = plain
    BY DEF T!Encodings, T!Codec
  <2>3. T!Joined = T!Tile(layers, T!Concatenated(ts), format, plain, etag)
    BY <1>6, <1>12 DEF T!Joined, layers, etag
  <2> HIDE DEF ts, plain
  <2>4. T!Concatenated(ts) = plain
    BY <1>2, <2>1, <2>2, ConcatenatedIs
  <2> DEFINE t == T!Joined
  <2>5. t = T!Tile(layers, plain, format, plain, etag)
    BY <2>3, <2>4
  <2> HIDE DEF t
  <2>6. HasFields(t, layers, plain, format, plain, etag)
    BY <1>5, <1>8, <2>2, <2>5, TileFields
  <2>7. Carries(t)
    BY <1>10, <2>2, <2>6
  <2> QED BY <2>7 DEF t
<1> QED BY <1>11, <1>12

\* A request that was let through: compatible sources in zoom, and a format that
\* was negotiated for them.
AskedWell ==
  /\ ask.path \in Seq(Sources) /\ ask.path # <<>>
  /\ ask.accepted \in Targets
  /\ ask.encodings \in Headers
  /\ \A i \in DOMAIN ask.path : T!Info(ask.path[i]) = T!Info(ask.path[1])
  /\ T!Negotiable(ask.header, catalog[ask.path[1]].format)
  /\ ask.accepted = T!Negotiated(ask.header, catalog[ask.path[1]].format)

Unmergeable ==
  \/ catalog[ask.path[1]].format \notin T!Vector
  \/ \E i \in DOMAIN ask.path : catalog[ask.path[i]].empty \/ ~catalog[ask.path[i]].converts

LEMMA UnjoinedIs ==
  ASSUME Fetched, AskedWell, T!NonEmpty # {}, ~T!CanJoin
  PROVE  Unmergeable
<1> DEFINE n == Len(ask.path)
           first == catalog[ask.path[1]].format
           last == T!Max(T!NonEmpty)
<1>1. /\ n \in Nat \ {0} /\ DOMAIN parts = 1..n /\ DOMAIN ask.path = 1..n
      /\ \A i \in 1..n : ask.path[i] \in Sources /\ FromSource(parts[i], ask.path[i], ask.accepted)
      /\ T!NonEmpty = {i \in 1..n : ~catalog[ask.path[i]].empty}
  BY FetchedIs
<1> HIDE DEF n
<1>2. last \in 1..n
  BY <1>1, Extremes
<1>3. \A i \in 1..n : catalog[ask.path[i]].format = first
                      /\ catalog[ask.path[i]].encoding = catalog[ask.path[1]].encoding
  BY <1>1 DEF AskedWell, T!Info
<1> SUFFICES ASSUME first \in T!Vector,
                    \A i \in 1..n : ~catalog[ask.path[i]].empty /\ catalog[ask.path[i]].converts
             PROVE  T!CanJoin
  BY <1>1 DEF Unmergeable
<1>4. CASE {ask.accepted, first} = T!Vector
  <2>1. \A i \in 1..n : parts[i].format = ask.accepted
                        /\ parts[i].encoding = IF ask.accepted = "mlt" THEN "internal" ELSE "none"
    BY <1>1, <1>3, <1>4 DEF FromSource, Converting
  <2>2. ask.accepted \in T!Vector
    BY <1>4
  <2> HIDE DEF last
  <2> QED BY <1>1, <1>2, <2>1, <2>2 DEF T!CanJoin, T!LastInfo, last
<1>5. CASE {ask.accepted, first} # T!Vector
  <2>1. \A i \in 1..n : parts[i].format = first
                        /\ parts[i].encoding = catalog[ask.path[1]].encoding
    BY <1>1, <1>3, <1>5 DEF FromSource, Converting
  <2> QED BY <1>1, <1>2, <2>1 DEF T!CanJoin, T!LastInfo, last
<1> QED BY <1>4, <1>5

\* What is carried is of a format the client listed.
LEMMA ListedIs ==
  ASSUME catalog \in [Sources -> Served], AskedWell, NEW t, Carries(t), ~T!AcceptsAny(ask.header)
  PROVE  \/ t.format \in T!Accepted(ask.header)
         \/ \E i \in DOMAIN ask.path : ~catalog[ask.path[i]].converts
<1> DEFINE first == catalog[ask.path[1]].format
<1>1. PICK k \in DOMAIN ask.path : /\ ~catalog[ask.path[k]].empty
                                   /\ t.format = T!Processed(ask.path[k], ask.accepted).format
  BY DEF Carries
<1> DEFINE s == ask.path[k]
<1>2. s \in Sources /\ catalog[s].format = first
  <2>1. s \in Sources
    BY DEF AskedWell
  <2>2. T!Info(s) = T!Info(ask.path[1])
    BY DEF AskedWell
  <2> QED BY <2>1, <2>2 DEF T!Info
<1>3. FromSource(T!Processed(s, ask.accepted), s, ask.accepted)
  BY <1>2, ProcessedIs DEF AskedWell
<1>4. /\ Converting(s, ask.accepted) => t.format = ask.accepted
      /\ ~Converting(s, ask.accepted) => t.format = first
  BY <1>1, <1>2, <1>3 DEF FromSource
<1> SUFFICES ASSUME catalog[s].converts PROVE t.format \in T!Accepted(ask.header)
  OBVIOUS
<1> HIDE DEF first, s
<1>5. Converting(s, ask.accepted) <=> {ask.accepted, first} = T!Vector
  BY <1>1, <1>2 DEF Converting, s
<1>6. CASE first \in T!Accepted(ask.header)
  <2>1. ask.accepted = first
    BY <1>6 DEF AskedWell, T!Negotiated, first
  <2>2. {first, first} # T!Vector
    BY DEF T!Vector
  <2> QED BY <1>4, <1>5, <1>6, <2>1, <2>2
<1>7. CASE first \notin T!Accepted(ask.header)
  <2>1. first \in T!Vector /\ T!Accepted(ask.header) \cap T!Vector # {}
    BY <1>7 DEF AskedWell, T!Negotiable, first
  <2>2. ask.accepted = CHOOSE f \in T!Vector : f # first
    BY <1>7 DEF AskedWell, T!Negotiated, first
  <2>3. ask.accepted \in T!Vector /\ ask.accepted # first
    BY <2>1, <2>2 DEF T!Vector
  <2>4. {ask.accepted, first} = T!Vector
    BY <2>1, <2>3 DEF T!Vector
  <2>5. ask.accepted \in T!Accepted(ask.header)
    BY <1>7, <2>1, <2>4
  <2> QED BY <1>4, <1>5, <2>4, <2>5
<1> QED BY <1>6, <1>7

\* What a tile carries changes with the request alone.
LEMMA Frame ==
  ASSUME UNCHANGED <<catalog, ask>>
  PROVE  \A t : Carries(t) => Carries(t)'
<1>1. \A f : T!Wanted(f)' = T!Wanted(f)
  BY DEF T!Wanted
<1>2. \A s, g : T!Processed(s, g)' = T!Processed(s, g)
  BY DEF T!Processed, T!Converted, T!Stored, T!Decoded
<1>3. \A t : Sound(t)' <=> Sound(t)
  BY DEF Sound
<1> QED BY <1>1, <1>2, <1>3 DEF Carries

-----------------------------------------------------------------------------
(* The inductive invariant of a response.                                   *)

ResponseTypes ==
  /\ catalog \in [Sources -> Served]
  /\ stage \in {"idle", "fetch", "merge", "encode", "respond"}
  /\ asked \in 0..MaxRequests
  /\ merged \in T!TileType \cup {Pending}
  /\ \A i \in DOMAIN parts : parts[i] \in T!TileType \cup {Pending}

\* The cache has nothing but what its source and the conversion give.
CacheTrue ==
  \A s \in Sources, target \in Targets :
    T!Key(s, target) \in DOMAIN kept => kept[T!Key(s, target)] = T!Processed(s, target)

RequestTrue == stage # "idle" \/ reply.status \in {200, 304, 400} => AskedWell

PartsTrue ==
  stage \in {"fetch", "merge"} =>
    /\ DOMAIN parts = DOMAIN ask.path
    /\ \A i \in DOMAIN parts :
         \/ parts[i] = T!Processed(ask.path[i], ask.accepted)
         \/ stage = "fetch" /\ parts[i] = Pending

MergedTrue == stage \in {"encode", "respond"} => Carries(merged)

\* The ETag a client revalidates with is that of its copy.
CopyTrue ==
  /\ copy = Pending \/ Sound(copy)
  /\ stage # "idle" => ask.match = <<>> \/ (copy # Pending /\ ask.match = copy.etag)

AnswerTrue ==
  stage = "idle" =>
    /\ reply.status \in {200, 304} => Carries(reply.tile)
    /\ reply.status = 304 => copy # Pending /\ copy.etag = reply.tile.etag
    /\ reply.status = 400 => Unmergeable

ResponseInv ==
  /\ ResponseTypes /\ CacheTrue /\ RequestTrue /\ PartsTrue
  /\ MergedTrue /\ CopyTrue /\ AnswerTrue

LEMMA ResponseInit == T!Init => ResponseInv
<1> SUFFICES ASSUME T!Init PROVE ResponseInv
  OBVIOUS
<1>1. catalog \in [Sources -> Served]
  BY ResponsesAssumption DEF T!Init, Served
<1>2. 0 \in 0..MaxRequests
  BY ResponsesAssumption
<1>3. ResponseTypes
  BY <1>1, <1>2 DEF T!Init, ResponseTypes
<1>4. CacheTrue
  BY DEF T!Init, CacheTrue
<1> QED
  BY <1>3, <1>4 DEF T!Init, ResponseInv, RequestTrue, PartsTrue, MergedTrue, CopyTrue, AnswerTrue

\* A request that is not refused.
LEMMA LetThroughIs ==
  ASSUME catalog \in [Sources -> Served], NEW path \in Paths, NEW header,
         T!Refusal(path, header) = 0
  PROVE  /\ T!InZoom(path) \in Seq(Sources) /\ T!InZoom(path) # <<>>
         /\ \A i \in DOMAIN T!InZoom(path) : T!Info(T!InZoom(path)[i]) = T!Info(path[1])
         /\ T!Negotiable(header, catalog[path[1]].format)
         /\ T!Negotiated(header, catalog[path[1]].format) \in Targets
<1> DEFINE n == Len(path)
           named == {path[i] : i \in 1..n}
           seqs == [i \in 1..n |-> IF catalog[path[i]].inZoom THEN <<path[i]>> ELSE <<>>]
           zoomed == T!InZoom(path)
           format == catalog[path[1]].format
<1>1. n \in Nat /\ DOMAIN path = 1..n /\ \A i \in 1..n : path[i] \in Sources
  BY ResponsesAssumption
<1>2. /\ T!Mergeable(path) /\ zoomed # <<>> /\ T!Negotiable(header, format)
  BY DEF T!Refusal
<1>3. zoomed = FlattenSeq(seqs)
  BY <1>1, SameFlat DEF T!InZoom
<1> HIDE DEF n, zoomed
<1>4. seqs \in Seq(Seq(named))
  <2>1. \A i \in 1..n : path[i] \in named
    OBVIOUS
  <2> HIDE DEF named
  <2>2. <<>> \in Seq(named) /\ \A x \in named : <<x>> \in Seq(named)
    OBVIOUS
  <2>3. \A i \in 1..n : (IF catalog[path[i]].inZoom THEN <<path[i]>> ELSE <<>>) \in Seq(named)
    BY <2>1, <2>2
  <2> QED BY <1>1, <2>3
<1> HIDE DEF seqs, named
<1>5. zoomed \in Seq(named)
  BY <1>3, <1>4, FlatType
<1>6. DOMAIN zoomed = 1..Len(zoomed) /\ Len(zoomed) \in Nat /\ \A i \in DOMAIN zoomed : zoomed[i] \in named
  BY <1>5
<1>7. \A s \in named : s \in Sources /\ T!Info(s) = T!Info(path[1])
  BY <1>1, <1>2 DEF named, T!Mergeable
<1>8. zoomed \in Seq(Sources)
  <2>1. \A i \in 1..Len(zoomed) : zoomed[i] \in Sources
    BY <1>6, <1>7
  <2>2. zoomed = [i \in 1..Len(zoomed) |-> zoomed[i]]
    BY <1>5
  <2> QED BY <1>6, <2>1, <2>2
<1>9. 1 \in 1..n
  <2>1. 1 \in DOMAIN zoomed
    BY <1>2, <1>5, <1>6
  <2>2. zoomed[1] \in named
    BY <1>6, <2>1
  <2> QED BY <1>1, <2>2 DEF named
<1>10. format \in T!Formats
  BY <1>1, <1>9 DEF Served
<1>11. T!Negotiated(header, format) \in Targets
  <2> HIDE DEF format
  <2>1. T!AnyFormat \in Targets /\ format \in Targets
    BY <1>10 DEF Targets
  <2>2. (CHOOSE f \in T!Vector : f # format) \in T!Vector
    BY DEF T!Vector
  <2>3. T!Vector \subseteq Targets
    BY DEF T!Vector, T!Formats, Targets
  <2> QED BY <2>1, <2>2, <2>3 DEF T!Negotiated
<1> QED BY <1>2, <1>6, <1>7, <1>8, <1>11 DEF zoomed

LEMMA CacheFrame ==
  ASSUME CacheTrue, UNCHANGED <<catalog, kept>>
  PROVE  CacheTrue'
<1>1. \A r, g : T!Stored(r)' = T!Stored(r) /\ T!Decoded(r)' = T!Decoded(r) /\ T!Key(r, g)' = T!Key(r, g)
  BY DEF T!Stored, T!Decoded, T!Key
<1>2. \A r, g : T!Processed(r, g)' = T!Processed(r, g)
  BY <1>1 DEF T!Processed, T!Converted
<1> QED BY <1>1, <1>2 DEF CacheTrue

LEMMA ReceiveKeeps ==
  ASSUME ResponseInv, NEW path \in Paths, NEW header \in Accepts, NEW encodings \in AcceptEncodings,
         T!Receive(path, header, encodings)
  PROVE  ResponseInv'
<1>1. /\ stage = "idle" /\ asked' = asked + 1 /\ asked < MaxRequests
      /\ UNCHANGED <<catalog, kept, merged, copy>>
  BY DEF T!Receive
<1>2. asked' \in 0..MaxRequests
  BY <1>1, ResponsesAssumption DEF ResponseInv, ResponseTypes
<1>3. CacheTrue'
  BY <1>1, CacheFrame DEF ResponseInv
<1>4. (copy = Pending \/ Sound(copy))'
  BY <1>1 DEF ResponseInv, CopyTrue, Sound
<1>5. CASE T!Refusal(path, header) # 0
  <2>1. /\ reply' = [status |-> T!Refusal(path, header), tile |-> Pending]
        /\ UNCHANGED <<stage, ask, parts>>
    BY <1>5 DEF T!Receive
  <2>2. reply'.status \in {404, 406}
    BY <1>5, <2>1 DEF T!Refusal
  <2>3. ResponseTypes'
    BY <1>1, <1>2, <2>1 DEF ResponseInv, ResponseTypes
  <2> QED BY <1>1, <1>3, <1>4, <2>1, <2>2, <2>3
          DEF ResponseInv, RequestTrue, PartsTrue, MergedTrue, CopyTrue, AnswerTrue
<1>6. CASE T!Refusal(path, header) = 0
  <2> DEFINE zoomed == T!InZoom(path)
             format == catalog[path[1]].format
  <2>1. PICK match \in {<<>>, IF copy = Pending THEN <<>> ELSE copy.etag} :
          ask' = [path |-> zoomed, accepted |-> T!Negotiated(header, format),
                  header |-> header, encodings |-> encodings, match |-> match]
    BY <1>6 DEF T!Receive
  <2>2. parts' = [i \in DOMAIN zoomed |-> Pending] /\ stage' = "fetch" /\ UNCHANGED reply
    BY <1>6 DEF T!Receive
  <2>3. /\ zoomed \in Seq(Sources) /\ zoomed # <<>>
        /\ \A i \in DOMAIN zoomed : T!Info(zoomed[i]) = T!Info(path[1])
        /\ T!Negotiable(header, format) /\ T!Negotiated(header, format) \in Targets
    BY <1>6, LetThroughIs DEF ResponseInv, ResponseTypes
  <2> HIDE DEF zoomed
  <2>4. /\ ask'.path = zoomed /\ ask'.accepted = T!Negotiated(header, format)
        /\ ask'.header = header /\ ask'.encodings = encodings /\ ask'.match = match
    BY <2>1
  <2>5. 1 \in DOMAIN zoomed /\ catalog[zoomed[1]].format = format
    <3>1. 1 \in DOMAIN zoomed
      BY <2>3
    <3>2. T!Info(zoomed[1]) = T!Info(path[1])
      BY <2>3, <3>1
    <3> QED BY <3>1, <3>2 DEF T!Info
  <2>6. AskedWell'
    <3>1. encodings \in Headers
      BY ResponsesAssumption DEF Headers
    <3>2. \A i \in DOMAIN zoomed : T!Info(zoomed[i]) = T!Info(zoomed[1])
      BY <2>3, <2>5
    <3>3. (\A i \in DOMAIN ask.path : T!Info(ask.path[i]) = T!Info(ask.path[1]))'
      BY <1>1, <2>4, <3>2 DEF T!Info
    <3> QED BY <1>1, <2>3, <2>4, <2>5, <3>1, <3>3
            DEF AskedWell, T!Negotiable, T!Negotiated
  <2>7. ResponseTypes'
    BY <1>1, <1>2, <2>2 DEF ResponseInv, ResponseTypes
  <2>8. PartsTrue'
    BY <2>2, <2>4 DEF PartsTrue
  <2>9. CopyTrue'
    BY <1>1, <1>4, <2>1, <2>4 DEF CopyTrue
  <2> QED BY <1>3, <2>2, <2>6, <2>7, <2>8, <2>9
          DEF ResponseInv, RequestTrue, MergedTrue, AnswerTrue
<1> QED BY <1>5, <1>6

LEMMA FetchKeeps ==
  ASSUME ResponseInv, NEW i \in DOMAIN parts, T!Fetch(i)
  PROVE  ResponseInv'
<1> DEFINE s == ask.path[i]
           target == ask.accepted
           t == T!Processed(s, target)
           k == T!Key(s, target)
<1>1. /\ stage = "fetch" /\ UNCHANGED <<catalog, ask, merged, reply, copy, asked>>
      /\ stage' \in {"fetch", "merge"}
      /\ stage' = "merge" => \A j \in DOMAIN parts : parts'[j] # Pending
  BY DEF T!Fetch
<1>2. /\ AskedWell /\ DOMAIN parts = DOMAIN ask.path
      /\ s \in Sources /\ target \in Targets
  BY <1>1 DEF ResponseInv, RequestTrue, PartsTrue, AskedWell
<1>3. t \in T!TileType
  BY <1>2, ProcessedIs DEF ResponseInv, ResponseTypes, FromSource
<1>4. (IF k \in DOMAIN kept THEN kept[k] ELSE T!Processed(s, target)) = t
  BY <1>2 DEF ResponseInv, CacheTrue
<1>5. /\ parts' = [parts EXCEPT ![i] = t]
      /\ kept' = [x \in DOMAIN kept \cup {k} |-> IF x = k THEN t ELSE kept[x]]
  BY <1>4 DEF T!Fetch
<1> HIDE DEF t, k
<1>6. /\ DOMAIN parts' = DOMAIN parts /\ parts'[i] = t
      /\ \A j \in DOMAIN parts : j # i => parts'[j] = parts[j]
  BY <1>5
<1>7. ResponseTypes'
  BY <1>1, <1>3, <1>6 DEF ResponseInv, ResponseTypes
<1>8. CacheTrue'
  <2>1. ASSUME NEW r \in Sources, NEW g \in Targets, T!Key(r, g) \in DOMAIN kept'
        PROVE  kept'[T!Key(r, g)] = T!Processed(r, g)
    <3>1. CASE T!Key(r, g) = k
      <4>1. r = s /\ g = target
        BY <3>1 DEF T!Key, k
      <4> QED BY <1>5, <3>1, <4>1 DEF t
    <3>2. CASE T!Key(r, g) # k
      BY <1>5, <2>1, <3>2 DEF ResponseInv, CacheTrue
    <3> QED BY <3>1, <3>2
  <2>2. \A r \in Sources, g \in Targets : T!Processed(r, g)' = T!Processed(r, g)
    BY <1>1 DEF T!Processed, T!Converted, T!Stored, T!Decoded
  <2>3. \A r \in Sources, g \in Targets : T!Key(r, g)' = T!Key(r, g)
    BY DEF T!Key
  <2> QED BY <2>1, <2>2, <2>3 DEF CacheTrue
<1>9. PartsTrue'
  <2>1. ASSUME NEW j \in DOMAIN parts
        PROVE  \/ parts'[j] = T!Processed(ask.path[j], ask.accepted)
               \/ stage' = "fetch" /\ parts'[j] = Pending
    BY <1>1, <1>6 DEF ResponseInv, PartsTrue, t
  <2>2. \A r, g : T!Processed(r, g)' = T!Processed(r, g)
    BY <1>1 DEF T!Processed, T!Converted, T!Stored, T!Decoded
  <2> QED BY <1>1, <1>2, <1>6, <2>1, <2>2 DEF PartsTrue
<1>10. RequestTrue'
  BY <1>1, <1>2, SMTT(30) DEF RequestTrue, AskedWell, T!Info, T!Negotiable, T!Negotiated
<1>11. CopyTrue'
  BY <1>1 DEF ResponseInv, CopyTrue, Sound
<1> QED BY <1>1, <1>7, <1>8, <1>9, <1>10, <1>11 DEF ResponseInv, MergedTrue, AnswerTrue

LEMMA RequestFrame ==
  ASSUME AskedWell, UNCHANGED <<catalog, ask>>
  PROVE  AskedWell'
BY DEF AskedWell, T!Info, T!Negotiable, T!Negotiated

\* A request ends with an answer that is right.
LEMMA ReplyKeeps ==
  ASSUME ResponseInv, NEW status \in {200, 204, 304, 400, 406, 500}, T!Reply(status),
         UNCHANGED <<catalog, kept, ask, asked>>, stage # "idle",
         copy' = Pending \/ Sound(copy'),
         status \in {200, 304} => Carries(merged),
         status = 304 => copy' # Pending /\ copy'.etag = merged.etag,
         status = 400 => Unmergeable
  PROVE  ResponseInv'
<1>1. /\ stage' = "idle" /\ parts' = <<>> /\ merged' = Pending
      /\ reply' = [status |-> status, tile |-> IF status \in {200, 304} THEN merged ELSE Pending]
  BY DEF T!Reply
<1>2. reply'.status = status /\ (status \in {200, 304} => reply'.tile = merged)
  BY <1>1
<1>3. ResponseTypes'
  BY <1>1 DEF ResponseInv, ResponseTypes
<1>4. CacheTrue'
  BY CacheFrame DEF ResponseInv
<1>5. AskedWell'
  BY RequestFrame DEF ResponseInv, RequestTrue
<1>6. status \in {200, 304} => Carries(reply.tile)'
  <2>1. \A t : Carries(t) => Carries(t)'
    BY Frame
  <2> QED BY <1>2, <2>1
<1>7. status = 400 => Unmergeable'
  BY DEF Unmergeable
<1>8. (copy = Pending \/ Sound(copy))'
  BY DEF Sound
<1> QED BY <1>1, <1>2, <1>3, <1>4, <1>5, <1>6, <1>7, <1>8
        DEF ResponseInv, RequestTrue, PartsTrue, MergedTrue, CopyTrue, AnswerTrue

\* A tile goes on, as what the request asks for.
LEMMA GoesOn ==
  ASSUME ResponseInv, UNCHANGED <<catalog, kept, ask, parts, reply, copy, asked>>,
         stage # "idle", stage' \in {"encode", "respond"}, Carries(merged')
  PROVE  ResponseInv'
<1>1. ResponseTypes'
  BY DEF ResponseInv, ResponseTypes, Carries, Sound
<1>2. CacheTrue'
  BY CacheFrame DEF ResponseInv
<1>3. AskedWell'
  BY RequestFrame DEF ResponseInv, RequestTrue
<1>4. Carries(merged)'
  BY Frame
<1>5. CopyTrue'
  BY DEF ResponseInv, CopyTrue, Sound
<1> QED BY <1>1, <1>2, <1>3, <1>4, <1>5
        DEF ResponseInv, RequestTrue, PartsTrue, MergedTrue, AnswerTrue

LEMMA FetchFailsKeeps ==
  ASSUME ResponseInv, NEW i \in DOMAIN parts, T!FetchFails(i)
  PROVE  ResponseInv'
BY ReplyKeeps DEF T!FetchFails, ResponseInv, CopyTrue

LEMMA MergeKeeps ==
  ASSUME ResponseInv, T!Merge
  PROVE  ResponseInv'
<1>1. stage = "merge" /\ UNCHANGED <<catalog, kept, ask, copy, asked>>
  BY DEF T!Merge
<1>2. AskedWell /\ Fetched
  BY <1>1 DEF ResponseInv, RequestTrue, PartsTrue, ResponseTypes, AskedWell, Fetched
<1>3. copy' = Pending \/ Sound(copy')
  BY <1>1 DEF ResponseInv, CopyTrue
<1>4. /\ IsFiniteSet(T!NonEmpty)
      /\ T!Cardinality(T!NonEmpty) \in Nat /\ T!Cardinality(T!NonEmpty) = Cardinality(T!NonEmpty)
      /\ T!Cardinality(T!NonEmpty) = 0 <=> T!NonEmpty = {}
  <2>1. Len(ask.path) \in Nat /\ T!NonEmpty \subseteq 1..Len(ask.path)
    BY <1>2, FetchedIs
  <2>2. IsFiniteSet(T!NonEmpty)
    <3>1. IsFiniteSet(1..Len(ask.path))
      BY <2>1, FS_Interval
    <3> QED BY <2>1, <3>1, FS_Subset
  <2>3. T!Cardinality(T!NonEmpty) = Cardinality(T!NonEmpty)
    BY DEF T!Cardinality, Cardinality
  <2> QED BY <2>2, <2>3, FS_CardinalityType, FS_EmptySet
<1>5. CASE T!NonEmpty = {}
  <2>1. T!Reply(204)
    BY <1>4, <1>5 DEF T!Merge
  <2> QED BY <1>1, <1>3, <2>1, ReplyKeeps
<1>6. CASE T!Cardinality(T!NonEmpty) = 1
  <2>1. PICK k : T!NonEmpty = {k}
    BY <1>4, <1>6, FS_Singleton
  <2>2. T!Max(T!NonEmpty) = k
    <3>1. T!NonEmpty # {} /\ T!NonEmpty \in SUBSET (1..Len(ask.path)) /\ Len(ask.path) \in Nat
      BY <1>2, <2>1, FetchedIs
    <3>2. T!Max(T!NonEmpty) \in T!NonEmpty
      BY <3>1, Extremes
    <3> QED BY <2>1, <3>2
  <2>3. merged' = parts[k] /\ stage' = "encode" /\ UNCHANGED <<parts, reply>>
    BY <1>4, <1>6, <2>1, <2>2 DEF T!Merge
  <2>4. Carries(parts[k])
    BY <1>2, <2>1, AloneCarries
  <2>5. Carries(merged')
    BY <2>3, <2>4
  <2> QED BY <1>1, <2>3, <2>5, GoesOn
<1>7. CASE T!NonEmpty # {} /\ T!Cardinality(T!NonEmpty) # 1 /\ T!CanJoin
  <2>1. T!Cardinality(T!NonEmpty) > 1
    BY <1>4, <1>7
  <2>2. merged' = T!Joined /\ stage' = "encode" /\ UNCHANGED <<parts, reply>>
    BY <1>7, <2>1 DEF T!Merge
  <2>3. Carries(T!Joined)
    BY <1>2, <1>7, JoinedCarries
  <2>4. Carries(merged')
    BY <2>2, <2>3
  <2> QED BY <1>1, <2>2, <2>4, GoesOn
<1>8. CASE T!NonEmpty # {} /\ T!Cardinality(T!NonEmpty) # 1 /\ ~T!CanJoin
  <2>1. T!Reply(400)
    BY <1>8 DEF T!Merge
  <2>2. Unmergeable
    BY <1>2, <1>8, UnjoinedIs
  <2> QED BY <1>1, <1>3, <2>1, <2>2, ReplyKeeps
<1> QED BY <1>4, <1>5, <1>6, <1>7, <1>8

LEMMA RecompressKeeps ==
  ASSUME ResponseInv, T!Recompress
  PROVE  ResponseInv'
<1> DEFINE header == ask.encodings
           t == T!AsSent(header)
           coding == T!Decided(header)
           u == T!Encoded(t, coding)
<1>1. stage = "encode" /\ UNCHANGED <<catalog, kept, ask, copy, asked>>
  BY DEF T!Recompress
<1>2. Carries(merged) /\ AskedWell /\ header \in Headers
  BY <1>1 DEF ResponseInv, MergedTrue, RequestTrue, AskedWell
<1>3. copy' = Pending \/ Sound(copy')
  BY <1>1 DEF ResponseInv, CopyTrue
<1>4. /\ t \in T!TileType /\ t.data.codec = T!Codec(t.encoding)
      /\ t.data.layers = merged.data.layers /\ t.format = merged.format /\ t.etag = merged.etag
  <2>1. merged \in T!TileType /\ merged.data.codec = T!Codec(merged.encoding)
    BY <1>2 DEF Carries, Sound
  <2>2. t = merged \/ t = T!Decoded(merged)
    BY DEF T!AsSent
  <2>3. /\ T!Decoded(merged) \in T!TileType
        /\ T!Decoded(merged).data.layers = merged.data.layers
        /\ T!Decoded(merged).format = merged.format /\ T!Decoded(merged).etag = merged.etag
        /\ T!Decoded(merged).data.codec = "none" /\ T!Codec(T!Decoded(merged).encoding) = "none"
    BY <2>1, DecodedIs
  <2> HIDE DEF t
  <2> QED BY <2>1, <2>2, <2>3
<1>5. Carries(t)
  <2> HIDE DEF t
  <2> QED BY <1>2, <1>4, Recoded
<1>6. CASE header # <<>> /\ t.encoding = "none" /\ coding = "refused"
  <2>1. T!Reply(406)
    BY <1>6 DEF T!Recompress
  <2> QED BY <1>1, <1>3, <2>1, ReplyKeeps
<1>7. CASE header # <<>> /\ t.encoding = "none" /\ coding # "refused"
  <2>1. merged' = u /\ stage' = "respond" /\ UNCHANGED <<parts, reply>>
    BY <1>7 DEF T!Recompress
  <2>2. coding \in T!Compressors \cup {"identity"}
    BY <1>2, <1>7, DecidedIs DEF Codings
  <2> HIDE DEF t, coding
  <2>3. /\ u \in T!TileType /\ u.data.codec = T!Codec(u.encoding)
        /\ u.data.layers = t.data.layers /\ u.format = t.format /\ u.etag = t.etag
    BY <1>4, <2>2, EncodedIs
  <2> HIDE DEF u
  <2>4. Carries(u)
    BY <1>5, <2>3, Recoded
  <2>5. Carries(merged')
    BY <2>1, <2>4
  <2> QED BY <1>1, <2>1, <2>5, GoesOn
<1>8. CASE ~(header # <<>> /\ t.encoding = "none")
  <2>1. merged' = t /\ stage' = "respond" /\ UNCHANGED <<parts, reply>>
    BY <1>8 DEF T!Recompress
  <2> HIDE DEF t
  <2>2. Carries(merged')
    BY <1>5, <2>1
  <2> QED BY <1>1, <2>1, <2>2, GoesOn
<1> QED BY <1>6, <1>7, <1>8

LEMMA RespondKeeps ==
  ASSUME ResponseInv, T!Respond
  PROVE  ResponseInv'
<1>1. stage = "respond" /\ UNCHANGED <<catalog, kept, ask, asked>>
  BY DEF T!Respond
<1>2. Carries(merged) /\ Sound(merged) /\ merged.etag # <<>>
  BY <1>1 DEF ResponseInv, MergedTrue, Carries, Sound
<1>3. CASE ask.match = merged.etag
  <2>1. T!Reply(304) /\ UNCHANGED copy
    BY <1>3 DEF T!Respond
  <2>2. copy # Pending /\ copy.etag = merged.etag /\ Sound(copy)
    BY <1>1, <1>2, <1>3 DEF ResponseInv, CopyTrue
  <2>3. copy' # Pending /\ copy'.etag = merged.etag /\ Sound(copy')
    BY <2>1, <2>2
  <2> QED BY <1>1, <1>2, <2>1, <2>3, ReplyKeeps
<1>4. CASE ask.match # merged.etag
  <2>1. T!Reply(200) /\ copy' = merged
    BY <1>4 DEF T!Respond
  <2>2. Sound(copy')
    BY <1>2, <2>1
  <2> QED BY <1>1, <1>2, <2>1, <2>2, ReplyKeeps
<1> QED BY <1>3, <1>4

LEMMA ResponseStep ==
  ASSUME ResponseInv, [T!Next]_T!vars
  PROVE  ResponseInv'
<1>1. CASE UNCHANGED T!vars
  <2>1. UNCHANGED <<catalog, kept, stage, ask, parts, merged, reply, copy, asked>>
    BY <1>1 DEF T!vars
  <2>2. ResponseTypes' /\ CacheTrue' /\ PartsTrue'
    <3>1. \A s, g : T!Processed(s, g)' = T!Processed(s, g)
      BY <2>1 DEF T!Processed, T!Converted, T!Stored, T!Decoded
    <3>2. CacheTrue'
      BY <2>1, CacheFrame DEF ResponseInv
    <3> QED BY <2>1, <3>1, <3>2 DEF ResponseInv, ResponseTypes, PartsTrue
  <2>3. RequestTrue'
    BY <2>1, RequestFrame DEF ResponseInv, RequestTrue
  <2>4. \A t : Carries(t) => Carries(t)'
    BY <2>1, Frame
  <2>5. MergedTrue' /\ AnswerTrue'
    BY <2>1, <2>4 DEF ResponseInv, MergedTrue, AnswerTrue, Unmergeable
  <2>6. CopyTrue'
    BY <2>1 DEF ResponseInv, CopyTrue, Sound
  <2> QED BY <2>2, <2>3, <2>5, <2>6 DEF ResponseInv
<1> QED BY <1>1, ReceiveKeeps, FetchKeeps, FetchFailsKeeps, MergeKeeps, RecompressKeeps, RespondKeeps
        DEF T!Next

\* What was sent, and what a client holds or is refused, is right.
LEMMA ResponseIsRight ==
  ASSUME ResponseInv
  PROVE  /\ T!TypeOK /\ T!SentAsLabelled /\ T!FormatIsAccepted
         /\ T!NotModifiedIsHeld /\ T!CompatibleAreMerged
<1>1. T!TypeOK
  BY DEF ResponseInv, ResponseTypes, CopyTrue, Sound, T!TypeOK
<1>2. T!SentAsLabelled
  BY DEF ResponseInv, AnswerTrue, Carries, Sound, T!SentAsLabelled, T!Answered
<1>3. T!FormatIsAccepted
  <2>1. ASSUME T!Answered(200), ~T!AcceptsAny(ask.header)
        PROVE  \/ reply.tile.format \in T!Accepted(ask.header)
               \/ \E i \in DOMAIN ask.path : ~catalog[ask.path[i]].converts
    <3>1. Carries(reply.tile) /\ AskedWell /\ catalog \in [Sources -> Served]
      BY <2>1 DEF ResponseInv, AnswerTrue, RequestTrue, ResponseTypes, T!Answered
    <3> QED BY <2>1, <3>1, ListedIs
  <2> QED BY <2>1 DEF T!FormatIsAccepted
<1>4. T!NotModifiedIsHeld
  <2>1. ASSUME T!Answered(304)
        PROVE  copy.format = reply.tile.format /\ copy.data.layers = reply.tile.data.layers
    <3>1. Sound(reply.tile) /\ Sound(copy) /\ copy.etag = reply.tile.etag
      BY <2>1 DEF ResponseInv, AnswerTrue, CopyTrue, Carries, T!Answered
    <3> QED BY <3>1 DEF Sound
  <2> QED BY <2>1 DEF T!NotModifiedIsHeld
<1>5. T!CompatibleAreMerged
  BY DEF ResponseInv, AnswerTrue, Unmergeable, T!CompatibleAreMerged, T!Answered
<1> QED BY <1>1, <1>2, <1>3, <1>4, <1>5

LEMMA ResponseInvariance == AllSpec => [](scene = "responses" => ResponseInv)
<1> DEFINE IInv == scene = "responses" => ResponseInv
<1>1. AllInit => IInv
  BY ResponseInit DEF AllInit
<1>2. IInv /\ [AllNext]_allVars => IInv'
  <2> SUFFICES ASSUME IInv, [AllNext]_allVars PROVE IInv'
    OBVIOUS
  <2>1. UNCHANGED scene
    BY DEF AllNext, allVars
  <2>2. scene = "responses" => [T!Next]_T!vars
    BY DEF AllNext, allVars, free, T!vars
  <2> QED BY <2>1, <2>2, ResponseStep
<1> HIDE DEF IInv
<1> QED BY <1>1, <1>2, PTL DEF AllSpec, IInv

\* A response is what its headers say it is, in a format the client takes, for
\* any sources, conversions, headers and order of the requests and fetches.
THEOREM ResponsesAreAsLabelled == AllSpec => []SentRight
<1>1. (scene = "responses" => ResponseInv) => SentRight
  BY ResponseIsRight DEF SentRight
<1> QED BY <1>1, ResponseInvariance, PTL

\* A client is told to keep its copy only if it is what it asks for, and is
\* refused a merge only of what does not go together.
THEOREM ClientsKeepWhatIsCurrent == AllSpec => []ClientsRight
<1>1. (scene = "responses" => ResponseInv) => ClientsRight
  BY ResponseIsRight DEF ClientsRight
<1> QED BY <1>1, ResponseInvariance, PTL
-----------------------------------------------------------------------------
(* Cog.                                                                      *)

\* Division by a number that is not 0.
LEMMA Divided ==
  ASSUME NEW a \in Int, NEW b \in Nat \ {0}
  PROVE  /\ a \div b \in Int /\ a % b \in 0..(b - 1)
         /\ a = b * (a \div b) + (a % b)
OBVIOUS

LEMMA DividedInto ==
  ASSUME NEW b \in Nat \ {0}, NEW q \in Int, NEW r \in 0..(b - 1)
  PROVE  (q * b + r) \div b = q /\ (q * b + r) % b = r
<1> DEFINE a == q * b + r
<1>0. a \in Int /\ a = q * b + r
  OBVIOUS
<1> HIDE DEF a
<1>1. a = b * (a \div b) + (a % b) /\ a \div b \in Int /\ a % b \in 0..(b - 1)
  BY <1>0, Divided
<1>2. PICK e \in Int, m \in 0..(b - 1) : e = a \div b /\ m = a % b
  BY <1>1
<1>3. b * (q - e) = m - r
  BY <1>0, <1>1, <1>2
<1>4. \A d \in Int : b * d < b /\ b * d > -b => d = 0
  OBVIOUS
<1>5. b * (q - e) < b /\ b * (q - e) > -b /\ q - e \in Int
  BY <1>3
<1>6. q - e = 0
  BY <1>4, <1>5
<1>7. q = e /\ m = r
  BY <1>3, <1>6
<1>8. a \div b = q /\ a % b = r
  BY <1>2, <1>7
<1> QED BY <1>8 DEF a

\* Rounding goes to the nearer of the two sides.
LEMMA RoundedIs ==
  ASSUME NEW origin \in Nat, NEW width \in Nat \ {0}
  PROVE  LET off == origin % width
             over == origin - C!Rounded(origin, width) * width
         IN  /\ C!Rounded(origin, width) \in Nat
             /\ over = IF 2 * off < width THEN off ELSE off - width
<1>1. PICK q \in Int, off \in 0..(width - 1) :
        q = origin \div width /\ off = origin % width /\ origin = width * q + off
  BY Divided
<1>2. q \in Nat
  <2>1. q < 0 => width * q <= -width
    OBVIOUS
  <2> QED BY <1>1, <2>1
<1>3. C!Rounded(origin, width) = (2 * origin + width) \div (2 * width) /\ 2 * width \in Nat \ {0}
  BY DEF C!Rounded
<1>4. CASE 2 * off < width
  <2>1. 2 * origin + width = q * (2 * width) + (2 * off + width) /\ 2 * off + width \in 0..(2 * width - 1)
    BY <1>1, <1>4
  <2>2. (q * (2 * width) + (2 * off + width)) \div (2 * width) = q
    BY <1>3, <2>1, DividedInto
  <2>3. C!Rounded(origin, width) = q
    BY <1>3, <2>1, <2>2
  <2> QED BY <1>1, <1>2, <1>4, <2>3
<1>5. CASE ~(2 * off < width)
  <2>0. q + 1 \in Int /\ 2 * off - width \in 0..(2 * width - 1)
    BY <1>1, <1>5
  <2>1. PICK p \in Int, e \in 0..(2 * width - 1) : p = q + 1 /\ e = 2 * off - width
    BY <2>0
  <2>2. 2 * origin + width = p * (2 * width) + e
    BY <1>1, <2>1
  <2>3. (p * (2 * width) + e) \div (2 * width) = p
    BY <1>3, DividedInto
  <2>4. C!Rounded(origin, width) = p
    BY <1>3, <2>2, <2>3
  <2>5. origin - p * width = off - width /\ p \in Nat
    BY <1>1, <1>2, <2>1
  <2> QED BY <1>1, <1>5, <2>4, <2>5
<1> QED BY <1>4, <1>5

\* How far the chunks of an image are off after k pixels, if its metres per pixel
\* are off by less than wrong.
LEMMA Drift ==
  ASSUME NEW metres \in Nat, NEW size \in Nat \ {0}, NEW r \in Nat, NEW wrong \in Nat, NEW k \in Nat,
         metres - r * size < wrong * size, r * size - metres < wrong * size
  PROVE  LET d == (k * metres) \div size
         IN  d \in Int /\ d - k * r <= k * wrong /\ k * r - d <= k * wrong
<1>1. k * metres \in Int
  OBVIOUS
<1>2. PICK d \in Int, m \in 0..(size - 1) : d = (k * metres) \div size /\ k * metres = size * d + m
  BY <1>1, Divided
<1>3. PICK e \in Int : e = metres - r * size /\ e < wrong * size /\ -e < wrong * size
  OBVIOUS
<1>4. k * metres = size * (k * r) + k * e
  BY <1>3
<1>5. k * e <= size * (k * wrong) /\ -(k * e) <= size * (k * wrong)
  BY <1>3
<1>6. PICK a \in Int, w \in Int : a = k * r /\ w = k * wrong
  OBVIOUS
<1>7. size * d + m <= size * a + size * w /\ size * d + m >= size * a - size * w
  BY <1>2, <1>4, <1>5, <1>6
<1>8. d - a <= w
  <2>1. d - a >= w + 1 => size * (d - a - w) >= size
    OBVIOUS
  <2> QED BY <1>7, <2>1
<1>9. a - d <= w
  <2>1. a - d >= w + 1 => size * (a - d - w) >= size
    OBVIOUS
  <2> QED BY <1>7, <2>1
<1> QED BY <1>2, <1>6, <1>8, <1>9

tiff == v1
imagery == v2
cut == v3

Dark == {"jpeg", "webp"}

\* An image stands for a zoom its resolution is right for.
LEMMA ImageIs ==
  ASSUME NEW f \in Cogs, NEW i \in C!Read(f), C!ImageAt(f, i).zoom # -1
  PROVE  LET image == f.images[i]
             m == C!ImageAt(f, i)
             r == C!Resolution(m.zoom, image.tile)
             metres == Head(f.images).size * f.scale
         IN  /\ m.ifd = i /\ m.zoom \in 0..MaxZoom
             /\ m.across = C!Across(image) /\ m.tile = image.tile
             /\ m.origin = C!Rounded(f.origin, image.tile * r)
             /\ m.compression = image.compression
             /\ r \in Nat \ {0} /\ metres \in Nat
             /\ metres - r * image.size < AbsoluteError * image.size
             /\ r * image.size - metres < AbsoluteError * image.size
             /\ image.size \in Nat \ {0} /\ image.tile \in Nat \ {0}
             /\ m.origin \in Nat /\ m.origin + m.across <= 2 ^ m.zoom + 1
<1> DEFINE image == f.images[i]
           m == C!ImageAt(f, i)
           metres == Head(f.images).size * f.scale
           zooms == C!Matching(metres, image.size, image.tile)
           zoom == CHOOSE z \in zooms : \A y \in zooms : z <= y
<1>1. i \in DOMAIN f.images /\ 1 \in DOMAIN f.images /\ Head(f.images) = f.images[1]
  BY CogsAssumption DEF C!Read
<1>2. /\ image.size \in Nat \ {0} /\ image.tile \in Nat \ {0} /\ metres \in Nat /\ f.origin \in Nat
  <2>1. /\ \A k \in DOMAIN f.images : f.images[k].size \in Nat \ {0} /\ f.images[k].tile \in Nat \ {0}
        /\ f.scale \in Nat /\ f.origin \in Nat
    <3>1. f.scale \in Nat /\ f.origin \in Nat
      BY CogsAssumption
    <3> DEFINE Pictures == [kind : STRING, size : Nat \ {0}, tile : Nat \ {0},
                            compression : STRING, sparse : SUBSET (Nat \X Nat)]
    <3>2. f.images \in Seq(Pictures)
      BY CogsAssumption
    <3>3. ASSUME NEW k \in DOMAIN f.images PROVE f.images[k] \in Pictures
      <4> HIDE DEF Pictures
      <4> QED BY <3>2
    <3> QED BY <3>1, <3>3
  <2>2. Head(f.images).size \in Nat
    BY <1>1, <2>1
  <2> QED BY <1>1, <2>1, <2>2
<1>3. zooms # {}
  BY DEF C!ImageAt
<1>4. m = [ifd |-> i, zoom |-> zoom, across |-> C!Across(image), tile |-> image.tile,
           origin |-> C!Rounded(f.origin, image.tile * C!Resolution(zoom, image.tile)),
           compression |-> image.compression]
  BY <1>3 DEF C!ImageAt
<1>5. zooms \in SUBSET Nat /\ zooms \subseteq 0..MaxZoom
  BY CogsAssumption DEF C!Matching
<1>6. zoom \in zooms
  <2>1. \E z \in zooms : \A y \in zooms : z <= y
    BY <1>3, <1>5, LeastOf
  <2> QED BY <2>1
<1>7. zoom \in 0..MaxZoom
  BY <1>5, <1>6
<1>8. C!Resolution(zoom, image.tile) \in Nat \ {0} /\ m.origin + m.across <= 2 ^ zoom + 1
  <2>1. C!Resolution(m.zoom, m.tile) \in Nat \ {0} /\ m.origin + m.across <= 2 ^ m.zoom + 1
    BY CogsAssumption
  <2>2. m.zoom = zoom /\ m.tile = image.tile
    BY <1>4, SMTT(30)
  <2> HIDE DEF m
  <2> QED BY <2>1, <2>2
<1>9. /\ metres - C!Resolution(zoom, image.tile) * image.size < AbsoluteError * image.size
      /\ C!Resolution(zoom, image.tile) * image.size - metres < AbsoluteError * image.size
  <2> DEFINE r == C!Resolution(zoom, image.tile)
             off == metres - r * image.size
  <2>1. (IF off < 0 THEN -off ELSE off) < AbsoluteError * image.size
    BY <1>6 DEF C!Matching
  <2>2. off \in Int /\ AbsoluteError * image.size \in Int
    <3>1. AbsoluteError \in Nat
      BY CogsAssumption
    <3> HIDE DEF image, metres
    <3> QED BY <1>2, <1>8, <3>1
  <2>3. off < AbsoluteError * image.size /\ -off < AbsoluteError * image.size
    <3> HIDE DEF off
    <3> QED BY <2>1, <2>2
  <2>4. -off = r * image.size - metres
    BY <1>2, <1>8, SMTT(30)
  <2> QED BY <2>3, <2>4
<1>10. m.origin \in Nat
  <2>1. image.tile * C!Resolution(zoom, image.tile) \in Nat \ {0}
    BY <1>2, <1>8, SMTT(30)
  <2>2. m.origin = C!Rounded(f.origin, image.tile * C!Resolution(zoom, image.tile))
    BY <1>4
  <2> HIDE DEF m
  <2> QED BY <1>2, <2>1, <2>2, RoundedIs
<1> HIDE DEF zooms
<1> QED BY <1>2, <1>4, <1>7, <1>8, <1>9, <1>10

\* The image kept for a zoom is one that stands for it.
LEMMA KeptIs ==
  ASSUME NEW f \in Cogs, NEW z,
         \A i \in C!Read(f) : C!ImageAt(f, i).zoom # -1,
         \E i \in C!Read(f) : C!ImageAt(f, i).zoom = z
  PROVE  LET all == {C!ImageAt(f, i) : i \in C!Read(f)}
         IN \E i \in C!Read(f) : /\ C!Kept({m \in all : m.zoom = z}) = C!ImageAt(f, i)
                                 /\ C!ImageAt(f, i).zoom = z
<1> DEFINE n == Len(f.images)
           here == {i \in C!Read(f) : C!ImageAt(f, i).zoom = z}
           all == {C!ImageAt(f, i) : i \in C!Read(f)}
           images == {m \in all : m.zoom = z}
           same == [i \in 1..n |-> i]
<1>1. n \in Nat /\ DOMAIN f.images = 1..n
  BY CogsAssumption
<1>2. here \in SUBSET (1..n) /\ here # {}
  BY <1>1 DEF C!Read
<1>3. PICK i \in here : \A j \in here : i >= j
  <2>1. same \in [1..n -> Int] /\ \A k \in 1..n : same[k] = k
    OBVIOUS
  <2> HIDE DEF same, here, n
  <2>2. \E i \in here : \A j \in here : same[i] >= same[j]
    BY <1>1, <1>2, <2>1, Greatest
  <2> QED BY <1>2, <2>1, <2>2
<1>4. \A j \in here : C!ImageAt(f, j).ifd = j
  BY ImageIs
<1>5. \A m \in images : \E j \in here : m = C!ImageAt(f, j)
  OBVIOUS
<1>6. C!ImageAt(f, i) \in images /\ \A m \in images : C!ImageAt(f, i).ifd >= m.ifd
  BY <1>3, <1>4, <1>5
<1>7. C!Kept(images) \in images
  <2> HIDE DEF images
  <2> QED BY <1>6 DEF C!Kept
<1> QED BY <1>7

\* A tile is cut out of the image of its zoom.
CutFrom(zoom, x, y) ==
  LET m == imagery.images[zoom]
      c == C!Chunk(m, x, y)
  IN  /\ C!Covered(m, x, y)
      /\ cut.at = <<zoom, x, y>> /\ cut.from = <<m.ifd, c>> /\ cut.label = imagery.format
      /\ IF m.compression \in Dark THEN cut.format = m.compression
         ELSE cut.format = "png" /\ cut.pixels = C!Padded(tiff.images[m.ifd], c[1], c[2])

TiffInv ==
  /\ tiff \in Cogs
  /\ C!Opened =>
       /\ \A z \in C!Zooms :
            \E i \in C!Read(tiff) : imagery.images[z] = C!ImageAt(tiff, i) /\ imagery.images[z].zoom = z /\ z # -1
       /\ \E z \in C!Zooms : imagery.format = C!Format(imagery.images[z].compression)
       /\ imagery.format # "unknown"
  /\ C!Sent => C!Opened /\ \E zoom \in C!Zooms : \E x, y \in Int : CutFrom(zoom, x, y)

LEMMA TiffInit == C!Init => TiffInv
BY DEF C!Init, TiffInv, C!Opened, C!Sent, C!NoSource, C!Nothing, tiff, imagery, cut

LEMMA TiffOpens ==
  ASSUME TiffInv, C!Open
  PROVE  TiffInv'
<1> USE DEF tiff, imagery, cut
<1> DEFINE all == {C!ImageAt(v1, i) : i \in C!Read(v1)}
           zooms == {m.zoom : m \in all}
           images == [z \in zooms |-> C!Kept({m \in all : m.zoom = z})]
<1>1. v1 \in Cogs /\ v1' = v1 /\ ~C!Opened /\ v3' = v3
  BY DEF C!Open, TiffInv, C!Opened, C!NoSource
<1>2. v3.is # "tile"
  BY <1>1 DEF TiffInv, C!Sent
<1>3. CASE v2' = C!Refusal
  BY <1>1, <1>2, <1>3 DEF TiffInv, C!Opened, C!Sent, C!Refusal
<1>4. CASE v2' # C!Refusal
  <2>1. /\ -1 \notin zooms
        /\ \E z \in zooms :
             /\ C!Format(images[z].compression) # "unknown"
             /\ v2' = [is |-> "source", images |-> images, format |-> C!Format(images[z].compression)]
    BY <1>4 DEF C!Open
  <2>2. ASSUME NEW z \in zooms
        PROVE  \E i \in C!Read(v1) : images[z] = C!ImageAt(v1, i) /\ images[z].zoom = z /\ z # -1
    <3>1. \A i \in C!Read(v1) : C!ImageAt(v1, i).zoom # -1
      BY <2>1
    <3>2. \E i \in C!Read(v1) : C!ImageAt(v1, i).zoom = z
      OBVIOUS
    <3>3. \E i \in C!Read(v1) : C!Kept({m \in all : m.zoom = z}) = C!ImageAt(v1, i)
                                /\ C!ImageAt(v1, i).zoom = z
      BY <1>1, <3>1, <3>2, KeptIs
    <3>4. images[z] = C!Kept({m \in all : m.zoom = z})
      OBVIOUS
    <3> HIDE DEF images, all, zooms
    <3> QED BY <2>1, <3>1, <3>3, <3>4
  <2>3. DOMAIN images = zooms
    OBVIOUS
  <2> HIDE DEF images, all, zooms
  <2> QED BY <1>1, <1>2, <2>1, <2>2, <2>3 DEF TiffInv, C!Opened, C!Sent, C!Zooms
<1> QED BY <1>3, <1>4

LEMMA TiffCuts ==
  ASSUME TiffInv, NEW zoom \in Int, NEW x \in Int, NEW y \in Int, C!GetTile(zoom, x, y)
  PROVE  TiffInv'
<1> USE DEF tiff, imagery, cut
<1>1. v1' = v1 /\ v2' = v2 /\ C!Opened
  BY DEF C!GetTile
<1>2. C!Sent' => zoom \in C!Zooms /\ CutFrom(zoom, x, y)'
  BY <1>1 DEF C!GetTile, C!Sent, C!Nothing, C!Error, CutFrom, Dark, C!Zooms
<1> QED BY <1>1, <1>2 DEF TiffInv, C!Opened, C!Sent, C!Zooms

LEMMA TiffStep ==
  ASSUME TiffInv, [C!Next]_C!vars
  PROVE  TiffInv'
<1>1. CASE UNCHANGED C!vars
  BY <1>1 DEF TiffInv, C!vars, C!Opened, C!Sent, C!Zooms, CutFrom, tiff, imagery, cut
<1>2. CASE C!Next
  <2>1. CASE C!Open
    BY <2>1, TiffOpens
  <2>2. ASSUME NEW zoom \in 0..MaxZoom, NEW x \in 0..(2 ^ zoom - 1), NEW y \in 0..(2 ^ zoom - 1),
               C!GetTile(zoom, x, y)
        PROVE  TiffInv'
    BY <2>2, TiffCuts
  <2> QED BY <1>2, <2>1, <2>2 DEF C!Next
<1> QED BY <1>1, <1>2

\* On each axis a chunk lies where its tile does.
LEMMA AxisInPlace ==
  ASSUME NEW f \in Cogs, NEW i \in C!Read(f), C!ImageAt(f, i).zoom # -1, NEW p \in Int,
         p - C!ImageAt(f, i).origin \in Nat
  PROVE  LET image == f.images[i]
             m == C!ImageAt(f, i)
             width == image.tile * C!Resolution(m.zoom, image.tile)
             metres == Head(f.images).size * f.scale
             off == f.origin % width
             misaligned == IF 2 * off < width THEN off ELSE width - off
             column == p - m.origin
             west == f.origin + (column * image.tile * metres) \div image.size
         IN C!Size(west - p * width) <= misaligned + column * image.tile * AbsoluteError
<1> DEFINE image == f.images[i]
           m == C!ImageAt(f, i)
           r == C!Resolution(m.zoom, image.tile)
           metres == Head(f.images).size * f.scale
           width == image.tile * r
           off == f.origin % width
           column == p - m.origin
           k == column * image.tile
           d == (k * metres) \div image.size
<1>1. /\ r \in Nat \ {0} /\ metres \in Nat /\ image.size \in Nat \ {0} /\ image.tile \in Nat \ {0}
      /\ metres - r * image.size < AbsoluteError * image.size
      /\ r * image.size - metres < AbsoluteError * image.size
      /\ m.origin = C!Rounded(f.origin, width) /\ m.origin \in Nat
  BY ImageIs
<1>2. f.origin \in Nat /\ AbsoluteError \in Nat /\ column \in Nat
  BY CogsAssumption
<1> HIDE DEF image, m, r, metres
<1>3. width \in Nat \ {0} /\ k \in Nat
  BY <1>1, <1>2
<1>4. d \in Int /\ d - k * r <= k * AbsoluteError /\ k * r - d <= k * AbsoluteError
  BY <1>1, <1>2, <1>3, Drift
<1>5. f.origin - m.origin * width = IF 2 * off < width THEN off ELSE off - width
  BY <1>1, <1>2, <1>3, RoundedIs
<1>6. off \in 0..(width - 1)
  <2> HIDE DEF width
  <2>1. f.origin \in Int
    BY <1>2
  <2> QED BY <1>3, <2>1, Divided
<1>7. k * r = column * width /\ p * width = column * width + m.origin * width
  BY <1>1, <1>2, <1>3
<1>8. PICK a \in Int, b \in Int, c \in Int : a = column * width /\ b = m.origin * width /\ c = k * AbsoluteError
  BY <1>1, <1>2, <1>3
<1> HIDE DEF off, d, width
<1>9. (f.origin + d) - p * width = (f.origin - b) + (d - a)
  BY <1>2, <1>4, <1>7, <1>8
<1>10. C!Size((f.origin + d) - p * width) <= (IF 2 * off < width THEN off ELSE width - off) + c
  BY <1>2, <1>3, <1>4, <1>5, <1>6, <1>7, <1>8, <1>9 DEF C!Size
<1> QED BY <1>8, <1>10 DEF off, d, width, image, m, r, metres

\* An image that stands for a zoom is as many tiles of it as it has chunks.
LEMMA ChunksAreTiles ==
  ASSUME NEW m, NEW zoom, m.origin \in Nat, m.across \in Nat, m.origin + m.across <= 2 ^ zoom + 1,
         2 ^ zoom \in Int
  PROVE  Cardinality({c \in (0..2 ^ zoom) \X (0..2 ^ zoom) : C!Covered(m, c[1], c[2])})
           = m.across * m.across
<1> DEFINE line == m.origin..(m.origin + m.across - 1)
<1>1. {c \in (0..2 ^ zoom) \X (0..2 ^ zoom) : C!Covered(m, c[1], c[2])} = line \X line
  BY DEF C!Covered
<1>2. IsFiniteSet(line) /\ Cardinality(line) = m.across
  <2>1. m.origin \in Int /\ m.origin + m.across - 1 \in Int
    OBVIOUS
  <2>2. /\ IsFiniteSet(line)
        /\ Cardinality(line) = IF m.origin > m.origin + m.across - 1 THEN 0
                              ELSE (m.origin + m.across - 1) - m.origin + 1
    BY <2>1, FS_Interval
  <2> HIDE DEF line
  <2> QED BY <2>2
<1>3. Cardinality(line \X line) = m.across * m.across
  <2> HIDE DEF line
  <2> QED BY <1>2, FS_Product
<1> QED BY <1>1, <1>3

LEMMA AcrossIs ==
  ASSUME NEW image, image.size \in Nat \ {0}, image.tile \in Nat \ {0}
  PROVE  /\ C!Across(image) \in Nat
         /\ \A column \in 0..(C!Across(image) - 1) : column * image.tile < image.size
<1> DEFINE a == image.size + image.tile - 1
<1>1. PICK q \in Int, r \in 0..(image.tile - 1) : q = C!Across(image) /\ a = image.tile * q + r
  <2>1. a \in Int
    OBVIOUS
  <2>2. C!Across(image) = a \div image.tile
    BY DEF C!Across
  <2> HIDE DEF a
  <2> QED BY <2>1, <2>2, Divided
<1>2. q >= 0
  <2>1. q < 0 => image.tile * q <= -image.tile
    OBVIOUS
  <2> QED BY <1>1, <2>1
<1>3. ASSUME NEW column \in 0..(q - 1) PROVE column * image.tile < image.size
  <2>1. image.tile * (q - 1) >= image.tile * column
    BY <1>2, <1>3
  <2>2. image.tile * (q - 1) = image.tile * q - image.tile
    OBVIOUS
  <2> QED BY <1>1, <2>1, <2>2
<1> QED BY <1>1, <1>2, <1>3

\* The image a tile is cut out of, and its place.
LEMMA CutIs ==
  ASSUME TiffInv, NEW zoom \in C!Zooms, C!Opened
  PROVE  \E i \in C!Read(tiff) :
           /\ imagery.images[zoom] = C!ImageAt(tiff, i)
           /\ C!ImageAt(tiff, i).zoom = zoom /\ C!ImageAt(tiff, i).zoom # -1
BY DEF TiffInv, tiff, imagery

LEMMA TilesAreInPlace ==
  ASSUME TiffInv
  PROVE  C!TilesInPlace
<1> USE DEF tiff, imagery, cut
<1> SUFFICES ASSUME C!Opened PROVE C!TilesInPlace
  BY DEF C!TilesInPlace
<1>0. v1 \in Cogs
  BY DEF TiffInv
<1> DEFINE Placed == LET zoom == v3.at[1]
                         image == v1.images[v3.from[1]]
                         width == image.tile * C!Resolution(zoom, image.tile)
                         metres == Head(v1.images).size * v1.scale
                         off == v1.origin % width
                         misaligned == IF 2 * off < width THEN off ELSE width - off
                     IN \A axis \in {1, 2} :
                          LET west == v1.origin + (v3.from[2][axis] * image.tile * metres) \div image.size
                          IN C!Size(west - v3.at[axis + 1] * width)
                               <= misaligned + v3.from[2][axis] * image.tile * AbsoluteError
<1>1. ASSUME C!Sent PROVE Placed
  <2>1. PICK zoom \in C!Zooms, x \in Int, y \in Int : CutFrom(zoom, x, y)
    BY <1>1 DEF TiffInv
  <2>2. PICK i \in C!Read(v1) : /\ v2.images[zoom] = C!ImageAt(v1, i)
                                /\ C!ImageAt(v1, i).zoom = zoom /\ C!ImageAt(v1, i).zoom # -1
    BY CutIs
  <2> DEFINE m == C!ImageAt(v1, i)
  <2>3. m.ifd = i /\ m.origin \in Nat
    BY <1>0, <2>2, ImageIs
  <2>4. /\ v3.at = <<zoom, x, y>> /\ v3.from = <<i, <<x - m.origin, y - m.origin>>>>
        /\ x - m.origin \in Nat /\ y - m.origin \in Nat
    <3> HIDE DEF m
    <3> QED BY <2>1, <2>2, <2>3 DEF CutFrom, C!Chunk, C!Covered, m
  <2>5. m.zoom = zoom
    BY <2>2
  <2> DEFINE On(p) ==
        LET image == v1.images[i]
            width == image.tile * C!Resolution(zoom, image.tile)
            metres == Head(v1.images).size * v1.scale
            off == v1.origin % width
            misaligned == IF 2 * off < width THEN off ELSE width - off
            west == v1.origin + ((p - m.origin) * image.tile * metres) \div image.size
        IN C!Size(west - p * width) <= misaligned + (p - m.origin) * image.tile * AbsoluteError
  <2>6. On(x)
    BY <1>0, <2>2, <2>4, AxisInPlace
  <2>7. On(y)
    BY <1>0, <2>2, <2>4, AxisInPlace
  <2> HIDE DEF m
  <2> QED BY <2>4, <2>6, <2>7, SMTT(30)
<1>2. ASSUME NEW zoom \in C!Zooms
      PROVE  LET m == v2.images[zoom]
             IN Cardinality({c \in (0..2 ^ zoom) \X (0..2 ^ zoom) : C!Covered(m, c[1], c[2])})
                  = m.across * m.across
  <2>1. PICK i \in C!Read(v1) : /\ v2.images[zoom] = C!ImageAt(v1, i)
                                /\ C!ImageAt(v1, i).zoom = zoom /\ C!ImageAt(v1, i).zoom # -1
    BY CutIs
  <2> DEFINE m == C!ImageAt(v1, i)
  <2>2. m.origin \in Nat /\ m.across \in Nat /\ m.origin + m.across <= 2 ^ zoom + 1 /\ zoom \in 0..MaxZoom
    BY <1>0, <2>1, ImageIs, AcrossIs
  <2>3. 2 ^ zoom \in Int
    <3>1. zoom \in Nat
      BY <2>2, CogsAssumption
    <3> QED BY <3>1
  <2> HIDE DEF m
  <2>4. Cardinality({c \in (0..2 ^ zoom) \X (0..2 ^ zoom) : C!Covered(m, c[1], c[2])})
          = m.across * m.across
    BY <2>2, <2>3, ChunksAreTiles
  <2> QED BY <2>1, <2>4 DEF m
<1>3. \A zoom \in C!Zooms :
         LET m == v2.images[zoom]
         IN C!Cardinality({c \in (0..2 ^ zoom) \X (0..2 ^ zoom) : C!Covered(m, c[1], c[2])})
              = m.across * m.across
  <2>1. \A Some : C!Cardinality(Some) = Cardinality(Some)
    BY DEF C!Cardinality, Cardinality
  <2> QED BY <1>2, <2>1
<1> HIDE DEF Placed
<1>4. C!TilesInPlace <=> (C!Sent => Placed) /\ \A zoom \in C!Zooms :
         LET m == v2.images[zoom]
         IN C!Cardinality({c \in (0..2 ^ zoom) \X (0..2 ^ zoom) : C!Covered(m, c[1], c[2])})
              = m.across * m.across
  BY DEF C!TilesInPlace, Placed
<1> QED BY <1>1, <1>3, <1>4

LEMMA PixelsAreInPlace ==
  ASSUME TiffInv
  PROVE  C!PixelsInPlace
<1> USE DEF tiff, imagery, cut
<1> SUFFICES ASSUME C!Opened, C!Sent, v3.format = "png" PROVE C!PixelsInPlace
  BY DEF C!PixelsInPlace
<1>1. v1 \in Cogs
  BY DEF TiffInv
<1>2. PICK zoom \in C!Zooms, x \in Int, y \in Int : CutFrom(zoom, x, y)
  BY DEF TiffInv
<1>3. PICK i \in C!Read(v1) : /\ v2.images[zoom] = C!ImageAt(v1, i)
                              /\ C!ImageAt(v1, i).zoom = zoom /\ C!ImageAt(v1, i).zoom # -1
  BY CutIs
<1> DEFINE m == C!ImageAt(v1, i)
           image == v1.images[i]
           left == x - m.origin
           top == y - m.origin
<1>4. /\ m.ifd = i /\ m.origin \in Nat /\ m.across = C!Across(image)
      /\ image.size \in Nat \ {0} /\ image.tile \in Nat \ {0}
  BY <1>1, <1>3, ImageIs
<1>5. /\ v3.from = <<i, <<left, top>>>>
      /\ v3.pixels = C!Padded(image, left, top)
      /\ left \in 0..(m.across - 1) /\ top \in 0..(m.across - 1)
  <2> HIDE DEF m
  <2> QED BY <1>2, <1>3, <1>4 DEF CutFrom, C!Chunk, C!Covered, Dark, m
<1> HIDE DEF m, image
<1>6. left * image.tile < image.size /\ top * image.tile < image.size /\ left \in Nat /\ top \in Nat
  BY <1>4, <1>5, AcrossIs
<1> DEFINE width == C!DataWidth(image, left)
           height == C!DataWidth(image, top)
<1>7. /\ width \in Nat \ {0} /\ height \in Nat \ {0}
      /\ \A p \in 0..(image.tile - 1) : p < width <=> left * image.tile + p < image.size
      /\ \A p \in 0..(image.tile - 1) : p < height <=> top * image.tile + p < image.size
  BY <1>4, <1>6 DEF C!DataWidth
<1> HIDE DEF left, top
<1>8. ASSUME NEW p \in (0..(image.tile - 1)) \X (0..(image.tile - 1))
      PROVE  LET at == <<left * image.tile + p[1], top * image.tile + p[2]>>
             IN C!Padded(image, left, top)[p] = IF at[1] < image.size /\ at[2] < image.size THEN at ELSE <<>>
  <2>1. p[1] \in 0..(image.tile - 1) /\ p[2] \in 0..(image.tile - 1)
    OBVIOUS
  <2>2. C!Padded(image, left, top)[p] =
          IF p[1] < width /\ p[2] < height THEN C!Data(image, left, top)[p[2] * width + p[1]] ELSE <<>>
    BY DEF C!Padded
  <2>3. ASSUME p[1] < width, p[2] < height
        PROVE  C!Data(image, left, top)[p[2] * width + p[1]]
                 = <<left * image.tile + p[1], top * image.tile + p[2]>>
    <3> DEFINE k == p[2] * width + p[1]
    <3> HIDE DEF width, height
    <3>0. p[1] \in 0..(width - 1) /\ p[2] \in Int
      BY <1>7, <2>1, <2>3
    <3>1. k \div width = p[2] /\ k % width = p[1]
      BY <1>7, <3>0, DividedInto
    <3>2. k \in 0..(width * height - 1)
      <4>1. p[2] * width <= (height - 1) * width
        BY <1>7, <2>1, <2>3
      <4>2. (height - 1) * width = width * height - width
        BY <1>7
      <4> QED BY <1>7, <2>1, <2>3, <4>1, <4>2
    <3> HIDE DEF k
    <3> QED BY <3>1, <3>2 DEF C!Data, width, height, k
  <2> QED BY <1>7, <2>1, <2>2, <2>3
<1>9. DOMAIN C!Padded(image, left, top) = (0..(image.tile - 1)) \X (0..(image.tile - 1))
  BY DEF C!Padded
<1> HIDE DEF width, height
<1> QED BY <1>5, <1>8, <1>9 DEF C!PixelsInPlace, image

LEMMA LabelsAreAlike ==
  ASSUME TiffInv
  PROVE  C!LabelledAlike
<1> USE DEF tiff, imagery, cut
<1> SUFFICES ASSUME C!Opened, C!Sent,
                    \A z, y \in C!Zooms : v2.images[z].compression = v2.images[y].compression
             PROVE  v3.label = v3.format
  BY DEF C!LabelledAlike
<1>1. PICK zoom \in C!Zooms, x \in Int, y \in Int : CutFrom(zoom, x, y)
  BY DEF TiffInv
<1>2. v2.format = C!Format(v2.images[zoom].compression) /\ v2.format # "unknown"
  BY DEF TiffInv
<1> QED BY <1>1, <1>2 DEF CutFrom, C!Format, Dark

-----------------------------------------------------------------------------
(* MbtilesSource.                                                            *)

schema == v1
stored == v2
filler == v4
reading == v5
checking == v6

\* What the statements of a type make.
Parts(type) ==
  {B!Metadata} \cup
  CASE type = "flat" -> {B!TilesTable}
    [] type = "flat-with-hash" -> {B!HashTable, B!TilesView("tiles_with_hash")}
    [] type = "normalized" -> {B!Map, B!Images, B!TilesView("map")}
    [] type = "normalized-with-view" -> {B!Map, B!Images, B!TilesView("map"), B!HashView}

Types == {"flat", "flat-with-hash", "normalized", "normalized-with-view"}

\* No two objects have one name, and `tiles` shows the main table.
WellFormed(objs) ==
  /\ \A o, p \in objs : o.name = p.name => o = p
  /\ B!DetectedType(objs) # "unknown" =>
       \A o \in objs : o.name = "tiles" => o.over = B!MainTable(B!DetectedType(objs))

\* What is written as of a type goes into the main table.
WrittenWhereRead(objs, type) ==
  B!Writable(objs, type) =>
    /\ B!DetectedType(objs) \notin {"unknown", "dedup"}
    /\ B!WrittenTable(type) = B!MainTable(B!DetectedType(objs))

LEMMA PartsAre ==
  /\ B!Metadata.name = "metadata"
  /\ B!TilesTable.name = "tiles" /\ B!TilesTable.table /\ B!TilesTable.unique /\ B!TilesTable.over = "tiles"
  /\ B!HashTable.name = "tiles_with_hash" /\ B!HashTable.table /\ B!HashTable.unique
  /\ B!Map.name = "map" /\ B!Map.table /\ B!Map.unique
  /\ B!Images.name = "images"
  /\ \A over : LET view == B!TilesView(over) IN view.name = "tiles" /\ ~view.table /\ view.over = over
  /\ B!HashView.name = "tiles_with_hash" /\ ~B!HashView.table
BY DEF B!Metadata, B!TilesTable, B!HashTable, B!Map, B!Images, B!TilesView, B!HashView, B!Table, B!View

LEMMA FlatParts ==
  ASSUME NEW objs \in SUBSET Parts("flat")
  PROVE  WellFormed(objs) /\ WrittenWhereRead(objs, "flat")
<1>1. \A o \in objs : o = B!Metadata \/ o = B!TilesTable
  BY DEF Parts
<1>2. \A o \in objs : o.name \in {"metadata", "tiles"}
  BY <1>1, PartsAre
<1>3. B!TypeOfTables(objs) = IF B!IsFlat(objs) THEN "flat" ELSE "unknown"
  BY <1>2 DEF B!TypeOfTables, B!IsNormalized, B!IsDedup, B!IsFlatWithHash, B!HasHash, B!HasTable, B!HasColumns
<1>4. B!IsFlat(objs) => B!TilesTable \in objs
  BY <1>1, PartsAre DEF B!IsFlat, B!HasTable
<1>5. B!IsFlat(objs) => B!DetectedType(objs) = "flat"
  BY <1>3, <1>4, PartsAre DEF B!DetectedType, B!MainTable
<1>6. ~B!IsFlat(objs) => B!DetectedType(objs) = "unknown"
  BY <1>3 DEF B!DetectedType
<1>7. B!MainTable("flat") = "tiles" /\ B!WrittenTable("flat") = "tiles" /\ (B!Writable(objs, "flat") <=> B!IsFlat(objs))
  BY DEF B!MainTable, B!WrittenTable, B!Writable
<1>8. \A o, p \in objs : o.name = p.name => o = p
  BY <1>1, PartsAre
<1>9. \A o \in objs : o.name = "tiles" => o.over = "tiles"
  BY <1>1, PartsAre
<1> QED BY <1>5, <1>6, <1>7, <1>8, <1>9 DEF WellFormed, WrittenWhereRead

LEMMA HashParts ==
  ASSUME NEW objs \in SUBSET Parts("flat-with-hash")
  PROVE  WellFormed(objs) /\ WrittenWhereRead(objs, "flat-with-hash")
<1>1. \A o \in objs : o = B!Metadata \/ o = B!HashTable \/ o = B!TilesView("tiles_with_hash")
  BY DEF Parts
<1>2. \A o \in objs : o.name \in {"metadata", "tiles_with_hash", "tiles"} /\ (o.name = "tiles" => ~o.table)
  BY <1>1, PartsAre
<1>3. B!TypeOfTables(objs) = IF B!IsFlatWithHash(objs) THEN "flat-with-hash" ELSE "unknown"
  BY <1>2 DEF B!TypeOfTables, B!IsNormalized, B!IsDedup, B!IsFlat, B!HasTable, B!HasColumns
<1>4. B!IsFlatWithHash(objs) => B!HashTable \in objs
  BY <1>1, PartsAre DEF B!IsFlatWithHash
<1>5. B!IsFlatWithHash(objs) => B!DetectedType(objs) = "flat-with-hash"
  BY <1>3, <1>4, PartsAre DEF B!DetectedType, B!MainTable
<1>6. ~B!IsFlatWithHash(objs) => B!DetectedType(objs) = "unknown"
  BY <1>3 DEF B!DetectedType
<1>7. /\ B!MainTable("flat-with-hash") = "tiles_with_hash" /\ B!WrittenTable("flat-with-hash") = "tiles_with_hash"
      /\ (B!Writable(objs, "flat-with-hash") <=> B!IsFlatWithHash(objs))
  BY DEF B!MainTable, B!WrittenTable, B!Writable
<1>8. \A o, p \in objs : o.name = p.name => o = p
  BY <1>1, PartsAre
<1>9. \A o \in objs : o.name = "tiles" => o.over = "tiles_with_hash"
  BY <1>1, PartsAre
<1> QED BY <1>5, <1>6, <1>7, <1>8, <1>9 DEF WellFormed, WrittenWhereRead

LEMMA NormalizedParts ==
  ASSUME NEW type \in {"normalized", "normalized-with-view"}, NEW objs \in SUBSET Parts(type)
  PROVE  WellFormed(objs) /\ WrittenWhereRead(objs, type)
<1>1. \A o \in objs : o = B!Metadata \/ o = B!Map \/ o = B!Images \/ o = B!TilesView("map") \/ o = B!HashView
  BY DEF Parts
<1>2. \A o \in objs : o.name \in {"tiles", "tiles_with_hash"} => ~o.table
  BY <1>1, PartsAre
<1>3. B!TypeOfTables(objs) \in IF B!IsNormalized(objs) THEN {"normalized", "normalized-with-view"} ELSE {"unknown"}
  <2>1. ~B!IsDedup(objs)
    <3>1. \A o \in objs : o.name \in {"metadata", "map", "images", "tiles", "tiles_with_hash"}
      BY <1>1, PartsAre
    <3> QED BY <3>1 DEF B!IsDedup, B!HasTable
  <2>2. ~B!IsFlatWithHash(objs)
    BY <1>2 DEF B!IsFlatWithHash
  <2>3. ~B!IsFlat(objs)
    BY <1>2 DEF B!IsFlat, B!HasTable
  <2> QED BY <2>1, <2>2, <2>3 DEF B!TypeOfTables
<1>4. B!IsNormalized(objs) => B!Map \in objs
  BY <1>1, PartsAre DEF B!IsNormalized, B!HasTable
<1>5. B!IsNormalized(objs) => B!DetectedType(objs) \in {"normalized", "normalized-with-view"}
  BY <1>3, <1>4, PartsAre DEF B!DetectedType, B!MainTable
<1>6. ~B!IsNormalized(objs) => B!DetectedType(objs) = "unknown"
  BY <1>3 DEF B!DetectedType
<1>7. /\ B!MainTable("normalized") = "map" /\ B!MainTable("normalized-with-view") = "map"
      /\ B!WrittenTable(type) = "map" /\ (B!Writable(objs, type) <=> B!IsNormalized(objs))
  BY DEF B!MainTable, B!WrittenTable, B!Writable
<1>8. \A o, p \in objs : o.name = p.name => o = p
  BY <1>1, PartsAre
<1>9. \A o \in objs : o.name = "tiles" => o.over = "map"
  BY <1>1, PartsAre
<1> QED BY <1>5, <1>6, <1>7, <1>8, <1>9 DEF WellFormed, WrittenWhereRead

LEMMA PartsFit ==
  ASSUME NEW type \in Types, NEW objs \in SUBSET Parts(type)
  PROVE  WellFormed(objs) /\ WrittenWhereRead(objs, type)
BY FlatParts, HashParts, NormalizedParts DEF Types

\* A type that was detected is written where it is read.
LEMMA DetectedFits ==
  ASSUME NEW objs, B!DetectedType(objs) # "unknown"
  PROVE  WrittenWhereRead(objs, B!DetectedType(objs))
<1>1. B!DetectedType(objs) = B!TypeOfTables(objs)
  BY DEF B!DetectedType
<1>2. B!TypeOfTables(objs) = "dedup" => ~B!Writable(objs, "dedup")
  <2>1. B!Writable(objs, "dedup") <=> B!IsNormalized(objs)
    BY DEF B!Writable
  <2>2. B!IsNormalized(objs) => B!TypeOfTables(objs) # "dedup"
    BY DEF B!TypeOfTables
  <2> QED BY <2>1, <2>2
<1> QED BY <1>1, <1>2 DEF WrittenWhereRead, B!WrittenTable

\* A stored tile; its body is none or one.
IsRow(r) ==
  /\ r = [in |-> r.in, z |-> r.z, x |-> r.x, y |-> r.y, body |-> r.body]
  /\ r.z \in Int /\ r.x \in Int /\ r.y \in Int
  /\ \A b, c \in r.body : b = c

Main == B!MainTable(B!DetectedType(schema))

LiesAt(r, place) ==
  r.in = Main /\ r.z = place.z /\ r.x = place.x /\ r.y = 2 ^ place.z - 1 - place.y

\* A place that was written has one tile, what was written last.
Holds(w) ==
  /\ \E r \in stored : LiesAt(r, w.place)
  /\ \A r \in stored : LiesAt(r, w.place) => r.body = {w.body}

RowsInv == \A r \in stored : IsRow(r)

FillInv ==
  /\ filler = [phase |-> filler.phase, type |-> filler.type, mode |-> filler.mode, todo |-> filler.todo,
               runs |-> filler.runs, left |-> filler.left, wrote |-> filler.wrote]
  /\ WellFormed(schema)
  /\ filler.phase = "create" =>
       /\ filler.type \in Types /\ filler.wrote = {}
       /\ schema \in SUBSET Parts(filler.type) /\ filler.todo \in Seq(Parts(filler.type))
  /\ filler.phase = "write" => WrittenWhereRead(schema, filler.type)
  /\ filler.wrote # {} => B!DetectedType(schema) \notin {"unknown", "dedup"}
  /\ \A w \in filler.wrote : w.place \in TilePlaces /\ Holds(w)

MbtilesInv == RowsInv /\ FillInv

LEMMA NothingDetected == B!DetectedType({}) = "unknown"
BY DEF B!DetectedType

LEMMA MbtilesInit == B!Init => MbtilesInv
<1> USE DEF schema, stored, filler
<1> SUFFICES ASSUME B!Init PROVE MbtilesInv
  OBVIOUS
<1>1. v4 = B!NoTool
  BY DEF B!Init
<1>2. WellFormed(v1) /\ RowsInv
  <2>1. CASE v1 = {} /\ v2 = {}
    BY <2>1, NothingDetected DEF WellFormed, RowsInv
  <2>2. ASSUME NEW f \in Foreign, v1 = f.objects, v2 = f.rows
        PROVE  WellFormed(v1) /\ RowsInv
    BY <2>2, ForeignAssumption DEF WellFormed, RowsInv, IsRow
  <2> QED BY <2>1, <2>2 DEF B!Init
<1> QED BY <1>1, <1>2 DEF MbtilesInv, FillInv, B!NoTool

LEMMA StatementsAre ==
  ASSUME NEW type \in Types
  PROVE  B!Statements(type) \in Seq(Parts(type))
<1>1. PICK rest : /\ B!Statements(type) = <<B!Metadata>> \o rest
                  /\ type = "flat" => rest = <<B!TilesTable>>
                  /\ type = "flat-with-hash" => rest = <<B!HashTable, B!TilesView("tiles_with_hash")>>
                  /\ type = "normalized" => rest = <<B!Map, B!Images, B!TilesView("map")>>
                  /\ type = "normalized-with-view" => rest = <<B!Map, B!Images, B!TilesView("map"), B!HashView>>
  BY DEF B!Statements
<1>2. \A Some : \A a, b, c, d \in Some :
        <<a>> \in Seq(Some) /\ <<a, b>> \in Seq(Some) /\ <<a, b, c>> \in Seq(Some) /\ <<a, b, c, d>> \in Seq(Some)
  OBVIOUS
<1>3. B!Metadata \in Parts(type)
  BY DEF Parts
<1>4. rest \in Seq(Parts(type))
  <2>1. CASE type = "flat"
    <3>1. B!TilesTable \in Parts(type)
      BY <2>1 DEF Parts
    <3> QED BY <1>1, <1>2, <2>1, <3>1
  <2>2. CASE type = "flat-with-hash"
    <3>1. B!HashTable \in Parts(type) /\ B!TilesView("tiles_with_hash") \in Parts(type)
      BY <2>2 DEF Parts
    <3> QED BY <1>1, <1>2, <2>2, <3>1
  <2>3. CASE type = "normalized"
    <3>1. B!Map \in Parts(type) /\ B!Images \in Parts(type) /\ B!TilesView("map") \in Parts(type)
      BY <2>3 DEF Parts
    <3> QED BY <1>1, <1>2, <2>3, <3>1, ZenonT(60)
  <2>4. CASE type = "normalized-with-view"
    <3>1. /\ B!Map \in Parts(type) /\ B!Images \in Parts(type) /\ B!TilesView("map") \in Parts(type)
          /\ B!HashView \in Parts(type)
      BY <2>4 DEF Parts
    <3>2. PICK a \in Parts(type), b \in Parts(type), c \in Parts(type), d \in Parts(type) :
            a = B!Map /\ b = B!Images /\ c = B!TilesView("map") /\ d = B!HashView
      BY <3>1
    <3>3. <<a, b, c, d>> \in Seq(Parts(type))
      OBVIOUS
    <3> QED BY <1>1, <2>4, <3>2, <3>3
  <2> QED BY <2>1, <2>2, <2>3, <2>4 DEF Types
<1>5. <<B!Metadata>> \in Seq(Parts(type))
  BY <1>2, <1>3
<1>6. <<B!Metadata>> \o rest \in Seq(Parts(type))
  <2> DEFINE first == <<B!Metadata>>
  <2> HIDE DEF first
  <2> QED BY <1>4, <1>5, ConcatProperties DEF first
<1> QED BY <1>1, <1>6

\* Nothing but the tool's own state changes.
LEMMA FillFrame ==
  ASSUME MbtilesInv, v1' = v1, v2' = v2, filler'.wrote = filler.wrote
  PROVE  /\ RowsInv' /\ WellFormed(schema)'
         /\ filler'.wrote # {} => B!DetectedType(schema)' \notin {"unknown", "dedup"}
         /\ \A w \in filler'.wrote : w.place \in TilePlaces /\ Holds(w)'
BY DEF MbtilesInv, RowsInv, FillInv, WellFormed, Holds, LiesAt, Main, schema, stored

LEMMA StartFills ==
  ASSUME MbtilesInv, NEW type \in Asked, NEW mode \in Modes, B!Start(type, mode)
  PROVE  MbtilesInv'
<1> USE DEF schema, stored, filler
<1>1. v1' = v1 /\ v2' = v2
  BY DEF B!Start
<1>2. v4'.wrote = v4.wrote
      /\ v4' = [phase |-> v4'.phase, type |-> v4'.type, mode |-> v4'.mode, todo |-> v4'.todo,
                runs |-> v4'.runs, left |-> v4'.left, wrote |-> v4'.wrote]
  BY DEF B!Start, MbtilesInv, FillInv
<1>3. CASE v1 = {}
  <2>1. v4'.phase = "create" /\ v4'.type = type /\ v4'.todo = B!Statements(type)
    BY <1>3 DEF B!Start, MbtilesInv, FillInv
  <2>2. type \in Types /\ B!Statements(type) \in Seq(Parts(type))
    BY ForeignAssumption, StatementsAre DEF Types
  <2>3. v4.wrote = {}
    BY <1>3, NothingDetected DEF MbtilesInv, FillInv
  <2> QED BY <1>1, <1>2, <1>3, <2>1, <2>2, <2>3, FillFrame DEF MbtilesInv, FillInv
<1>4. CASE v1 # {}
  <2>1. v4'.phase # "create" /\ v4'.type = B!DetectedType(v1)
    BY <1>4 DEF B!Start, MbtilesInv, FillInv
  <2>2. v4'.phase = "write" => B!DetectedType(v1) # "unknown"
    BY <1>4 DEF B!Start, MbtilesInv, FillInv
  <2>3. v4'.phase = "write" => WrittenWhereRead(v1, v4'.type)
    BY <2>1, <2>2, DetectedFits
  <2> QED BY <1>1, <1>2, <2>1, <2>3, FillFrame DEF MbtilesInv, FillInv
<1> QED BY <1>3, <1>4

LEMMA CreateFills ==
  ASSUME MbtilesInv, B!CreateNext
  PROVE  MbtilesInv'
<1> USE DEF schema, stored, filler
<1> DEFINE type == v4.type
<1>1. v4.phase = "create" /\ type \in Types /\ v4.todo # <<>> /\ v4.wrote = {}
      /\ v1 \in SUBSET Parts(type) /\ v4.todo \in Seq(Parts(type)) /\ v2' = v2
  BY DEF B!CreateNext, MbtilesInv, FillInv
<1>2. v4' = [v4 EXCEPT !.todo = Tail(@)]
  BY DEF B!CreateNext
<1>3. v4' = [phase |-> "create", type |-> type, mode |-> v4.mode, todo |-> Tail(v4.todo),
             runs |-> v4.runs, left |-> v4.left, wrote |-> {}]
  BY <1>1, <1>2 DEF MbtilesInv, FillInv
<1> HIDE DEF type
<1>4. Head(v4.todo) \in Parts(type) /\ Tail(v4.todo) \in Seq(Parts(type))
  BY <1>1
<1>5. v1' \in SUBSET Parts(type)
  BY <1>1, <1>4 DEF B!CreateNext
<1>6. WellFormed(v1')
  BY <1>1, <1>5, PartsFit
<1>7. RowsInv'
  BY <1>1 DEF MbtilesInv, RowsInv
<1> QED BY <1>1, <1>3, <1>4, <1>5, <1>6, <1>7 DEF MbtilesInv, FillInv, WellFormed

LEMMA FillsOn ==
  ASSUME MbtilesInv, B!WriteMetadata \/ B!Finish \/ B!Kill
  PROVE  MbtilesInv'
<1> USE DEF schema, stored, filler
<1>1. v1' = v1 /\ v2' = v2
  BY DEF B!WriteMetadata, B!Finish, B!Kill
<1>2. /\ v4'.wrote = v4.wrote /\ v4'.type = v4.type
      /\ v4' = [phase |-> v4'.phase, type |-> v4'.type, mode |-> v4'.mode, todo |-> v4'.todo,
                runs |-> v4'.runs, left |-> v4'.left, wrote |-> v4'.wrote]
  BY DEF B!WriteMetadata, B!Finish, B!Kill, MbtilesInv, FillInv
<1>3. /\ v4'.phase \in {"write", "done", "killed"}
      /\ v4'.phase = "write" => v4.phase = "create"
  BY DEF B!WriteMetadata, B!Finish, B!Kill, MbtilesInv, FillInv
<1>4. v4'.phase = "write" => WrittenWhereRead(v1, v4.type)
  BY <1>3, PartsFit DEF MbtilesInv, FillInv
<1> QED BY <1>1, <1>2, <1>3, <1>4, FillFrame DEF MbtilesInv, FillInv

LEMMA InsertFills ==
  ASSUME MbtilesInv, NEW place \in TilePlaces, NEW body \in Bodies, B!Insert(place, body)
  PROVE  MbtilesInv'
<1> USE DEF schema, stored, filler
<1> DEFINE table == B!WrittenTable(v4.type)
           row == [in |-> table, z |-> place.z, x |-> place.x, y |-> 2 ^ place.z - 1 - place.y, body |-> {body}]
           there == {r \in v2 : [r EXCEPT !.body = {body}] = row}
           fails == ~B!Writable(v1, v4.type) \/ (there # {} /\ v4.mode = "abort")
           skips == there # {} /\ v4.mode = "ignore"
<1>1. v4.phase = "write" /\ v1' = v1
  BY DEF B!Insert
<1>2. CASE fails \/ skips
  <2>1. v2' = v2 /\ v4' = [v4 EXCEPT !.left = @ - 1, !.phase = IF fails THEN "failed" ELSE @]
    BY <1>2 DEF B!Insert
  <2>2. v4' = [phase |-> IF fails THEN "failed" ELSE "write", type |-> v4.type, mode |-> v4.mode,
               todo |-> v4.todo, runs |-> v4.runs, left |-> v4.left - 1, wrote |-> v4.wrote]
    BY <1>1, <2>1 DEF MbtilesInv, FillInv
  <2> HIDE DEF fails
  <2> QED BY <1>1, <2>1, <2>2, FillFrame DEF MbtilesInv, FillInv
<1>3. CASE ~(fails \/ skips)
  <2> DEFINE new == {w \in v4.wrote : w.place # place} \cup {[place |-> place, body |-> body]}
  <2>1. /\ v2' = (v2 \ there) \cup {row}
        /\ v4' = [v4 EXCEPT !.left = @ - 1, !.wrote = new]
    BY <1>3 DEF B!Insert
  <2>2. v4' = [phase |-> "write", type |-> v4.type, mode |-> v4.mode,
               todo |-> v4.todo, runs |-> v4.runs, left |-> v4.left - 1, wrote |-> new]
    BY <1>1, <2>1 DEF MbtilesInv, FillInv
  <2>3. /\ B!DetectedType(v1) \notin {"unknown", "dedup"} /\ table = Main
        /\ WrittenWhereRead(v1, v4.type)
    BY <1>1, <1>3 DEF MbtilesInv, FillInv, WrittenWhereRead, Main
  <2>4. Main' = Main
    BY <1>1 DEF Main
  <2>6. place.z \in Nat /\ place.x \in Int /\ place.y \in Int /\ 2 ^ place.z \in Int
    BY ForeignAssumption
  <2>7. ASSUME NEW r \in v2
        PROVE  r \in there <=> LiesAt(r, place)
    <3>1. r = [in |-> r.in, z |-> r.z, x |-> r.x, y |-> r.y, body |-> r.body]
      BY DEF MbtilesInv, RowsInv, IsRow
    <3>2. [r EXCEPT !.body = {body}] = [in |-> r.in, z |-> r.z, x |-> r.x, y |-> r.y, body |-> {body}]
      BY <3>1
    <3> HIDE DEF table
    <3> QED BY <2>3, <3>2 DEF LiesAt
  <2>8. IsRow(row) /\ row.body = {body} /\ LiesAt(row, place)
    <3> HIDE DEF table
    <3> QED BY <2>3, <2>6 DEF IsRow, LiesAt
  <2> HIDE DEF there, row, table, fails, skips
  <2>9. RowsInv'
    BY <2>1, <2>8 DEF MbtilesInv, RowsInv
  <2>10. \A r \in v2' : r = row \/ (r \in v2 /\ ~LiesAt(r, place))
    BY <2>1, <2>7
  <2>11. \A r, p : LiesAt(r, p)' <=> LiesAt(r, p)
    BY <2>4 DEF LiesAt
  <2>12. ASSUME NEW w \in new
         PROVE  w.place \in TilePlaces /\ Holds(w)'
    <3>1. CASE w = [place |-> place, body |-> body]
      <4>1. w.place = place /\ w.body = body
        BY <3>1
      <4> QED BY <2>1, <2>8, <2>10, <2>11, <4>1 DEF Holds
    <3>2. CASE w \in v4.wrote /\ w.place # place
      <4>1. w.place \in TilePlaces /\ Holds(w)
        BY <3>2 DEF MbtilesInv, FillInv
      <4>2. ~(w.place.z = place.z /\ w.place.x = place.x /\ w.place.y = place.y)
        BY <3>2, <4>1, ForeignAssumption
      <4>3. \A r : LiesAt(r, place) => ~LiesAt(r, w.place)
        <5>1. w.place.z \in Nat /\ w.place.y \in Int
          BY <4>1, ForeignAssumption
        <5> QED BY <2>6, <4>2, <5>1 DEF LiesAt
      <4>4. \A r \in v2 : LiesAt(r, w.place) => r \in v2'
        BY <2>1, <2>7, <4>3
      <4>5. \A r \in v2' : LiesAt(r, w.place) => r \in v2
        BY <2>8, <2>10, <4>3
      <4> QED BY <2>11, <4>1, <4>4, <4>5 DEF Holds
    <3> QED BY <3>1, <3>2
  <2> HIDE DEF new
  <2> QED BY <1>1, <2>2, <2>3, <2>9, <2>12 DEF MbtilesInv, FillInv, WellFormed, WrittenWhereRead
<1> QED BY <1>2, <1>3

\* What is read is what was written.
LEMMA WrittenAreFound ==
  ASSUME MbtilesInv
  PROVE  B!WrittenIsFound
<1> USE DEF schema, stored, filler
<1> SUFFICES ASSUME B!Readable, NEW w \in v4.wrote
             PROVE  {r.body : r \in B!Found(B!Tiles, w.place.z, w.place.x, w.place.y)} = {{w.body}}
  BY DEF B!WrittenIsFound
<1>1. w.place \in TilePlaces /\ Holds(w) /\ B!DetectedType(v1) \notin {"unknown", "dedup"} /\ WellFormed(v1)
  BY DEF MbtilesInv, FillInv
<1>2. \A o \in v1 : o.name = "tiles" => o.over = Main
  BY <1>1 DEF WellFormed, Main
<1>3. \E o \in v1 : o.name = "tiles"
  BY DEF B!Readable, B!HasColumns
<1>4. \A r : r \in B!Tiles <=> r \in v2 /\ r.in = Main
  BY <1>2, <1>3 DEF B!Tiles
<1>5. \A r : r \in B!Found(B!Tiles, w.place.z, w.place.x, w.place.y) <=> r \in v2 /\ LiesAt(r, w.place)
  BY <1>4 DEF B!Found, LiesAt
<1> QED BY <1>1, <1>5 DEF Holds

\* At most one of a set without two.
LEMMA OnlyOne ==
  ASSUME NEW Some, IsFiniteSet(Some), ~(Cardinality(Some) > 1), NEW a \in Some, NEW b \in Some
  PROVE  a = b
<1> SUFFICES ASSUME a # b PROVE FALSE
  OBVIOUS
<1>1. {a, b} \subseteq Some /\ IsFiniteSet({a, b}) /\ Cardinality({a, b}) = 2
  <2>1. IsFiniteSet({a}) /\ Cardinality({a}) = 1
    BY FS_Singleton
  <2>2. IsFiniteSet({a} \cup {b}) /\ Cardinality({a} \cup {b}) = Cardinality({a}) + 1
    BY <2>1, FS_AddElement
  <2>3. {a} \cup {b} = {a, b}
    OBVIOUS
  <2> QED BY <2>1, <2>2, <2>3
<1>2. Cardinality({a, b}) <= Cardinality(Some)
  BY <1>1, FS_Subset
<1>3. Cardinality(Some) \in Nat
  BY FS_CardinalityType
<1> QED BY <1>1, <1>2, <1>3

\* What a recognised body is detected as tells it.
LEMMA DetectedTells ==
  ASSUME NEW b, B!Recognised(b)
  PROVE  B!Tells(B!Detect(b), b)
<1>1. CASE b.kind \in B!Rasters /\ b.packing = "none"
  BY <1>1 DEF B!Detect, B!Tells, B!Packed, B!Info, B!Rasters
<1>2. CASE b.kind \in {"mvt", "mlt", "json"} /\ b.packing = "none"
  BY <1>2 DEF B!Detect, B!Tells, B!Packed, B!Info, B!OfFormat, B!Rasters
<1>3. CASE b.kind \in {"mvt", "mlt", "json"} /\ b.packing \in {"gzip", "zlib"}
  BY <1>3 DEF B!Detect, B!Tells, B!Packed, B!Info, B!OfFormat, B!Rasters
<1> QED BY <1>1, <1>2, <1>3 DEF B!Recognised

\* What Open finds when it opens a file: of each zoom it looks at, and of a first
\* tile, something of what is there.
LEMMA OpenedIs ==
  ASSUME MbtilesInv, B!Open, reading'.state = "open"
  PROVE  \E found :
           /\ \A a, b \in found : a = b
           /\ reading'.seen = B!Tiles /\ reading'.zooms = B!Zooms
           /\ found # {} => reading'.info = found
           /\ \A d \in found : \E r \in B!Tiles : d \in B!Sampled(r)
           /\ \A z \in B!Zooms : B!TilesAt(z) # {} => \E r \in B!TilesAt(z) : B!Sampled(r) \subseteq found
           /\ (\E r \in B!Tiles : r.z >= 0) => \E r \in B!Tiles : r.z >= 0 /\ B!Sampled(r) \subseteq found
<1> USE DEF schema, stored, filler, reading
<1> DEFINE eligible == {r \in B!Tiles : r.z >= 0}
<1>1. PICK first \in IF eligible = {} THEN {{}} ELSE {{r} : r \in eligible} :
        LET zooms == {z \in B!Zooms : B!TilesAt(z) # {} /\ \A r \in first : r.z # z}
        IN  \E pick \in [zooms -> B!Tiles] :
              LET found == UNION ({B!Sampled(r) : r \in first} \cup {B!Sampled(pick[z]) : z \in zooms})
                  info == B!WithPacking(B!WithFormat(found), found # {})
                  refused == ~B!Readable \/ B!Metadata \notin v1
                             \/ B!Cardinality(found) > 1 \/ info = {}
              IN  /\ \A z \in zooms : pick[z] \in B!TilesAt(z)
                  /\ v5' = [state |-> IF refused THEN "refused" ELSE "open",
                            info |-> IF refused THEN {} ELSE info,
                            seen |-> B!Tiles, zooms |-> B!Zooms]
  BY DEF B!Open
<1> DEFINE zooms == {z \in B!Zooms : B!TilesAt(z) # {} /\ \A r \in first : r.z # z}
<1>2. PICK pick \in [zooms -> B!Tiles] :
              LET found == UNION ({B!Sampled(r) : r \in first} \cup {B!Sampled(pick[z]) : z \in zooms})
                  info == B!WithPacking(B!WithFormat(found), found # {})
                  refused == ~B!Readable \/ B!Metadata \notin v1
                             \/ B!Cardinality(found) > 1 \/ info = {}
              IN  /\ \A z \in zooms : pick[z] \in B!TilesAt(z)
                  /\ v5' = [state |-> IF refused THEN "refused" ELSE "open",
                            info |-> IF refused THEN {} ELSE info,
                            seen |-> B!Tiles, zooms |-> B!Zooms]
  BY <1>1
<1> DEFINE found == UNION ({B!Sampled(r) : r \in first} \cup {B!Sampled(pick[z]) : z \in zooms})
           info == B!WithPacking(B!WithFormat(found), found # {})
<1>3. /\ \A z \in zooms : pick[z] \in B!TilesAt(z)
      /\ ~(B!Cardinality(found) > 1)
      /\ v5'.info = info /\ v5'.seen = B!Tiles /\ v5'.zooms = B!Zooms
  BY <1>2
<1>4. \A r \in first : r \in B!Tiles /\ r.z >= 0
  BY <1>1
<1>5. \A r \in B!Tiles : r \in v2
  BY DEF B!Tiles
<1>6. \A d \in found : \E r \in B!Tiles : d \in B!Sampled(r)
  BY <1>2, <1>4
<1>7. found # {} => info = found
  <2> HIDE DEF found
  <2> QED BY DEF B!WithPacking, B!WithFormat
<1>8. \A z \in B!Zooms : B!TilesAt(z) # {} => \E r \in B!TilesAt(z) : B!Sampled(r) \subseteq found
  <2> SUFFICES ASSUME NEW z \in B!Zooms, B!TilesAt(z) # {}
               PROVE  \E r \in B!TilesAt(z) : B!Sampled(r) \subseteq found
    OBVIOUS
  <2>1. CASE \E r \in first : r.z = z
    <3>1. PICK r \in first : r.z = z
      BY <2>1
    <3>2. r \in B!TilesAt(z) /\ B!Sampled(r) \subseteq found
      BY <1>4, <3>1 DEF B!TilesAt
    <3> QED BY <3>2
  <2>2. CASE \A r \in first : r.z # z
    <3>1. z \in zooms
      BY <2>2
    <3>2. pick[z] \in B!TilesAt(z) /\ B!Sampled(pick[z]) \subseteq found
      BY <1>3, <3>1
    <3> QED BY <3>2
  <2> QED BY <2>1, <2>2
<1>9. (\E r \in B!Tiles : r.z >= 0) => \E r \in B!Tiles : r.z >= 0 /\ B!Sampled(r) \subseteq found
  <2> SUFFICES ASSUME eligible # {} PROVE \E r \in B!Tiles : r.z >= 0 /\ B!Sampled(r) \subseteq found
    OBVIOUS
  <2>1. PICK r \in eligible : first = {r}
    BY <1>1
  <2>2. r \in B!Tiles /\ r.z >= 0 /\ B!Sampled(r) \subseteq found
    BY <2>1
  <2> QED BY <2>2
<1>10. IsFiniteSet(found)
  <2>1. IsFiniteSet(first)
    <3>1. first = {} \/ \E r : first = {r}
      BY <1>1
    <3>2. IsFiniteSet({}) /\ \A r : IsFiniteSet({r})
      BY FS_EmptySet, FS_Singleton
    <3> QED BY <3>1, <3>2
  <2>2. IsFiniteSet(zooms)
    <3>1. \A named, z : z \in Int => B!ZoomOr(named, z) \in Int
      <4> SUFFICES ASSUME NEW named, NEW z \in Int PROVE B!ZoomOr(named, z) \in Int
        OBVIOUS
      <4>1. CASE named \cap 0..255 = {}
        BY <4>1 DEF B!ZoomOr
      <4>2. CASE named \cap 0..255 # {}
        <5>1. B!ZoomOr(named, z) \in named \cap 0..255
          BY <4>2 DEF B!ZoomOr
        <5> QED BY <5>1
      <4> QED BY <4>1, <4>2
    <3>2. \E a, b \in Int : B!Zooms = a..b
      <4>1. LastZoom \in Int /\ 0 \in Int
        BY ForeignAssumption
      <4> QED BY <3>1, <4>1 DEF B!Zooms
    <3>3. IsFiniteSet(B!Zooms)
      BY <3>2, FS_Interval
    <3>4. zooms \subseteq B!Zooms
      OBVIOUS
    <3> HIDE DEF zooms
    <3> QED BY <3>3, <3>4, FS_Subset
  <2>3. \A r \in B!Tiles : IsFiniteSet(B!Sampled(r))
    <3> SUFFICES ASSUME NEW r \in B!Tiles PROVE IsFiniteSet(B!Sampled(r))
      OBVIOUS
    <3>1. B!Sampled(r) = {} \/ \E d : B!Sampled(r) = {d}
      <4>1. \A b, c \in r.body : b = c
        BY <1>5 DEF MbtilesInv, RowsInv, IsRow
      <4>2. CASE r.body = {}
        BY <4>2 DEF B!Sampled
      <4>3. ASSUME NEW b \in r.body PROVE B!Sampled(r) = {B!Detect(b)}
        BY <4>1, <4>3 DEF B!Sampled
      <4> QED BY <4>2, <4>3
    <3>2. IsFiniteSet({}) /\ \A d : IsFiniteSet({d})
      BY FS_EmptySet, FS_Singleton
    <3> QED BY <3>1, <3>2
  <2> DEFINE firsts == {B!Sampled(r) : r \in first}
             picks == {B!Sampled(pick[z]) : z \in zooms}
  <2>4. IsFiniteSet(firsts)
    <3>1. firsts = {} \/ \E r : firsts = {B!Sampled(r)}
      BY <1>1
    <3>2. IsFiniteSet({}) /\ \A d : IsFiniteSet({d})
      BY FS_EmptySet, FS_Singleton
    <3> HIDE DEF firsts
    <3> QED BY <3>1, <3>2
  <2>5. IsFiniteSet(picks)
    <3> DEFINE f == [z \in zooms |-> B!Sampled(pick[z])]
    <3>1. f \in Surjection(zooms, picks)
      <4> HIDE DEF zooms
      <4> QED BY DEF Surjection
    <3> HIDE DEF zooms, picks, f
    <3> QED BY <2>2, <3>1, FS_Surjection
  <2>6. IsFiniteSet(firsts \cup picks)
    <3> HIDE DEF firsts, picks
    <3> QED BY <2>4, <2>5, FS_Union
  <2>7. \A x \in firsts \cup picks : IsFiniteSet(x)
    BY <1>2, <1>4, <2>3
  <2> HIDE DEF firsts, picks
  <2>8. IsFiniteSet(UNION (firsts \cup picks))
    BY <2>6, <2>7, FS_UNION
  <2> QED BY <2>8 DEF firsts, picks
<1>11. \A a, b \in found : a = b
  <2> HIDE DEF found
  <2>1. B!Cardinality(found) = Cardinality(found)
    BY DEF B!Cardinality, Cardinality
  <2> QED BY <1>3, <1>10, <2>1, OnlyOne
<1> HIDE DEF found, info, zooms
<1> QED BY <1>3, <1>6, <1>7, <1>8, <1>9, <1>11

LEMMA OpenServes ==
  ASSUME MbtilesInv, B!Open
  PROVE  (B!ServedAsStored /\ B!MixedIsRefused)'
<1> USE DEF schema, stored, filler, reading
<1>1. CASE v5'.state # "open"
  BY <1>1 DEF B!ServedAsStored, B!MixedIsRefused
<1>2. CASE v5'.state = "open"
  <2>1. PICK found :
           /\ \A a, b \in found : a = b
           /\ v5'.seen = B!Tiles /\ v5'.zooms = B!Zooms
           /\ found # {} => v5'.info = found
           /\ \A d \in found : \E r \in B!Tiles : d \in B!Sampled(r)
           /\ \A z \in B!Zooms : B!TilesAt(z) # {} => \E r \in B!TilesAt(z) : B!Sampled(r) \subseteq found
           /\ (\E r \in B!Tiles : r.z >= 0) => \E r \in B!Tiles : r.z >= 0 /\ B!Sampled(r) \subseteq found
    BY <1>2, OpenedIs
  <2>2. \A r \in B!Tiles : r.z \in Int
    BY DEF B!Tiles, MbtilesInv, RowsInv, IsRow
  <2>3. \A r : r.body # {} => B!Sampled(r) # {}
    BY DEF B!Sampled
  <2>4. B!ServedAsStored'
    <3> DEFINE bodies == UNION {r.body : r \in B!Tiles}
    <3> SUFFICES ASSUME B!Telling', \A b, c \in bodies : B!Recognised(b) /\ B!Detect(b) = B!Detect(c),
                        NEW info \in v5'.info, NEW b \in bodies
                 PROVE  B!Tells(info, b)
      BY <2>1 DEF B!ServedAsStored
    <3>1. found # {}
      <4>1. PICK some : /\ some = {r.z : r \in B!Tiles} \cap Nat \/ \E z \in B!Zooms : some = {z}
                        /\ \E r \in B!Tiles : r.z \in some
                        /\ \A r \in B!Tiles : r.z \in some => r.body # {}
        <5>1. PICK some \in {{r.z : r \in v5'.seen} \cap Nat} \cup {{z} : z \in v5'.zooms} :
                 /\ \E r \in v5'.seen : r.z \in some
                 /\ \A r \in v5'.seen : r.z \in some => r.body # {}
          BY DEF B!Telling
        <5> QED BY <2>1, <5>1
      <4>2. CASE some = {r.z : r \in B!Tiles} \cap Nat
        <5>1. \E r \in B!Tiles : r.z >= 0
          BY <4>1, <4>2
        <5>2. PICK r \in B!Tiles : r.z >= 0 /\ B!Sampled(r) \subseteq found
          BY <2>1, <5>1
        <5>3. r.z \in Nat
          BY <2>2, <5>2
        <5> QED BY <2>3, <4>1, <4>2, <5>2, <5>3
      <4>3. ASSUME NEW z \in B!Zooms, some = {z}
            PROVE  found # {}
        <5>1. B!TilesAt(z) # {}
          BY <4>1, <4>3 DEF B!TilesAt
        <5>2. PICK r \in B!TilesAt(z) : B!Sampled(r) \subseteq found
          BY <2>1, <5>1
        <5>3. r \in B!Tiles /\ r.z \in some
          BY <4>3, <5>2 DEF B!TilesAt
        <5> QED BY <2>3, <4>1, <5>2, <5>3
      <4> QED BY <4>1, <4>2, <4>3
    <3>2. PICK r \in B!Tiles : info \in B!Sampled(r)
      BY <2>1, <3>1
    <3>3. PICK c \in r.body : info = B!Detect(c)
      BY <3>2 DEF B!Sampled
    <3>4. c \in bodies
      BY <3>3
    <3>5. B!Recognised(b) /\ info = B!Detect(b)
      BY <3>3, <3>4
    <3> QED BY <3>5, DetectedTells
  <2>5. B!MixedIsRefused'
    <3> SUFFICES ASSUME \A z \in B!Zooms : \A r, s \in {t \in B!Tiles : t.z = z} :
                          r.body # {} /\ B!Sampled(r) = B!Sampled(s),
                        NEW r \in B!Tiles, NEW s \in B!Tiles, r.z \in B!Zooms, s.z \in B!Zooms
                 PROVE  B!Sampled(r) = B!Sampled(s)
      BY <2>1 DEF B!MixedIsRefused
    <3>1. \A q \in B!Tiles : q.z \in B!Zooms => B!Sampled(q) # {} /\ B!Sampled(q) \subseteq found
      <4> SUFFICES ASSUME NEW q \in B!Tiles, q.z \in B!Zooms
                   PROVE  B!Sampled(q) # {} /\ B!Sampled(q) \subseteq found
        OBVIOUS
      <4>1. q \in B!TilesAt(q.z)
        BY DEF B!TilesAt
      <4>2. PICK p \in B!TilesAt(q.z) : B!Sampled(p) \subseteq found
        BY <2>1, <4>1
      <4>3. p \in B!Tiles /\ p.z = q.z
        BY <4>2 DEF B!TilesAt
      <4>4. q.body # {} /\ B!Sampled(q) = B!Sampled(p)
        BY <4>3
      <4> QED BY <2>3, <4>2, <4>4
    <3> QED BY <2>1, <3>1
  <2> QED BY <2>4, <2>5
<1> QED BY <1>1, <1>2

LEMMA CheckedIsReachable ==
  ASSUME NEW sound \in BOOLEAN, B!Validate(sound)
  PROVE  B!ValidatedIsReachable'
<1> USE DEF checking
<1>1. v6'.seen = B!Tiles /\ (v6'.state = "valid" => \A r \in B!Tiles : B!OnGrid(r))
  BY DEF B!Validate
<1>2. SUFFICES ASSUME v6'.state = "valid", NEW r \in v6'.seen
               PROVE  \E z \in 0..DeepestZoom : \E x, y \in 0..(2 ^ z - 1) : r \in B!Found(v6'.seen, z, x, y)
  BY DEF B!ValidatedIsReachable
<1>3. r.z \in 0..DeepestZoom /\ r.x \in 0..(2 ^ r.z - 1) /\ r.y \in 0..(2 ^ r.z - 1)
  BY <1>1, <1>2 DEF B!OnGrid
<1>4. 2 ^ r.z \in Int
  BY <1>3, ForeignAssumption
<1>5. PICK wide \in Int : wide = 2 ^ r.z
  BY <1>4
<1>6. r.y \in Int /\ (wide - 1 - r.y) \in 0..(wide - 1) /\ r.y = wide - 1 - (wide - 1 - r.y)
  BY <1>3, <1>5
<1>7. r \in B!Found(v6'.seen, r.z, r.x, wide - 1 - r.y)
  BY <1>2, <1>5, <1>6 DEF B!Found
<1> QED BY <1>3, <1>5, <1>6, <1>7

FilesKept == B!ServedAsStored /\ B!MixedIsRefused /\ B!ValidatedIsReachable

LEMMA FilesKeptInit == B!Init => FilesKept
BY DEF B!Init, B!NotOpened, B!NotChecked, FilesKept, B!ServedAsStored, B!MixedIsRefused, B!ValidatedIsReachable

LEMMA OpenUnchanged ==
  ASSUME B!ServedAsStored, B!MixedIsRefused, v5' = v5
  PROVE  (B!ServedAsStored /\ B!MixedIsRefused)'
BY DEF B!ServedAsStored, B!MixedIsRefused, B!Telling

LEMMA CheckUnchanged ==
  ASSUME B!ValidatedIsReachable, v6' = v6
  PROVE  B!ValidatedIsReachable'
BY DEF B!ValidatedIsReachable

LEMMA MbtilesUnchanged ==
  ASSUME MbtilesInv, v1' = v1, v2' = v2, v4' = v4
  PROVE  MbtilesInv'
BY DEF MbtilesInv, RowsInv, FillInv, WellFormed, WrittenWhereRead, Holds, LiesAt, Main, schema, stored, filler

LEMMA MbtilesStep ==
  ASSUME MbtilesInv, FilesKept, B!Next \/ UNCHANGED B!vars
  PROVE  (MbtilesInv /\ FilesKept)'
<1> USE DEF FilesKept
<1>1. CASE \E type \in Asked, mode \in Modes : B!Start(type, mode)
  <2>1. PICK type \in Asked, mode \in Modes : B!Start(type, mode)
    BY <1>1
  <2>2. v5' = v5 /\ v6' = v6
    BY <2>1 DEF B!Start
  <2> QED BY <2>1, <2>2, StartFills, OpenUnchanged, CheckUnchanged
<1>2. CASE B!CreateNext
  <2>1. v5' = v5 /\ v6' = v6
    BY <1>2 DEF B!CreateNext
  <2> QED BY <1>2, <2>1, CreateFills, OpenUnchanged, CheckUnchanged
<1>3. CASE B!WriteMetadata \/ B!Finish \/ B!Kill
  <2>1. v5' = v5 /\ v6' = v6
    BY <1>3 DEF B!WriteMetadata, B!Finish, B!Kill
  <2> QED BY <1>3, <2>1, FillsOn, OpenUnchanged, CheckUnchanged
<1>4. CASE \E place \in TilePlaces, body \in Bodies : B!Insert(place, body)
  <2>1. PICK place \in TilePlaces, body \in Bodies : B!Insert(place, body)
    BY <1>4
  <2>2. v5' = v5 /\ v6' = v6
    BY <2>1 DEF B!Insert
  <2> QED BY <2>1, <2>2, InsertFills, OpenUnchanged, CheckUnchanged
<1>5. CASE B!Open
  <2>1. v1' = v1 /\ v2' = v2 /\ v4' = v4 /\ v6' = v6
    BY <1>5 DEF B!Open
  <2> QED BY <1>5, <2>1, MbtilesUnchanged, OpenServes, CheckUnchanged
<1>6. CASE B!OpenBusy
  <2>1. v1' = v1 /\ v2' = v2 /\ v4' = v4 /\ v6' = v6 /\ v5'.state = "refused"
    BY <1>6 DEF B!OpenBusy, B!NotOpened
  <2>2. (B!ServedAsStored /\ B!MixedIsRefused)'
    BY <2>1 DEF B!ServedAsStored, B!MixedIsRefused
  <2> QED BY <2>1, <2>2, MbtilesUnchanged, CheckUnchanged
<1>7. CASE \E sound \in BOOLEAN : B!Validate(sound)
  <2>1. PICK sound \in BOOLEAN : B!Validate(sound)
    BY <1>7
  <2>2. v1' = v1 /\ v2' = v2 /\ v4' = v4 /\ v5' = v5
    BY <2>1 DEF B!Validate
  <2> QED BY <2>1, <2>2, MbtilesUnchanged, OpenUnchanged, CheckedIsReachable
<1>8. CASE UNCHANGED B!vars
  <2>1. v1' = v1 /\ v2' = v2 /\ v4' = v4 /\ v5' = v5 /\ v6' = v6
    BY <1>8 DEF B!vars
  <2> QED BY <2>1, MbtilesUnchanged, OpenUnchanged, CheckUnchanged
<1> QED BY <1>1, <1>2, <1>3, <1>4, <1>5, <1>6, <1>7, <1>8 DEF B!Next

LEMMA FilesInvariance ==
  AllSpec => []((scene = "cog" => TiffInv) /\ (scene = "mbtiles" => MbtilesInv /\ FilesKept))
<1> DEFINE IInv == (scene = "cog" => TiffInv) /\ (scene = "mbtiles" => MbtilesInv /\ FilesKept)
<1>1. AllInit => IInv
  BY TiffInit, MbtilesInit, FilesKeptInit DEF AllInit
<1>2. IInv /\ [AllNext]_allVars => IInv'
  <2> SUFFICES ASSUME IInv, [AllNext]_allVars PROVE IInv'
    OBVIOUS
  <2>1. UNCHANGED scene
    BY DEF AllNext, allVars
  <2>2. scene = "cog" => [C!Next]_C!vars
    BY DEF AllNext, allVars, free, C!vars
  <2>3. scene = "mbtiles" => B!Next \/ UNCHANGED B!vars
    BY DEF AllNext, allVars, free, B!vars
  <2>4. scene = "cog" => TiffInv'
    BY <2>2, TiffStep
  <2>5. scene = "mbtiles" => (MbtilesInv /\ FilesKept)'
    BY <2>3, MbtilesStep
  <2> QED BY <2>1, <2>4, <2>5
<1> HIDE DEF IInv
<1> QED BY <1>1, <1>2, PTL DEF AllSpec, IInv

\* A tile cut from a COG is made of the pixels that lie where it does and has
\* the format of its image, and a tile written to an MBTiles file is found where
\* it was written and served as what it is or refused: for any images, files
\* other programs wrote, tiles, places and metadata, whenever the tool that
\* writes the file is killed and whenever martin opens it.
THEOREM FilesAreServedAsWritten == AllSpec => []FilesRight
<1>1. (scene = "cog" => TiffInv) /\ (scene = "mbtiles" => MbtilesInv /\ FilesKept) => FilesRight
  <2>1. scene = "cog" /\ TiffInv => C!TilesInPlace /\ C!PixelsInPlace /\ C!LabelledAlike
    BY TilesAreInPlace, PixelsAreInPlace, LabelsAreAlike
  <2>2. scene = "mbtiles" /\ MbtilesInv /\ FilesKept => B!FilesServedAsWritten
    BY WrittenAreFound DEF FilesKept, B!FilesServedAsWritten
  <2> QED BY <2>1, <2>2 DEF FilesRight
<1> QED BY <1>1, FilesInvariance, PTL
=============================================================================
