------------------------------ MODULE AppsProofs ------------------------------
(***************************************************************************)
(* Theorems about the applications around the server, composed in MCApps,  *)
(* for any uploads, jobs, connections, commands, databases, callers, ports,*)
(* maps and imports.                                                       *)
(***************************************************************************)
EXTENDS MCApps, FiniteSetTheorems, WellFoundedInduction, TLAPS

-----------------------------------------------------------------------------
(* Numbers.                                                                *)

LEMMA LeastNumber ==
  ASSUME NEW Some \in SUBSET Nat, Some # {}
  PROVE  \E n \in Some : \A m \in Some : n <= m
<1>1. \E n \in Some : \A m \in Some : <<m, n>> \notin OpToRel(<, Nat)
  BY WFMin, NatLessThanWellFounded
<1>2. PICK n \in Some : \A m \in Some : <<m, n>> \notin OpToRel(<, Nat)
  BY <1>1
<1>3. \A m \in Some : ~(m < n)
  BY <1>2 DEF OpToRel
<1> QED BY <1>3

\* Of more names than there are files, one is free.
LEMMA OneIsFree ==
  ASSUME NEW Those, IsFiniteSet(Those), NEW first \in Nat,
         NEW f, DOMAIN f = first..(Cardinality(Those) + first),
         \A m, n \in DOMAIN f : f[m] = f[n] => m = n
  PROVE  \E n \in DOMAIN f : f[n] \notin Those
<1> SUFFICES ASSUME \A n \in DOMAIN f : f[n] \in Those PROVE FALSE
  OBVIOUS
<1> DEFINE c == Cardinality(Those)
           Some == first..(c + first)
           g == [n \in Some |-> f[n]]
<1>1. c \in Nat
  BY FS_CardinalityType
<1>2. IsFiniteSet(Some) /\ c < Cardinality(Some)
  <2>1. IsFiniteSet(Some) /\ Cardinality(Some) = (IF first > c + first THEN 0 ELSE c + first - first + 1)
    BY <1>1, FS_Interval, SMTT(30)
  <2> QED BY <1>1, <2>1
<1>3. g \in [Some -> Those]
  OBVIOUS
<1>4. \A m, n \in Some : g[m] = g[n] => m = n
  OBVIOUS
<1> HIDE DEF Some, g
<1>5. \E m, n \in Some : m # n /\ g[m] = g[n]
  BY <1>2, <1>3, FS_PigeonHole
<1> QED BY <1>4, <1>5

-----------------------------------------------------------------------------
(* StudioJobs: uploads.                                                    *)

Dests == {<<>>} \cup ({Sanitized[raw] : raw \in DOMAIN Sanitized} \X Nat)
UploadStates == {"none", "refused", "chosen", "open", "created", "failed"}

UploadTypes ==
  /\ upload \in [Uploads -> [at : UploadStates, dest : Dests, overlapped : BOOLEAN]]
  /\ IsFiniteSet(DOMAIN dir) /\ DOMAIN dir \subseteq Dests
  /\ \A f \in DOMAIN dir : dir[f] \subseteq Uploads

Under(u) == upload[u].at \in {"chosen", "open", "created"}
Alone(u) == ~upload[u].overlapped

\* Two uploads to one path know of each other, and a path that nobody else writes to
\* holds what its upload has written.
UploadInv ==
  /\ UploadTypes
  /\ \A u, v \in Uploads :
       u # v /\ Under(u) /\ Under(v) /\ upload[u].dest = upload[v].dest => ~Alone(u) /\ ~Alone(v)
  /\ \A u \in Uploads :
       /\ upload[u].at \in {"open", "created"} => upload[u].dest \in DOMAIN dir
       /\ upload[u].at = "open" /\ Alone(u) => dir[upload[u].dest] = {}
       /\ upload[u].at = "created" /\ Alone(u) => dir[upload[u].dest] = {u}

LEMMA FreeDest ==
  ASSUME NEW name, IsFiniteSet(DOMAIN dir)
  PROVE  UniqueDest(name) \notin DOMAIN dir /\ UniqueDest(name) \in {name} \X Nat
<1> DEFINE c == Cardinality(DOMAIN dir)
           f == [i \in 0..(c + 0) |-> <<name, i>>]
           free == {i \in Suffixes : <<name, i>> \notin DOMAIN dir}
<1>1. c \in Nat
  BY FS_CardinalityType
<1>2. DOMAIN f = 0..(c + 0) /\ \A m, n \in DOMAIN f : f[m] = f[n] => m = n
  OBVIOUS
<1>3. \E n \in DOMAIN f : f[n] \notin DOMAIN dir
  <2> HIDE DEF f
  <2> QED BY <1>2, OneIsFree
<1>4. free \in SUBSET Nat /\ free # {}
  BY <1>1, <1>3 DEF Suffixes
<1>5. \E i \in free : \A k \in free : i <= k
  <2> HIDE DEF free
  <2> QED BY <1>4, LeastNumber
<1>6. (CHOOSE i \in free : \A k \in free : i <= k) \in free
  <2> HIDE DEF free
  <2> QED BY <1>5
<1>7. UniqueDest(name) = <<name, CHOOSE i \in free : \A k \in free : i <= k>>
  BY DEF UniqueDest
<1> HIDE DEF free
<1>8. PICK i \in free : UniqueDest(name) = <<name, i>>
  BY <1>6, <1>7
<1> QED BY <1>4, <1>8 DEF free

LEMMA UploadInit == Init => UploadInv
<1> SUFFICES ASSUME Init PROVE UploadInv
  OBVIOUS
<1>1. DOMAIN dir = {} /\ IsFiniteSet(DOMAIN dir)
  BY FS_EmptySet DEF Init
<1>2. UploadTypes
  BY <1>1 DEF Init, UploadTypes, UploadStates, Dests
<1> QED BY <1>2 DEF Init, UploadInv, Under

\* What a step of an upload does.
LEMMA UploadGoes ==
  ASSUME UploadTypes, NEW u \in Uploads, NEW at \in UploadStates, Goes(u, at)
  PROVE  /\ upload' \in [Uploads -> [at : UploadStates, dest : Dests, overlapped : BOOLEAN]]
         /\ upload'[u].at = at
         /\ \A v \in Uploads : /\ v # u => upload'[v] = upload[v]
                               /\ upload'[v].dest = upload[v].dest
                               /\ upload'[v].overlapped = upload[v].overlapped
  BY DEF UploadTypes, Goes

LEMMA UploadStep == UploadInv /\ [Next]_vars => UploadInv'
<1> SUFFICES ASSUME UploadInv, [Next]_vars PROVE UploadInv'
  OBVIOUS
<1>t. UploadTypes
  BY DEF UploadInv
<1>1. ASSUME NEW u \in Uploads, NEW raw \in DOMAIN Sanitized, NEW fits \in BOOLEAN,
             Choose(u, raw, fits)
      PROVE  UploadInv'
  <2>1. CASE Sanitized[raw] = Refused \/ ~fits
    <3>1. upload' = [upload EXCEPT ![u].at = "refused"] /\ dir' = dir
      BY <1>1, <2>1 DEF Choose
    <3>2. UploadTypes'
      BY <1>t, <3>1 DEF UploadTypes, UploadStates
    <3>3. /\ upload'[u].at = "refused"
          /\ \A v \in Uploads : v # u => upload'[v] = upload[v]
      BY <1>t, <3>1 DEF UploadTypes
    <3> QED BY <3>1, <3>2, <3>3 DEF UploadInv, Under, Alone
  <2>2. CASE ~(Sanitized[raw] = Refused \/ ~fits)
    <3> DEFINE dest == UniqueDest(Sanitized[raw])
               rivals == {v \in Uploads : upload[v].at \in {"chosen", "open"} /\ upload[v].dest = dest}
    <3>1. dest \notin DOMAIN dir /\ dest \in Dests
      BY <1>t, FreeDest DEF UploadTypes, Dests
    <3>2. /\ dir' = dir /\ upload[u].at = "none"
          /\ upload' = [v \in Uploads |->
               IF v = u THEN [at |-> "chosen", dest |-> dest, overlapped |-> rivals # {}]
               ELSE IF v \in rivals THEN [upload[v] EXCEPT !.overlapped = TRUE]
               ELSE upload[v]]
      BY <1>1, <2>2 DEF Choose
    <3> HIDE DEF dest
    <3>3. /\ upload'[u] = [at |-> "chosen", dest |-> dest, overlapped |-> rivals # {}]
          /\ \A v \in Uploads \ {u} :
               /\ upload'[v].at = upload[v].at /\ upload'[v].dest = upload[v].dest
               /\ upload'[v].overlapped = (upload[v].overlapped \/ v \in rivals)
      BY <1>t, <3>2 DEF UploadTypes
    <3>4. UploadTypes'
      BY <1>t, <3>1, <3>2 DEF UploadTypes, UploadStates
    <3>5. \A v \in Uploads \ {u} : Under(v) /\ upload[v].dest = dest => v \in rivals
      BY <3>1 DEF UploadInv, Under
    <3>6. \A v \in Uploads \ {u} : Under(v)' <=> Under(v)
      BY <3>3 DEF Under
    <3>7. \A v \in Uploads \ {u} : Alone(v)' <=> Alone(v) /\ v \notin rivals
      BY <3>3 DEF Alone
    <3>8. \A v, w \in Uploads :
            v # w /\ Under(v)' /\ Under(w)' /\ upload'[v].dest = upload'[w].dest
              => ~Alone(v)' /\ ~Alone(w)'
      <4>1. \A v \in Uploads \ {u} : Under(v)' /\ upload'[v].dest = dest => ~Alone(v)' /\ ~Alone(u)'
        BY <3>3, <3>5, <3>6, <3>7 DEF Alone
      <4>2. \A v, w \in Uploads \ {u} :
              v # w /\ Under(v)' /\ Under(w)' /\ upload'[v].dest = upload'[w].dest
                => ~Alone(v)' /\ ~Alone(w)'
        BY <3>3, <3>6, <3>7 DEF UploadInv
      <4> QED BY <3>3, <4>1, <4>2
    <3>9. \A v \in Uploads :
            /\ upload'[v].at \in {"open", "created"} => upload'[v].dest \in DOMAIN dir
            /\ upload'[v].at = "open" /\ Alone(v)' => dir[upload'[v].dest] = {}
            /\ upload'[v].at = "created" /\ Alone(v)' => dir[upload'[v].dest] = {v}
      BY <3>3, <3>7 DEF UploadInv
    <3> QED BY <3>2, <3>4, <3>8, <3>9 DEF UploadInv
  <2> QED BY <2>1, <2>2
<1>2. ASSUME NEW u \in Uploads, Open(u) PROVE UploadInv'
  <2> DEFINE d == upload[u].dest
  <2>1. /\ upload[u].at = "chosen" /\ upload'[u].at = "open"
        /\ upload' \in [Uploads -> [at : UploadStates, dest : Dests, overlapped : BOOLEAN]]
        /\ \A v \in Uploads : /\ v # u => upload'[v] = upload[v]
                              /\ upload'[v].dest = upload[v].dest
                              /\ upload'[v].overlapped = upload[v].overlapped
    BY <1>t, <1>2, UploadGoes DEF Open, UploadStates
  <2>2. /\ DOMAIN dir' = DOMAIN dir \cup {d} /\ dir'[d] = {}
        /\ \A f \in DOMAIN dir : f # d => dir'[f] = dir[f]
    BY <1>2 DEF Open
  <2>3. UploadTypes'
    <3>1. IsFiniteSet(DOMAIN dir')
      BY <1>t, <2>2, FS_AddElement DEF UploadTypes
    <3> QED BY <1>t, <2>1, <2>2, <3>1 DEF UploadTypes
  <2>4. \A v \in Uploads : (Under(v)' <=> Under(v)) /\ (Alone(v)' <=> Alone(v))
    BY <2>1 DEF Under, Alone
  <2>5. \A v \in Uploads \ {u} : Under(v) /\ Alone(v) => upload[v].dest # d
    BY <2>1 DEF UploadInv, Under
  <2>6. \A v \in Uploads :
          /\ upload'[v].at \in {"open", "created"} => upload'[v].dest \in DOMAIN dir'
          /\ upload'[v].at = "open" /\ Alone(v)' => dir'[upload'[v].dest] = {}
          /\ upload'[v].at = "created" /\ Alone(v)' => dir'[upload'[v].dest] = {v}
    BY <2>1, <2>2, <2>4, <2>5 DEF UploadInv, Under
  <2> QED BY <2>1, <2>3, <2>4, <2>6 DEF UploadInv
<1>3. ASSUME NEW u \in Uploads, Write(u) PROVE UploadInv'
  <2> DEFINE d == upload[u].dest
  <2>1. /\ upload[u].at = "open" /\ upload'[u].at = "created"
        /\ upload' \in [Uploads -> [at : UploadStates, dest : Dests, overlapped : BOOLEAN]]
        /\ \A v \in Uploads : /\ v # u => upload'[v] = upload[v]
                              /\ upload'[v].dest = upload[v].dest
                              /\ upload'[v].overlapped = upload[v].overlapped
    BY <1>t, <1>3, UploadGoes DEF Write, UploadStates
  <2>2. d \in DOMAIN dir
    BY <2>1 DEF UploadInv
  <2>3. /\ DOMAIN dir' = DOMAIN dir
        /\ \/ dir'[d] = {u}
           \/ dir'[d] = dir[d] \cup {u}
        /\ \A f \in DOMAIN dir : f # d => dir'[f] = dir[f]
    BY <1>3, <2>2 DEF Write
  <2>4. UploadTypes'
    BY <1>t, <2>1, <2>3 DEF UploadTypes
  <2>5. \A v \in Uploads : (Under(v)' <=> Under(v)) /\ (Alone(v)' <=> Alone(v))
    BY <2>1 DEF Under, Alone
  <2>6. \A v \in Uploads \ {u} : Under(v) /\ Alone(v) => upload[v].dest # d
    BY <2>1 DEF UploadInv, Under
  <2>7. Alone(u) => dir'[d] = {u}
    BY <2>1, <2>3 DEF UploadInv
  <2>8. \A v \in Uploads :
          /\ upload'[v].at \in {"open", "created"} => upload'[v].dest \in DOMAIN dir'
          /\ upload'[v].at = "open" /\ Alone(v)' => dir'[upload'[v].dest] = {}
          /\ upload'[v].at = "created" /\ Alone(v)' => dir'[upload'[v].dest] = {v}
    BY <2>1, <2>2, <2>3, <2>5, <2>6, <2>7 DEF UploadInv, Under
  <2> QED BY <2>1, <2>4, <2>5, <2>8 DEF UploadInv
<1>4. ASSUME NEW u \in Uploads, WriteFails(u) PROVE UploadInv'
  <2>1. /\ upload'[u].at = "failed" /\ dir' = dir
        /\ upload' \in [Uploads -> [at : UploadStates, dest : Dests, overlapped : BOOLEAN]]
        /\ \A v \in Uploads : /\ v # u => upload'[v] = upload[v]
                              /\ upload'[v].dest = upload[v].dest
                              /\ upload'[v].overlapped = upload[v].overlapped
    BY <1>t, <1>4, UploadGoes DEF WriteFails, UploadStates
  <2>2. UploadTypes'
    BY <1>t, <2>1 DEF UploadTypes
  <2> QED BY <2>1, <2>2 DEF UploadInv, Under, Alone
<1>5. ASSUME UNCHANGED <<dir, upload>> PROVE UploadInv'
  BY <1>5 DEF UploadInv, UploadTypes, Under, Alone
<1>6. ASSUME NEW inputs, NEW grids, NEW cog, StartGenerate(inputs, grids, cog) PROVE UploadInv'
  BY <1>5, <1>6 DEF StartGenerate
<1>7. ASSUME NEW j, Stage(j) \/ (\E percent \in BOOLEAN : ToolLine(j, percent)) \/ Finish(j) \/ FailJob(j)
      PROVE  UploadInv'
  BY <1>5, <1>7 DEF Stage, ToolLine, Finish, FailJob
<1>8. CASE UNCHANGED vars
  BY <1>5, <1>8 DEF vars
<1> QED BY <1>1, <1>2, <1>3, <1>4, <1>6, <1>7, <1>8 DEF Next

-----------------------------------------------------------------------------
(* StudioJobs: jobs.                                                       *)

JobRecord ==
  [status : {"running", "done", "failed"}, log : Seq(Nat), index : Nat,
   percent : {"none", "some"}, report : BOOLEAN, error : BOOLEAN, total : Nat,
   inputs : SUBSET Dests, lines : Nat, given : SUBSET Uploads, read : SUBSET SUBSET Uploads]

\* The log is the newest lines, and what is shown follows the status.
ToldRight(J) ==
  /\ \A i \in DOMAIN J.log : J.log[i] = J.lines - Len(J.log) + i
  /\ Len(J.log) <= J.lines
  /\ Len(J.log) >= MaxLog \/ Len(J.log) = J.lines
  /\ Len(J.log) <= MaxLog + J.index + 1
  /\ J.status # "failed" => Len(J.log) <= MaxLog + J.index
  /\ J.report <=> J.status = "done"
  /\ J.error <=> J.status = "failed"
  /\ J.status = "done" => J.index = J.total

Kept(u) == upload[u].at = "created" /\ Alone(u)

\* The uploads a job was given are still what is read.
ReadsRight(J) ==
  /\ \A u \in J.given : Kept(u)
  /\ {upload[u].dest : u \in J.given} = J.inputs => J.read \subseteq {{u} : u \in J.given}

JobInv ==
  /\ job \in Seq(JobRecord)
  /\ \A j \in DOMAIN job :
       ToldRight(job[j]) /\ ReadsRight(job[j]) /\ job[j].inputs \subseteq DOMAIN dir

\* A log with one more line.
LEMMA OneMore ==
  ASSUME NEW log \in Seq(Nat), NEW n \in Nat
  PROVE  /\ Append(log, n + 1) \in Seq(Nat)
         /\ Len(Append(log, n + 1)) = Len(log) + 1
         /\ (\A i \in DOMAIN log : log[i] = n - Len(log) + i)
              => \A i \in DOMAIN Append(log, n + 1) :
                   Append(log, n + 1)[i] = (n + 1) - (Len(log) + 1) + i
  OBVIOUS

LEMMA LastLines ==
  ASSUME NEW log \in Seq(Nat), NEW n \in Nat, Len(log) <= n,
         \A i \in DOMAIN log : log[i] = n - Len(log) + i
  PROVE  /\ Bounded(log) \in Seq(Nat)
         /\ Len(Bounded(log)) = (IF Len(log) > MaxLog THEN MaxLog ELSE Len(log))
         /\ \A i \in DOMAIN Bounded(log) : Bounded(log)[i] = n - Len(Bounded(log)) + i
<1> USE LogAssumption
<1>1. CASE Len(log) > MaxLog
  <2> DEFINE k == Len(log) - MaxLog
             cut == SubSeq(log, k + 1, Len(log))
  <2>1. k \in Nat /\ k + 1 \in 1..Len(log) + 1 /\ Len(log) \in Nat /\ Len(log) - k = MaxLog
    BY <1>1
  <2>2. cut \in Seq(Nat) /\ Len(cut) = MaxLog /\ \A i \in 1..MaxLog : cut[i] = log[k + i]
    BY <2>1
  <2>3. Bounded(log) = cut
    BY <1>1 DEF Bounded
  <2> HIDE DEF cut
  <2>4. \A i \in DOMAIN cut : i \in 1..MaxLog /\ k + i \in DOMAIN log
    BY <2>1, <2>2
  <2>5. \A i \in DOMAIN cut : cut[i] = n - Len(log) + (k + i)
    BY <2>2, <2>4
  <2>6. \A i \in DOMAIN cut : i \in Nat /\ n - Len(log) + (k + i) = n - MaxLog + i
    BY <2>1, <2>4
  <2>7. \A i \in DOMAIN cut : cut[i] = n - MaxLog + i
    BY <2>5, <2>6
  <2> QED BY <1>1, <2>2, <2>3, <2>7
<1>2. CASE ~(Len(log) > MaxLog)
  BY <1>2 DEF Bounded
<1> QED BY <1>1, <1>2

LEMMA UploadsStay ==
  ASSUME UploadInv, [Next]_vars
  PROVE  \A u \in Uploads : Kept(u) => Kept(u)' /\ upload'[u].dest = upload[u].dest
<1> SUFFICES ASSUME NEW u \in Uploads, Kept(u)
             PROVE  Kept(u)' /\ upload'[u].dest = upload[u].dest
  OBVIOUS
<1>t. UploadTypes
  BY DEF UploadInv
<1>0. upload[u].at = "created"
  BY DEF Kept
<1>1. ASSUME NEW v \in Uploads, NEW raw \in DOMAIN Sanitized, NEW fits \in BOOLEAN,
             Choose(v, raw, fits)
      PROVE  upload'[u] = upload[u]
  <2>1. u # v
    BY <1>0, <1>1 DEF Choose
  <2>2. CASE Sanitized[raw] = Refused \/ ~fits
    BY <1>t, <1>1, <2>1, <2>2 DEF Choose, UploadTypes
  <2>3. CASE ~(Sanitized[raw] = Refused \/ ~fits)
    BY <1>0, <1>1, <2>1, <2>3 DEF Choose
  <2> QED BY <2>2, <2>3
<1>2. ASSUME NEW v \in Uploads, Open(v) \/ Write(v) \/ WriteFails(v) PROVE upload'[u] = upload[u]
  <2>1. \E at \in UploadStates : Goes(v, at)
    BY <1>2 DEF Open, Write, WriteFails, UploadStates
  <2>2. u # v
    BY <1>0, <1>2 DEF Open, Write, WriteFails
  <2> QED BY <1>t, <2>1, <2>2, UploadGoes
<1>3. ASSUME NEW inputs, NEW grids, NEW cog, StartGenerate(inputs, grids, cog) PROVE upload' = upload
  BY <1>3 DEF StartGenerate
<1>4. ASSUME NEW j, Stage(j) \/ (\E percent \in BOOLEAN : ToolLine(j, percent)) \/ Finish(j) \/ FailJob(j)
      PROVE  upload' = upload
  BY <1>4 DEF Stage, ToolLine, Finish, FailJob
<1>5. ASSUME UNCHANGED vars PROVE upload' = upload
  BY <1>5 DEF vars
<1>6. upload'[u] = upload[u]
  BY <1>1, <1>2, <1>3, <1>4, <1>5 DEF Next
<1> QED BY <1>6 DEF Kept, Alone

LEMMA FilesStay ==
  ASSUME UploadInv, [Next]_vars
  PROVE  DOMAIN dir \subseteq DOMAIN dir'
<1>1. ASSUME NEW u \in Uploads, NEW raw, NEW fits, Choose(u, raw, fits) PROVE dir' = dir
  BY <1>1 DEF Choose
<1>2. ASSUME NEW u \in Uploads, Open(u) PROVE DOMAIN dir \subseteq DOMAIN dir'
  BY <1>2 DEF Open
<1>3. ASSUME NEW u \in Uploads, Write(u) PROVE DOMAIN dir \subseteq DOMAIN dir'
  BY <1>3 DEF Write
<1>4. ASSUME NEW u \in Uploads, WriteFails(u) PROVE dir' = dir
  BY <1>4 DEF WriteFails
<1>5. ASSUME NEW inputs, NEW grids, NEW cog, StartGenerate(inputs, grids, cog) PROVE dir' = dir
  BY <1>5 DEF StartGenerate
<1>6. ASSUME NEW j, Stage(j) \/ (\E percent \in BOOLEAN : ToolLine(j, percent)) \/ Finish(j) \/ FailJob(j)
      PROVE  dir' = dir
  BY <1>6 DEF Stage, ToolLine, Finish, FailJob
<1>7. ASSUME UNCHANGED vars PROVE dir' = dir
  BY <1>7 DEF vars
<1> QED BY <1>1, <1>2, <1>3, <1>4, <1>5, <1>6, <1>7 DEF Next

\* One job becomes another that is right, and the files stay.
LEMMA JobGoes ==
  ASSUME JobInv, NEW j \in DOMAIN job, NEW K \in JobRecord,
         job' = [job EXCEPT ![j] = K], UNCHANGED <<dir, upload>>,
         ToldRight(K), ReadsRight(K), K.inputs \subseteq DOMAIN dir
  PROVE  JobInv'
<1>1. job' \in Seq(JobRecord) /\ DOMAIN job' = DOMAIN job /\ job'[j] = K
      /\ \A i \in DOMAIN job : i # j => job'[i] = job[i]
  BY DEF JobInv
<1>2. \A i \in DOMAIN job' : ToldRight(job'[i]) /\ job'[i].inputs \subseteq DOMAIN dir
  BY <1>1 DEF JobInv
<1>3. \A i \in DOMAIN job' : ReadsRight(job'[i])
  BY <1>1 DEF JobInv
<1>4. \A i \in DOMAIN job' : ReadsRight(job[i])'
  BY <1>3 DEF ReadsRight, Kept, Alone
<1> QED BY <1>1, <1>2, <1>4 DEF JobInv, ToldRight

\* A line at the end of the log of a job, with what else changes of it.
LEMMA LineLogged ==
  ASSUME JobInv, NEW j \in DOMAIN job
  PROVE  /\ Logged(j) \in Seq(Nat) /\ Len(Logged(j)) = Len(job[j].log) + 1
         /\ \A i \in DOMAIN Logged(j) : Logged(j)[i] = (job[j].lines + 1) - Len(Logged(j)) + i
<1>1. job[j] \in JobRecord /\ ToldRight(job[j])
  BY DEF JobInv
<1>2. job[j].log \in Seq(Nat) /\ job[j].lines \in Nat
  BY <1>1 DEF JobRecord
<1> DEFINE log == job[j].log
           n == job[j].lines
<1>3. \A i \in DOMAIN log : log[i] = n - Len(log) + i
  BY <1>1 DEF ToldRight
<1>4. Logged(j) = Append(log, n + 1)
  BY DEF Logged
<1> HIDE DEF log, n
<1>5. Append(log, n + 1) \in Seq(Nat) /\ Len(Append(log, n + 1)) = Len(log) + 1
      /\ \A i \in DOMAIN Append(log, n + 1) : Append(log, n + 1)[i] = (n + 1) - (Len(log) + 1) + i
  BY <1>2, <1>3, OneMore DEF log, n
<1> QED BY <1>4, <1>5 DEF log, n

LEMMA JobStep ==
  ASSUME UploadInv, JobInv, [Next]_vars
  PROVE  JobInv'
<1> USE LogAssumption
<1>1. ASSUME NEW inputs \in SUBSET Browsed, NEW grids \in 0..1, NEW cog \in BOOLEAN,
             StartGenerate(inputs, grids, cog)
      PROVE  JobInv'
  <2> DEFINE given == {u \in Uploads : upload[u].at = "created" /\ ~upload[u].overlapped
                                       /\ upload[u].dest \in inputs}
             total == Stages(IF grids = 0 /\ ~cog THEN 1 ELSE grids, cog)
             J == [status |-> "running", log |-> <<>>, index |-> 0, percent |-> "none",
                   report |-> FALSE, error |-> FALSE, total |-> total,
                   inputs |-> inputs, lines |-> 0, given |-> given, read |-> {}]
  <2>1. job' = Append(job, J) /\ UNCHANGED <<dir, upload>>
    BY <1>1 DEF StartGenerate
  <2>2. total \in Nat
    BY DEF Stages
  <2>3. inputs \subseteq DOMAIN dir /\ inputs \in SUBSET Dests
    BY DEF Browsed, UploadInv, UploadTypes
  <2>4. given \in SUBSET Uploads /\ \A u \in given : Kept(u)
    BY DEF Kept, Alone
  <2>5. J \in JobRecord
    BY <2>2, <2>3, <2>4 DEF JobRecord
  <2>6. ToldRight(J)
    BY DEF ToldRight
  <2>7. ReadsRight(J)
    BY <2>4 DEF ReadsRight
  <2>8. J.inputs \subseteq DOMAIN dir
    BY <2>3
  <2> HIDE DEF J
  <2>9. /\ job' \in Seq(JobRecord) /\ DOMAIN job' = DOMAIN job \cup {Len(job) + 1}
        /\ job'[Len(job) + 1] = J
        /\ \A i \in DOMAIN job : job'[i] = job[i]
    BY <2>1, <2>5 DEF JobInv
  <2>10. \A i \in DOMAIN job' : ToldRight(job'[i]) /\ job'[i].inputs \subseteq DOMAIN dir
    BY <2>6, <2>8, <2>9 DEF JobInv
  <2>11. \A i \in DOMAIN job' : ReadsRight(job'[i])
    BY <2>7, <2>9 DEF JobInv
  <2>12. \A i \in DOMAIN job' : ReadsRight(job[i])'
    BY <2>1, <2>11 DEF ReadsRight, Kept, Alone
  <2> QED BY <2>1, <2>9, <2>10, <2>12 DEF JobInv, ToldRight
<1>2. ASSUME NEW j \in DOMAIN job, Stage(j) PROVE JobInv'
  <2> DEFINE J == job[j]
             read == J.read \cup {dir[f] : f \in J.inputs}
             K == [J EXCEPT !.index = @ + 1, !.percent = "none", !.log = Logged(j), !.lines = @ + 1,
                            !.read = read]
  <2>1. /\ job' = [job EXCEPT ![j] = K] /\ UNCHANGED <<dir, upload>>
        /\ J.status = "running" /\ J.index < J.total
    BY <1>2 DEF Stage, Running
  <2>2. J \in JobRecord /\ ToldRight(J) /\ ReadsRight(J) /\ J.inputs \subseteq DOMAIN dir
    BY DEF JobInv
  <2>3. /\ Logged(j) \in Seq(Nat) /\ Len(Logged(j)) = Len(J.log) + 1
        /\ \A i \in DOMAIN Logged(j) : Logged(j)[i] = (J.lines + 1) - Len(Logged(j)) + i
    BY LineLogged
  <2>4. read \subseteq SUBSET Uploads
    BY <2>2 DEF JobRecord, UploadInv, UploadTypes
  <2>5. {upload[u].dest : u \in J.given} = J.inputs => read \subseteq {{u} : u \in J.given}
    <3> SUFFICES ASSUME {upload[u].dest : u \in J.given} = J.inputs, NEW f \in J.inputs
                 PROVE  dir[f] \in {{u} : u \in J.given}
      BY <2>2 DEF ReadsRight
    <3>1. PICK u \in J.given : f = upload[u].dest
      OBVIOUS
    <3>2. u \in Uploads /\ Kept(u)
      BY <2>2 DEF JobRecord, ReadsRight
    <3> QED BY <3>1, <3>2 DEF UploadInv, Kept
  <2> HIDE DEF read
  <2>5a. J.lines + 1 \in Nat /\ J.index + 1 \in Nat
    BY <2>2 DEF JobRecord
  <2>6. K \in JobRecord
    BY <2>2, <2>3, <2>4, <2>5a DEF JobRecord
  <2>7. /\ K.index = J.index + 1 /\ K.log = Logged(j) /\ K.lines = J.lines + 1 /\ K.read = read
        /\ K.status = J.status /\ K.report = J.report /\ K.error = J.error /\ K.total = J.total
        /\ K.inputs = J.inputs /\ K.given = J.given
    BY <2>2 DEF JobRecord
  <2>8. J.index \in Nat /\ J.lines \in Nat /\ Len(J.log) \in Nat
    BY <2>2 DEF JobRecord
  <2> HIDE DEF K, J
  <2>9. ToldRight(K)
    <3>1. \A i \in DOMAIN K.log : K.log[i] = K.lines - Len(K.log) + i
      BY <2>3, <2>7
    <3>2. Len(K.log) \in Nat /\ Len(K.log) <= K.lines /\ (Len(K.log) >= MaxLog \/ Len(K.log) = K.lines)
      BY <2>2, <2>3, <2>7, <2>8, <2>1 DEF ToldRight
    <3>3. Len(K.log) <= MaxLog + K.index + 1 /\ (K.status # "failed" => Len(K.log) <= MaxLog + K.index)
      BY <2>2, <2>3, <2>7, <2>8, <2>1, SMTT(30) DEF ToldRight
    <3> QED BY <2>1, <2>2, <2>7, <3>1, <3>2, <3>3 DEF ToldRight
  <2>10. ReadsRight(K)
    BY <2>2, <2>5, <2>7 DEF ReadsRight
  <2> QED BY <2>1, <2>2, <2>6, <2>7, <2>9, <2>10, JobGoes
<1>3. ASSUME NEW j \in DOMAIN job, NEW percent \in BOOLEAN, ToolLine(j, percent) PROVE JobInv'
  <2> DEFINE J == job[j]
             shown == IF percent THEN "some" ELSE J.percent
             K == [J EXCEPT !.percent = shown, !.log = Bounded(Logged(j)), !.lines = @ + 1]
  <2>1. /\ job' = [job EXCEPT ![j] = K] /\ UNCHANGED <<dir, upload>>
        /\ J.status = "running" /\ J.index > 0
    BY <1>3 DEF ToolLine, Running
  <2>2. J \in JobRecord /\ ToldRight(J) /\ ReadsRight(J) /\ J.inputs \subseteq DOMAIN dir
    BY DEF JobInv
  <2>3. /\ Logged(j) \in Seq(Nat) /\ Len(Logged(j)) = Len(J.log) + 1
        /\ \A i \in DOMAIN Logged(j) : Logged(j)[i] = (J.lines + 1) - Len(Logged(j)) + i
    BY LineLogged
  <2>4. J.index \in Nat /\ J.lines \in Nat /\ Len(J.log) \in Nat /\ Len(J.log) <= J.lines
        /\ shown \in {"none", "some"}
    BY <2>2 DEF JobRecord, ToldRight
  <2>5. /\ Bounded(Logged(j)) \in Seq(Nat)
        /\ Len(Bounded(Logged(j))) = (IF Len(Logged(j)) > MaxLog THEN MaxLog ELSE Len(Logged(j)))
        /\ \A i \in DOMAIN Bounded(Logged(j)) :
             Bounded(Logged(j))[i] = (J.lines + 1) - Len(Bounded(Logged(j))) + i
    <3> DEFINE log == Logged(j)
               n == J.lines + 1
    <3>1. log \in Seq(Nat) /\ n \in Nat /\ Len(log) <= n /\ \A i \in DOMAIN log : log[i] = n - Len(log) + i
      BY <2>3, <2>4
    <3> HIDE DEF log, n
    <3>2. /\ Bounded(log) \in Seq(Nat)
          /\ Len(Bounded(log)) = (IF Len(log) > MaxLog THEN MaxLog ELSE Len(log))
          /\ \A i \in DOMAIN Bounded(log) : Bounded(log)[i] = n - Len(Bounded(log)) + i
      BY <3>1, LastLines
    <3> QED BY <3>2 DEF log, n
  <2>5a. J.lines + 1 \in Nat /\ J.index + 1 \in Nat
    BY <2>2 DEF JobRecord
  <2>6. K \in JobRecord
    BY <2>2, <2>4, <2>5, <2>5a DEF JobRecord
  <2>7. /\ K.index = J.index /\ K.log = Bounded(Logged(j)) /\ K.lines = J.lines + 1 /\ K.read = J.read
        /\ K.status = J.status /\ K.report = J.report /\ K.error = J.error /\ K.total = J.total
        /\ K.inputs = J.inputs /\ K.given = J.given
    BY <2>2 DEF JobRecord
  <2> HIDE DEF K, J
  <2>9. ToldRight(K)
    <3>1. \A i \in DOMAIN K.log : K.log[i] = K.lines - Len(K.log) + i
      BY <2>5, <2>7
    <3>2. Len(K.log) \in Nat /\ Len(K.log) <= K.lines /\ (Len(K.log) >= MaxLog \/ Len(K.log) = K.lines)
      <4>1. Len(J.log) >= MaxLog \/ Len(J.log) = J.lines
        BY <2>2 DEF ToldRight
      <4> DEFINE was == Len(J.log)
                 now == Len(Logged(j))
                 new == Len(K.log)
      <4>2. /\ new = (IF now > MaxLog THEN MaxLog ELSE now) /\ now = was + 1
            /\ K.lines = J.lines + 1
        BY <2>3, <2>5, <2>7
      <4>3. was \in Nat /\ J.lines \in Nat /\ was <= J.lines /\ (was >= MaxLog \/ was = J.lines)
        BY <2>4, <4>1
      <4> HIDE DEF was, now, new
      <4>4. /\ new \in Nat /\ new <= J.lines + 1 /\ (new >= MaxLog \/ new = J.lines + 1)
        BY <4>2, <4>3, LogAssumption, SMTT(30)
      <4> QED BY <4>2, <4>4 DEF new
    <3>3. Len(K.log) <= MaxLog + K.index + 1 /\ (K.status # "failed" => Len(K.log) <= MaxLog + K.index)
      <4>1. J.index \in Nat /\ K.index = J.index /\ K.status # "failed" /\ Len(K.log) = Len(Bounded(Logged(j)))
      BY <2>1, <2>4, <2>7
    <4>2. Len(J.log) <= MaxLog + J.index
      BY <2>1, <2>2 DEF ToldRight
    <4>3. Len(K.log) \in Nat /\ Len(K.log) <= MaxLog
      BY <2>3, <2>4, <2>5, <4>1
    <4> QED BY <4>1, <4>3
    <3> QED BY <2>1, <2>2, <2>7, <3>1, <3>2, <3>3 DEF ToldRight
  <2>10. ReadsRight(K)
    BY <2>2, <2>7 DEF ReadsRight
  <2> QED BY <2>1, <2>2, <2>6, <2>7, <2>9, <2>10, JobGoes
<1>4. ASSUME NEW j \in DOMAIN job, Finish(j) PROVE JobInv'
  <2> DEFINE J == job[j]
             K == [J EXCEPT !.status = "done", !.report = TRUE]
  <2>1. /\ job' = [job EXCEPT ![j] = K] /\ UNCHANGED <<dir, upload>>
        /\ J.status = "running" /\ J.index = J.total
    BY <1>4 DEF Finish, Running
  <2>2. J \in JobRecord /\ ToldRight(J) /\ ReadsRight(J) /\ J.inputs \subseteq DOMAIN dir
    BY DEF JobInv
  <2>6. K \in JobRecord
    BY <2>2 DEF JobRecord
  <2>7. /\ K.index = J.index /\ K.log = J.log /\ K.lines = J.lines /\ K.read = J.read
        /\ K.status = "done" /\ K.report = TRUE /\ K.error = J.error /\ K.total = J.total
        /\ K.inputs = J.inputs /\ K.given = J.given
    BY <2>2 DEF JobRecord
  <2>8. J.error \in BOOLEAN
    BY <2>2 DEF JobRecord
  <2> HIDE DEF K, J
  <2>9. ToldRight(K)
    BY <2>1, <2>2, <2>7, <2>8 DEF ToldRight
  <2>10. ReadsRight(K)
    BY <2>2, <2>7 DEF ReadsRight
  <2> QED BY <2>1, <2>2, <2>6, <2>7, <2>9, <2>10, JobGoes
<1>5. ASSUME NEW j \in DOMAIN job, FailJob(j) PROVE JobInv'
  <2> DEFINE J == job[j]
             K == [J EXCEPT !.status = "failed", !.error = TRUE, !.log = Logged(j), !.lines = @ + 1]
  <2>1. /\ job' = [job EXCEPT ![j] = K] /\ UNCHANGED <<dir, upload>>
        /\ J.status = "running"
    BY <1>5 DEF FailJob, Running
  <2>2. J \in JobRecord /\ ToldRight(J) /\ ReadsRight(J) /\ J.inputs \subseteq DOMAIN dir
    BY DEF JobInv
  <2>3. /\ Logged(j) \in Seq(Nat) /\ Len(Logged(j)) = Len(J.log) + 1
        /\ \A i \in DOMAIN Logged(j) : Logged(j)[i] = (J.lines + 1) - Len(Logged(j)) + i
    BY LineLogged
  <2>5a. J.lines + 1 \in Nat /\ J.index + 1 \in Nat
    BY <2>2 DEF JobRecord
  <2>6. K \in JobRecord
    BY <2>2, <2>3, <2>5a DEF JobRecord
  <2>7. /\ K.index = J.index /\ K.log = Logged(j) /\ K.lines = J.lines + 1 /\ K.read = J.read
        /\ K.status = "failed" /\ K.report = J.report /\ K.error = TRUE /\ K.total = J.total
        /\ K.inputs = J.inputs /\ K.given = J.given
    BY <2>2 DEF JobRecord
  <2>8. J.index \in Nat /\ J.lines \in Nat /\ Len(J.log) \in Nat /\ J.report \in BOOLEAN
    BY <2>2 DEF JobRecord
  <2> HIDE DEF K, J
  <2>9. ToldRight(K)
    <3>1. \A i \in DOMAIN K.log : K.log[i] = K.lines - Len(K.log) + i
      BY <2>3, <2>7
    <3>2. Len(K.log) \in Nat /\ Len(K.log) <= K.lines /\ (Len(K.log) >= MaxLog \/ Len(K.log) = K.lines)
      BY <2>2, <2>3, <2>7, <2>8, <2>1, SMTT(30) DEF ToldRight
    <3>3. Len(K.log) <= MaxLog + K.index + 1 /\ (K.status # "failed" => Len(K.log) <= MaxLog + K.index)
      BY <2>2, <2>3, <2>7, <2>8, <2>1 DEF ToldRight
    <3> QED BY <2>1, <2>2, <2>7, <3>1, <3>2, <3>3 DEF ToldRight
  <2>10. ReadsRight(K)
    BY <2>2, <2>7 DEF ReadsRight
  <2> QED BY <2>1, <2>2, <2>6, <2>7, <2>9, <2>10, JobGoes
<1>6. ASSUME UNCHANGED job PROVE JobInv'
  <2>1. \A u \in Uploads : Kept(u) => Kept(u)' /\ upload'[u].dest = upload[u].dest
    BY UploadsStay
  <2>2. DOMAIN dir \subseteq DOMAIN dir'
    BY FilesStay
  <2>3. ASSUME NEW j \in DOMAIN job PROVE ReadsRight(job[j])'
    <3>1. job[j] \in JobRecord /\ ReadsRight(job[j]) /\ job'[j] = job[j]
      BY <1>6 DEF JobInv
    <3>2. job[j].given \subseteq Uploads
      BY <3>1 DEF JobRecord
    <3>3. \A u \in job[j].given : Kept(u) /\ Kept(u)' /\ upload'[u].dest = upload[u].dest
      BY <2>1, <3>1, <3>2 DEF ReadsRight
    <3>4. {upload'[u].dest : u \in job[j].given} = {upload[u].dest : u \in job[j].given}
      BY <3>3
    <3> QED BY <3>1, <3>3, <3>4, <1>6 DEF ReadsRight
  <2> QED BY <1>6, <2>2, <2>3 DEF JobInv, ToldRight
<1>7. ASSUME NEW u \in Uploads, (\E raw \in DOMAIN Sanitized, fits \in BOOLEAN : Choose(u, raw, fits))
                                 \/ Open(u) \/ Write(u) \/ WriteFails(u)
      PROVE  JobInv'
  BY <1>6, <1>7 DEF Choose, Open, Write, WriteFails
<1>8. CASE UNCHANGED vars
  BY <1>6, <1>8 DEF vars
<1> QED BY <1>1, <1>2, <1>3, <1>4, <1>5, <1>7, <1>8 DEF Next

-----------------------------------------------------------------------------
(* ToolRun.                                                                *)

ToolTypes ==
  /\ tool \in [state : {"running", "ok", "failed"}, script : Scripts, next : Nat \ {0}]
  /\ tool.script \in Seq([pipe : T!Pipes, good : BOOLEAN]) /\ tool.next <= Len(tool.script) + 1
  /\ pipe \in [T!Pipes -> Seq(Nat)] /\ reader \in [T!Pipes -> BOOLEAN]
  /\ lines \in Seq(Nat) /\ reported \in Seq(Nat)

\* The lines of pipe p that the tool has written.
WrittenTo(p) == {i \in T!Written : tool.script[i].pipe = p}

In(i, s) == \E k \in DOMAIN s : s[k] = i
Before(i, s, k) == \E j \in DOMAIN s : j < k /\ s[j] = i

\* What the readers have sent, reported or not.
Both(r, l) == [k \in 1..(Len(r) + Len(l)) |-> IF k <= Len(r) THEN r[k] ELSE l[k - Len(r)]]
Sent == Both(reported, lines)

\* Of each pipe the lines sent are the first ones, in their order.
SentInOrder(s) ==
  \A k \in DOMAIN s : s[k] \in T!Written /\
    \A i \in T!Written : T!SamePipe(i, s[k]) => (i < s[k] <=> Before(i, s, k))

\* A pipe holds those that follow, up to the last one written while it is read.
PipeInOrder(p, s) ==
  /\ \A m \in DOMAIN pipe[p] : pipe[p][m] \in WrittenTo(p) /\
       \A i \in WrittenTo(p) : i < pipe[p][m] <=> In(i, s) \/ Before(i, pipe[p], m)
  /\ reader[p] => \A i \in WrittenTo(p) : In(i, s) \/ In(i, pipe[p])

\* A reader that has ended has sent the lines up to the first that is no text.
AllText(i) == \A k \in 1..i : T!SamePipe(k, i) => tool.script[k].good
ReaderEnded(p, s) ==
  ~reader[p] => pipe[p] = <<>> /\ \A i \in WrittenTo(p) : AllText(i) => In(i, s)

LastReported ==
  tail = SubSeq(reported, IF Len(reported) > TailSize THEN Len(reported) - TailSize + 1 ELSE 1,
                Len(reported))

ToolInv ==
  /\ ToolTypes
  /\ SentInOrder(Sent)
  /\ \A p \in T!Pipes : PipeInOrder(p, Sent) /\ ReaderEnded(p, Sent)
  /\ result # "none" => lines = <<>> /\ \A p \in T!Pipes : ~reader[p]
  /\ LastReported

LEMMA ToolInit == ASSUME T!Init PROVE ToolInv
<1>1. tool.script \in Scripts /\ tool.next = 1 /\ tool.state = "running"
      /\ tool \in [state : {"running"}, script : Scripts, next : {1}]
  BY DEF T!Init
<1>2. ToolTypes
  <2>1. tool.script \in Seq([pipe : T!Pipes, good : BOOLEAN])
    BY <1>1, ToolAssumption
  <2>2. Len(tool.script) \in Nat
    BY <2>1
  <2>3. tool \in [state : {"running", "ok", "failed"}, script : Scripts, next : Nat \ {0}]
    BY <1>1
  <2> QED BY <1>1, <2>1, <2>2, <2>3 DEF T!Init, ToolTypes
<1>3. DOMAIN Sent = {} /\ \A p \in T!Pipes : pipe[p] = <<>> /\ reader[p]
  BY DEF T!Init, Sent, Both
<1>4. T!Written = {}
  BY <1>1 DEF T!Written
<1>5. LastReported
  <2>1. tail = <<>> /\ reported = <<>> /\ ~(Len(reported) > TailSize)
    BY ToolAssumption DEF T!Init
  <2>2. SubSeq(reported, 1, Len(reported)) = <<>>
    BY <2>1
  <2> QED BY <2>1, <2>2 DEF LastReported
<1>6. result = "none"
  BY DEF T!Init
<1> QED BY <1>2, <1>3, <1>4, <1>5, <1>6 DEF ToolInv, SentInOrder, PipeInOrder, ReaderEnded, WrittenTo

LEMMA SameLines ==
  ASSUME NEW a \in Seq(Nat), NEW b \in Seq(Nat), Len(a) = Len(b), \A i \in 1..Len(a) : a[i] = b[i]
  PROVE  a = b
  OBVIOUS

\* The last n lines of a sequence.
LastOf(s, n) == SubSeq(s, IF Len(s) > n THEN Len(s) - n + 1 ELSE 1, Len(s))

LEMMA LastOfLines ==
  ASSUME NEW s \in Seq(Nat), NEW n \in Nat
  PROVE  /\ LastOf(s, n) \in Seq(Nat)
         /\ Len(LastOf(s, n)) = (IF Len(s) > n THEN n ELSE Len(s))
         /\ \A i \in 1..Len(LastOf(s, n)) :
              LastOf(s, n)[i] = s[(IF Len(s) > n THEN Len(s) - n ELSE 0) + i]
<1> DEFINE k == IF Len(s) > n THEN Len(s) - n ELSE 0
           cut == SubSeq(s, k + 1, Len(s))
<1>1. LastOf(s, n) = cut
  BY DEF LastOf
<1>2. k \in Nat /\ k + 1 \in 1..Len(s) + 1 /\ Len(s) \in Nat
      /\ Len(s) - k = (IF Len(s) > n THEN n ELSE Len(s))
  OBVIOUS
<1>3. cut \in Seq(Nat) /\ Len(cut) = Len(s) - k /\ \A i \in 1..Len(s) - k : cut[i] = s[k + i]
  <2> HIDE DEF k
  <2> QED BY <1>2
<1> HIDE DEF cut
<1>4. \A i \in 1..Len(cut) : cut[i] = s[k + i]
  BY <1>2, <1>3
<1> QED BY <1>1, <1>2, <1>3, <1>4

\* The last lines are kept when one more is reported.
LEMMA KeptLast ==
  ASSUME NEW s \in Seq(Nat), NEW x \in Nat, NEW n \in Nat \ {0}
  PROVE  Append(IF Len(LastOf(s, n)) >= n THEN Tail(LastOf(s, n)) ELSE LastOf(s, n), x)
           = LastOf(Append(s, x), n)
<1> DEFINE t == LastOf(s, n)
           new == LastOf(Append(s, x), n)
           kept == IF Len(t) >= n THEN Tail(t) ELSE t
<1>1. /\ t \in Seq(Nat) /\ Len(t) = (IF Len(s) > n THEN n ELSE Len(s))
      /\ \A i \in 1..Len(t) : t[i] = s[(IF Len(s) > n THEN Len(s) - n ELSE 0) + i]
  BY LastOfLines
<1>2. Append(s, x) \in Seq(Nat) /\ Len(Append(s, x)) = Len(s) + 1 /\ Len(s) \in Nat
      /\ Append(s, x)[Len(s) + 1] = x /\ \A i \in 1..Len(s) : Append(s, x)[i] = s[i]
  OBVIOUS
<1>3. /\ new \in Seq(Nat) /\ Len(new) = (IF Len(s) + 1 > n THEN n ELSE Len(s) + 1)
      /\ \A i \in 1..Len(new) :
           new[i] = Append(s, x)[(IF Len(s) + 1 > n THEN Len(s) + 1 - n ELSE 0) + i]
  <2> DEFINE r == Append(s, x)
  <2>1. r \in Seq(Nat) /\ Len(r) = Len(s) + 1
    BY <1>2
  <2> HIDE DEF r
  <2>2. /\ LastOf(r, n) \in Seq(Nat)
        /\ Len(LastOf(r, n)) = (IF Len(r) > n THEN n ELSE Len(r))
        /\ \A i \in 1..Len(LastOf(r, n)) :
             LastOf(r, n)[i] = r[(IF Len(r) > n THEN Len(r) - n ELSE 0) + i]
    BY <2>1, LastOfLines
  <2>3. new = LastOf(r, n)
    BY DEF r
  <2> HIDE DEF new
  <2> QED BY <2>1, <2>2, <2>3, SMTT(30) DEF r
<1> HIDE DEF t, new
<1>4. CASE Len(s) < n
  <2>1. kept = t /\ Len(t) = Len(s) /\ Len(new) = Len(s) + 1
    BY <1>1, <1>2, <1>3, <1>4
  <2>2. Append(t, x) \in Seq(Nat) /\ Len(Append(t, x)) = Len(new)
        /\ \A i \in 1..Len(new) : Append(t, x)[i] = IF i = Len(new) THEN x ELSE t[i]
    BY <1>1, <1>2, <2>1
  <2>3. \A i \in 1..Len(new) : new[i] = IF i = Len(new) THEN x ELSE s[i]
    BY <1>2, <1>3, <1>4, <2>1
  <2>4. \A i \in 1..Len(t) : t[i] = s[i]
    BY <1>1, <1>2, <1>4, <2>1
  <2>5. \A i \in 1..Len(new) : Append(t, x)[i] = new[i]
    BY <1>2, <2>1, <2>2, <2>3, <2>4
  <2>6. Append(t, x) = new
    BY <1>3, <2>2, <2>5, SameLines
  <2> QED BY <2>1, <2>6 DEF t, new
<1>5. CASE Len(s) >= n
  <2>1. kept = Tail(t) /\ Len(t) = n /\ Len(new) = n /\ Len(Tail(t)) = n - 1 /\ Tail(t) \in Seq(Nat)
        /\ \A i \in 1..n - 1 : Tail(t)[i] = t[i + 1]
    BY <1>1, <1>2, <1>3, <1>5
  <2>2. Append(Tail(t), x) \in Seq(Nat) /\ Len(Append(Tail(t), x)) = n
        /\ \A i \in 1..n : Append(Tail(t), x)[i] = IF i = n THEN x ELSE Tail(t)[i]
    BY <1>2, <2>1
  <2>3. \A i \in 1..n : new[i] = Append(s, x)[Len(s) + 1 - n + i]
    <3>1. Len(s) + 1 > n
      BY <1>2, <1>5
    <3> QED BY <1>2, <1>3, <2>1, <3>1
  <2>4. \A i \in 1..n : t[i] = s[Len(s) - n + i]
    <3>1. \A i \in 1..n : t[i] = s[(IF Len(s) > n THEN Len(s) - n ELSE 0) + i]
      BY <1>1, <2>1
    <3>2. \A i \in 1..n : (IF Len(s) > n THEN Len(s) - n ELSE 0) + i = Len(s) - n + i
      BY <1>2, <1>5, SMTT(30)
    <3> QED BY <3>1, <3>2
  <2>5. \A i \in 1..n : Append(Tail(t), x)[i] = new[i]
    <3>1. ASSUME NEW i \in 1..n, i = n PROVE Append(Tail(t), x)[i] = new[i]
      BY <1>2, <2>2, <2>3, <3>1
    <3>2. ASSUME NEW i \in 1..n, i # n PROVE Append(Tail(t), x)[i] = new[i]
      <4>1. i \in 1..n - 1 /\ i + 1 \in 1..n /\ Len(s) + 1 - n + i \in 1..Len(s)
            /\ Len(s) - n + (i + 1) = Len(s) + 1 - n + i
        BY <1>2, <1>5, <3>2, SMTT(30)
      <4>2. Append(Tail(t), x)[i] = s[Len(s) - n + (i + 1)]
        BY <2>1, <2>2, <2>4, <3>2, <4>1
      <4> QED BY <1>2, <2>3, <4>1, <4>2
    <3> QED BY <3>1, <3>2
  <2>6. Append(Tail(t), x) = new
    BY <1>3, <2>1, <2>2, <2>5, SameLines, ZenonT(60)
  <2> QED BY <2>1, <2>6 DEF t, new
<1> QED BY <1>2, <1>4, <1>5

\* One line is taken from the channel; one is put into it.
LEMMA TakeOne ==
  ASSUME NEW r \in Seq(Nat), NEW l \in Seq(Nat), l # <<>>
  PROVE  /\ Head(l) \in Nat /\ Tail(l) \in Seq(Nat) /\ Append(r, Head(l)) \in Seq(Nat)
         /\ Both(Append(r, Head(l)), Tail(l)) = Both(r, l)
<1> DEFINE a == Append(r, Head(l))
           b == Tail(l)
<1>1. Len(l) \in Nat \ {0} /\ Head(l) = l[1] /\ Head(l) \in Nat /\ b \in Seq(Nat)
      /\ Len(b) = Len(l) - 1 /\ \A i \in 1..Len(l) - 1 : b[i] = l[i + 1]
  OBVIOUS
<1>2. a \in Seq(Nat) /\ Len(a) = Len(r) + 1 /\ Len(r) \in Nat /\ a[Len(r) + 1] = l[1]
      /\ \A i \in 1..Len(r) : a[i] = r[i]
  BY <1>1
<1> HIDE DEF a, b
<1>3. Len(a) + Len(b) = Len(r) + Len(l)
  BY <1>1, <1>2
<1>4. ASSUME NEW k \in 1..(Len(r) + Len(l))
      PROVE  (IF k <= Len(a) THEN a[k] ELSE b[k - Len(a)]) = (IF k <= Len(r) THEN r[k] ELSE l[k - Len(r)])
  <2>1. CASE k <= Len(r)
    <3>1. k \in 1..Len(r) /\ k <= Len(a)
      BY <1>2, <2>1
    <3> QED BY <1>2, <2>1, <3>1
  <2>2. CASE k = Len(r) + 1
    <3>1. k - Len(r) = 1 /\ k <= Len(a) /\ ~(k <= Len(r))
      BY <1>2, <2>2
    <3> QED BY <1>2, <2>2, <3>1
  <2>3. CASE k > Len(r) + 1
    <3>1. /\ k - Len(a) \in 1..Len(l) - 1 /\ (k - Len(a)) + 1 = k - Len(r)
          /\ ~(k <= Len(a)) /\ ~(k <= Len(r))
      BY <1>1, <1>2, <2>3
    <3>2. b[k - Len(a)] = l[(k - Len(a)) + 1]
      BY <1>1, <3>1
    <3> QED BY <3>1, <3>2
  <2> QED BY <1>2, <2>1, <2>2, <2>3
<1>5. Both(a, b) = Both(r, l)
  BY <1>3, <1>4 DEF Both
<1> QED BY <1>1, <1>2, <1>5 DEF a, b

LEMMA PutOne ==
  ASSUME NEW r \in Seq(Nat), NEW l \in Seq(Nat), NEW x \in Nat
  PROVE  /\ Len(r) + Len(l) \in Nat
         /\ DOMAIN Both(r, l) = 1..(Len(r) + Len(l))
         /\ DOMAIN Both(r, Append(l, x)) = 1..(Len(r) + Len(l) + 1)
         /\ Both(r, Append(l, x))[Len(r) + Len(l) + 1] = x
         /\ \A k \in 1..(Len(r) + Len(l)) : Both(r, Append(l, x))[k] = Both(r, l)[k]
<1> DEFINE n == Len(r) + Len(l)
           b == Append(l, x)
           s == Both(r, b)
<1>1. b \in Seq(Nat) /\ Len(b) = Len(l) + 1 /\ Len(l) \in Nat /\ Len(r) \in Nat
      /\ b[Len(l) + 1] = x /\ \A i \in 1..Len(l) : b[i] = l[i]
  OBVIOUS
<1> HIDE DEF b
<1>2. n \in Nat /\ DOMAIN Both(r, l) = 1..n /\ DOMAIN s = 1..(n + 1)
  BY <1>1 DEF Both
<1>3. s[n + 1] = x
  <2>1. n + 1 \in 1..(Len(r) + Len(b)) /\ ~(n + 1 <= Len(r)) /\ (n + 1) - Len(r) = Len(l) + 1
    BY <1>1
  <2> QED BY <1>1, <2>1 DEF Both
<1>4. ASSUME NEW k \in 1..n PROVE s[k] = Both(r, l)[k]
  <2>1. k \in 1..(Len(r) + Len(b)) /\ k \in 1..(Len(r) + Len(l))
    BY <1>1
  <2>2. CASE k <= Len(r)
    BY <2>1, <2>2 DEF Both
  <2>3. CASE ~(k <= Len(r))
    <3>1. k - Len(r) \in 1..Len(l)
      BY <1>1, <2>3
    <3> QED BY <1>1, <2>1, <2>3, <3>1 DEF Both
  <2> QED BY <2>2, <2>3
<1> QED BY <1>2, <1>3, <1>4 DEF b

LEMMA InAppended ==
  ASSUME NEW s \in Seq(Nat), NEW n \in Nat
  PROVE  /\ DOMAIN s = 1..Len(s) /\ Len(s) \in Nat /\ DOMAIN Append(s, n) = 1..(Len(s) + 1)
         /\ Append(s, n)[Len(s) + 1] = n /\ \A m \in 1..Len(s) : Append(s, n)[m] = s[m]
         /\ \A i : In(i, Append(s, n)) <=> In(i, s) \/ i = n
         /\ \A i : \A m \in 1..Len(s) : Before(i, Append(s, n), m) <=> Before(i, s, m)
         /\ \A i : Before(i, Append(s, n), Len(s) + 1) <=> In(i, s)
<1> DEFINE t == Append(s, n)
<1>1. DOMAIN s = 1..Len(s) /\ Len(s) \in Nat /\ DOMAIN t = 1..(Len(s) + 1)
      /\ t[Len(s) + 1] = n /\ \A m \in 1..Len(s) : t[m] = s[m]
  OBVIOUS
<1> HIDE DEF t
<1>2. \A i : In(i, t) <=> In(i, s) \/ i = n
  BY <1>1 DEF In
<1>3. \A i : \A m \in 1..Len(s) : Before(i, t, m) <=> Before(i, s, m)
  BY <1>1 DEF Before
<1>4. \A i : Before(i, t, Len(s) + 1) <=> In(i, s)
  BY <1>1 DEF Before, In
<1> QED BY <1>1, <1>2, <1>3, <1>4 DEF t

LEMMA InTail ==
  ASSUME NEW s \in Seq(Nat), s # <<>>
  PROVE  /\ s[1] = Head(s) /\ Head(s) \in Nat /\ 1 \in DOMAIN s /\ Tail(s) \in Seq(Nat)
         /\ \A m \in DOMAIN Tail(s) : m + 1 \in DOMAIN s /\ Tail(s)[m] = s[m + 1]
         /\ \A i : In(i, s) <=> In(i, Tail(s)) \/ i = Head(s)
         /\ \A i : ~Before(i, s, 1)
         /\ \A i : \A m \in DOMAIN Tail(s) :
              Before(i, s, m + 1) <=> Before(i, Tail(s), m) \/ i = Head(s)
<1> DEFINE t == Tail(s)
           h == Head(s)
<1>1. /\ DOMAIN s = 1..Len(s) /\ Len(s) \in Nat \ {0} /\ DOMAIN t = 1..(Len(s) - 1)
      /\ t \in Seq(Nat) /\ s[1] = h /\ h \in Nat /\ \A m \in 1..(Len(s) - 1) : t[m] = s[m + 1]
  OBVIOUS
<1> HIDE DEF t, h
<1>2. ASSUME NEW i PROVE In(i, s) <=> In(i, t) \/ i = h
  <2>1. ASSUME NEW j \in DOMAIN s, s[j] = i PROVE In(i, t) \/ i = h
    <3>1. CASE j = 1
      BY <1>1, <2>1, <3>1
    <3>2. CASE j # 1
      <4>1. j - 1 \in 1..(Len(s) - 1) /\ (j - 1) + 1 = j
        BY <1>1, <3>2
      <4>2. t[j - 1] = s[(j - 1) + 1] /\ j - 1 \in DOMAIN t
        BY <1>1, <4>1
      <4> QED BY <2>1, <4>1, <4>2 DEF In
    <3> QED BY <3>1, <3>2
  <2>2. ASSUME NEW j \in DOMAIN t, t[j] = i PROVE In(i, s)
    <3>1. j + 1 \in DOMAIN s /\ t[j] = s[j + 1]
      BY <1>1
    <3> QED BY <2>2, <3>1 DEF In
  <2>3. 1 \in DOMAIN s
    BY <1>1
  <2>4. i = h => In(i, s)
    BY <1>1, <2>3 DEF In
  <2> QED BY <2>1, <2>2, <2>4 DEF In
<1>3. \A i : ~Before(i, s, 1)
  BY <1>1 DEF Before
<1>4. ASSUME NEW i, NEW m \in DOMAIN t
      PROVE  Before(i, s, m + 1) <=> Before(i, t, m) \/ i = h
  <2>0. m \in 1..(Len(s) - 1)
    BY <1>1
  <2>1. ASSUME NEW j \in DOMAIN s, j < m + 1, s[j] = i PROVE Before(i, t, m) \/ i = h
    <3>1. CASE j = 1
      BY <1>1, <2>1, <3>1
    <3>2. CASE j # 1
      <4>1. j - 1 \in 1..(Len(s) - 1) /\ (j - 1) + 1 = j /\ j - 1 < m
        <5>1. j \in 1..Len(s)
          BY <1>1
        <5>2. Len(s) \in Nat
          BY <1>1
        <5> QED BY <2>0, <2>1, <3>2, <5>1, <5>2
      <4>2. t[j - 1] = s[(j - 1) + 1] /\ j - 1 \in DOMAIN t
        BY <1>1, <4>1
      <4> QED BY <2>1, <4>1, <4>2 DEF Before
    <3> QED BY <3>1, <3>2
  <2>2. ASSUME NEW j \in DOMAIN t, j < m, t[j] = i PROVE Before(i, s, m + 1)
    <3>0. j \in 1..(Len(s) - 1)
      BY <1>1
    <3>1. j + 1 \in DOMAIN s /\ t[j] = s[j + 1]
      BY <1>1, <3>0, SMTT(30)
    <3>2. j + 1 < m + 1
      BY <2>0, <2>2, <3>0
    <3> QED BY <2>2, <3>1, <3>2 DEF Before
  <2>3. 1 \in DOMAIN s /\ 1 < m + 1
    BY <1>1
  <2>4. i = h => Before(i, s, m + 1)
    BY <1>1, <2>3 DEF Before
  <2> QED BY <2>1, <2>2, <2>4 DEF Before
<1>5. 1 \in DOMAIN s /\ \A m \in DOMAIN t : m + 1 \in DOMAIN s /\ t[m] = s[m + 1]
  BY <1>1
<1> QED BY <1>1, <1>2, <1>3, <1>4, <1>5 DEF t, h

\* A pipe that is read, with the line that is written next.
LEMMA PipeAppended ==
  ASSUME NEW W, NEW s \in Seq(Nat), NEW n \in Nat, NEW sent,
         \A i \in W : i \in Nat /\ i < n, \A i : In(i, sent) => i < n,
         \A m \in DOMAIN s : s[m] \in W /\
           \A i \in W : i < s[m] <=> In(i, sent) \/ Before(i, s, m),
         \A i \in W : In(i, sent) \/ In(i, s)
  PROVE  /\ \A m \in DOMAIN Append(s, n) : Append(s, n)[m] \in W \cup {n} /\
              \A i \in W \cup {n} : i < Append(s, n)[m] <=> In(i, sent) \/ Before(i, Append(s, n), m)
         /\ \A i \in W \cup {n} : In(i, sent) \/ In(i, Append(s, n))
<1> DEFINE t == Append(s, n)
<1>1. /\ DOMAIN s = 1..Len(s) /\ Len(s) \in Nat /\ DOMAIN t = 1..(Len(s) + 1)
      /\ t[Len(s) + 1] = n /\ \A m \in 1..Len(s) : t[m] = s[m]
      /\ \A i : In(i, t) <=> In(i, s) \/ i = n
      /\ \A i : \A m \in 1..Len(s) : Before(i, t, m) <=> Before(i, s, m)
      /\ \A i : Before(i, t, Len(s) + 1) <=> In(i, s)
  BY InAppended
<1> HIDE DEF t
<1>2. ~In(n, sent) /\ ~In(n, s) /\ \A m \in 1..Len(s) : ~Before(n, s, m) /\ s[m] < n /\ s[m] \in Nat
  BY <1>1 DEF In, Before
<1>3. ASSUME NEW m \in 1..Len(s), NEW i \in W \cup {n}
      PROVE  t[m] \in W \cup {n} /\ (i < t[m] <=> In(i, sent) \/ Before(i, t, m))
  <2>1. CASE i \in W
    BY <1>1, <2>1
  <2>2. CASE i = n
    BY <1>1, <1>2, <2>2
  <2> QED BY <2>1, <2>2
<1>4. ASSUME NEW i \in W \cup {n}
      PROVE  i < n <=> In(i, sent) \/ Before(i, t, Len(s) + 1)
  <2>1. CASE i \in W
    BY <1>1, <2>1
  <2>2. CASE i = n
    BY <1>1, <1>2, <2>2
  <2> QED BY <2>1, <2>2
<1>5. \A m \in DOMAIN t : m \in 1..Len(s) \/ m = Len(s) + 1
  BY <1>1
<1>6. \A m \in DOMAIN t : t[m] \in W \cup {n} /\
        \A i \in W \cup {n} : i < t[m] <=> In(i, sent) \/ Before(i, t, m)
  BY <1>1, <1>3, <1>4, <1>5
<1> QED BY <1>1, <1>6 DEF t

\* What stays when the lines on their way stay.
LEMMA LinesStay ==
  ASSUME ToolInv, tool'.script = tool.script, tool'.next = tool.next,
         pipe' = pipe, reader' = reader, Sent' = Sent
  PROVE  SentInOrder(Sent)' /\ \A p \in T!Pipes : PipeInOrder(p, Sent)' /\ ReaderEnded(p, Sent)'
<1>1. SentInOrder(Sent) /\ \A p \in T!Pipes : PipeInOrder(p, Sent) /\ ReaderEnded(p, Sent)
  BY DEF ToolInv
<1>2. T!Written' = T!Written /\ \A p : WrittenTo(p)' = WrittenTo(p)
  BY DEF T!Written, WrittenTo
<1>3. SentInOrder(Sent)'
  BY <1>1, <1>2 DEF SentInOrder, Before, T!SamePipe
<1>4. ASSUME NEW p \in T!Pipes PROVE PipeInOrder(p, Sent)'
  BY <1>1, <1>2 DEF PipeInOrder, In, Before
<1>5. ASSUME NEW p \in T!Pipes PROVE ReaderEnded(p, Sent)'
  BY <1>1, <1>2 DEF ReaderEnded, In, AllText, T!SamePipe
<1> QED BY <1>3, <1>4, <1>5

\* What stays of one pipe when it and its reader stay, and a line of another is sent.
LEMMA PipeStays ==
  ASSUME NEW p \in T!Pipes, PipeInOrder(p, Sent), ReaderEnded(p, Sent), tool' = tool,
         pipe'[p] = pipe[p], reader'[p] = reader[p],
         \A i \in WrittenTo(p) : In(i, Sent') <=> In(i, Sent)
  PROVE  PipeInOrder(p, Sent)' /\ ReaderEnded(p, Sent)'
<1>1. WrittenTo(p)' = WrittenTo(p)
  BY DEF T!Written, WrittenTo
<1>2. /\ \A m \in DOMAIN pipe'[p] : pipe'[p][m] \in WrittenTo(p)' /\
           \A i \in WrittenTo(p)' :
             i < pipe'[p][m] <=> In(i, Sent') \/ Before(i, pipe'[p], m)
      /\ reader'[p] => \A i \in WrittenTo(p)' : In(i, Sent') \/ In(i, pipe'[p])
  BY <1>1 DEF PipeInOrder
<1>3. PipeInOrder(p, Sent)'
  BY <1>2 DEF PipeInOrder, In, Before
<1>4. ~reader'[p] => pipe'[p] = <<>> /\ \A i \in WrittenTo(p)' : AllText(i)' => In(i, Sent')
  BY <1>1 DEF ReaderEnded, AllText, T!SamePipe
<1>5. ReaderEnded(p, Sent)'
  BY <1>4 DEF ReaderEnded, In
<1> QED BY <1>3, <1>5

LEMMA ToolStep ==
  ASSUME ToolInv, [T!Next]_toolVars
  PROVE  ToolInv'
<1>t. ToolTypes
  BY DEF ToolInv
<1>n. tool.next \in Nat \ {0} /\ T!Written = 1..(tool.next - 1)
  BY <1>t DEF ToolTypes, T!Written
<1>1. CASE T!WriteLine
  <2> DEFINE n == tool.next
             q == tool.script[n].pipe
  <2>1. n \in 1..Len(tool.script) /\ UNCHANGED <<reader, lines, reported, tail, result>>
        /\ tool.script[n] \in [pipe : T!Pipes, good : BOOLEAN] /\ q \in T!Pipes
    <3>1. n <= Len(tool.script) /\ UNCHANGED <<reader, lines, reported, tail, result>>
      BY <1>1 DEF T!WriteLine
    <3>2. tool.script \in Seq([pipe : T!Pipes, good : BOOLEAN])
      BY <1>t DEF ToolTypes
    <3>3. n \in 1..Len(tool.script)
      BY <1>n, <3>1, <3>2
    <3>4. tool.script[n] \in [pipe : T!Pipes, good : BOOLEAN]
      <4> DEFINE OneLine == [pipe : T!Pipes, good : BOOLEAN]
      <4>1. tool.script \in Seq(OneLine)
        BY <3>2
      <4> HIDE DEF n, q, OneLine
      <4>2. tool.script[n] \in OneLine
        BY <3>3, <4>1
      <4> QED BY <4>2 DEF OneLine
    <3> QED BY <3>1, <3>3, <3>4
  <2>2. Sent' = Sent /\ (LastReported' <=> LastReported)
    BY <2>1 DEF Sent, Both, LastReported
  <2>3. CASE ~reader[q]
    <3>1. tool' = [tool EXCEPT !.state = "failed"] /\ pipe' = pipe
      BY <1>1, <2>3 DEF T!WriteLine, T!Next1
    <3>2. tool' \in [state : {"running", "ok", "failed"}, script : Scripts, next : Nat \ {0}]
          /\ tool'.next = tool.next /\ tool'.script = tool.script
      BY <1>t, <3>1 DEF ToolTypes
    <3>3. ToolTypes'
      BY <1>t, <2>1, <3>1, <3>2 DEF ToolTypes
    <3> QED
      BY <2>1, <2>2, <3>1, <3>2, <3>3
      DEF ToolInv, SentInOrder, PipeInOrder, ReaderEnded, WrittenTo, AllText, T!SamePipe, T!Written
  <2>4. CASE reader[q]
    <3>1. tool' = [tool EXCEPT !.next = n + 1] /\ pipe' = [pipe EXCEPT ![q] = Append(@, n)]
      BY <1>1, <2>4 DEF T!WriteLine, T!Next1
    <3>2. tool' \in [state : {"running", "ok", "failed"}, script : Scripts, next : Nat \ {0}]
          /\ tool'.next = n + 1 /\ tool'.script = tool.script
      <4>1. n + 1 \in Nat \ {0}
        BY <1>n
      <4> QED BY <1>t, <3>1, <4>1 DEF ToolTypes
    <3>3. /\ pipe' \in [T!Pipes -> Seq(Nat)] /\ pipe'[q] = Append(pipe[q], n)
          /\ \A p \in T!Pipes : p # q => pipe'[p] = pipe[p]
      <4>1. pipe \in [T!Pipes -> Seq(Nat)] /\ q \in T!Pipes /\ n \in Nat
        BY <1>n, <1>t, <2>1 DEF ToolTypes
      <4>2. pipe[q] \in Seq(Nat)
        BY <4>1
      <4>3. Append(pipe[q], n) \in Seq(Nat)
        BY <4>1, <4>2
      <4> QED BY <3>1, <4>1, <4>3, ZenonT(60)
    <3>4. ToolTypes'
      <4>1. tool'.script \in Seq([pipe : T!Pipes, good : BOOLEAN]) /\ tool'.next <= Len(tool'.script) + 1
        <5>1. tool.script \in Seq([pipe : T!Pipes, good : BOOLEAN])
          BY <1>t DEF ToolTypes
        <5>2. n \in 1..Len(tool.script) /\ Len(tool.script) \in Nat
          BY <2>1, <5>1
        <5>3. tool'.next = n + 1 /\ tool'.script = tool.script
          BY <3>2
        <5> HIDE DEF n
        <5> QED BY <5>1, <5>2, <5>3
      <4>2. reader' = reader /\ lines' = lines /\ reported' = reported
        BY <2>1
      <4> QED BY <1>t, <3>2, <3>3, <4>1, <4>2 DEF ToolTypes
    <3>5. T!Written' = T!Written \cup {n} /\ n \notin T!Written /\ \A i \in T!Written : i \in Nat /\ i < n
      BY <1>n, <3>2 DEF T!Written
    <3>6. /\ \A p : WrittenTo(p)' = (IF p = q THEN WrittenTo(p) \cup {n} ELSE WrittenTo(p))
          /\ \A p : WrittenTo(p) \subseteq T!Written
          /\ \A i : AllText(i)' <=> AllText(i)
          /\ \A i, k : T!SamePipe(i, k)' <=> T!SamePipe(i, k)
      BY <3>2, <3>5 DEF WrittenTo, AllText, T!SamePipe
    <3>7. SentInOrder(Sent)'
      <4>1. SentInOrder(Sent)
        BY DEF ToolInv
      <4> HIDE DEF n, q
      <4>2. \A k \in DOMAIN Sent : Sent[k] \in T!Written /\
              \A i \in T!Written : tool.script[i].pipe = tool.script[Sent[k]].pipe =>
                (i < Sent[k] <=> Before(i, Sent, k))
        BY <4>1 DEF SentInOrder, T!SamePipe
      <4>3. \A k \in DOMAIN Sent : ~(n < Sent[k]) /\ ~Before(n, Sent, k)
        BY <1>n, <3>5, <4>2 DEF Before, n
      <4>4. \A k \in DOMAIN Sent : Sent[k] \in T!Written' /\
              \A i \in T!Written' : tool.script[i].pipe = tool.script[Sent[k]].pipe =>
                (i < Sent[k] <=> Before(i, Sent, k))
        BY <3>5, <4>2, <4>3
      <4> QED BY <2>2, <3>2, <4>4 DEF SentInOrder, Before, T!SamePipe
    <3>8. ASSUME NEW p \in T!Pipes PROVE PipeInOrder(p, Sent)' /\ ReaderEnded(p, Sent)'
      <4>1. PipeInOrder(p, Sent) /\ ReaderEnded(p, Sent) /\ SentInOrder(Sent)
        BY DEF ToolInv
      <4>2. CASE p # q
        <5>1. WrittenTo(p)' = WrittenTo(p) /\ pipe'[p] = pipe[p] /\ reader'[p] = reader[p]
          BY <2>1, <3>3, <3>6, <4>2
        <5> QED BY <2>2, <3>6, <4>1, <5>1 DEF PipeInOrder, ReaderEnded, In, Before
      <4>3. CASE p = q
        <5> DEFINE s == pipe[p]
        <5>1. s \in Seq(Nat) /\ n \in Nat /\ pipe'[p] = Append(s, n)
          BY <1>n, <1>t, <2>1, <3>3, <4>3 DEF ToolTypes
        <5>2. WrittenTo(p)' = WrittenTo(p) \cup {n} /\ reader'[p] /\ reader[p]
              /\ \A i \in WrittenTo(p) : i \in Nat /\ i < n
          BY <2>1, <2>4, <3>5, <3>6, <4>3
        <5>3. \A i : In(i, Sent) => i < n
          BY <3>5, <4>1 DEF In, SentInOrder
        <5>4. /\ \A m \in DOMAIN s : s[m] \in WrittenTo(p) /\
                   \A i \in WrittenTo(p) : i < s[m] <=> In(i, Sent) \/ Before(i, s, m)
              /\ \A i \in WrittenTo(p) : In(i, Sent) \/ In(i, s)
          BY <4>1, <5>2 DEF PipeInOrder
        <5> HIDE DEF s, n, q
        <5>5. /\ \A m \in DOMAIN Append(s, n) : Append(s, n)[m] \in WrittenTo(p) \cup {n} /\
                   \A i \in WrittenTo(p) \cup {n} :
                     i < Append(s, n)[m] <=> In(i, Sent) \/ Before(i, Append(s, n), m)
              /\ \A i \in WrittenTo(p) \cup {n} : In(i, Sent) \/ In(i, Append(s, n))
          BY <5>1, <5>2, <5>3, <5>4, PipeAppended
        <5>6. PipeInOrder(p, Sent)'
          <6>1. /\ \A m \in DOMAIN pipe'[p] : pipe'[p][m] \in WrittenTo(p)' /\
                     \A i \in WrittenTo(p)' :
                       i < pipe'[p][m] <=> In(i, Sent') \/ Before(i, pipe'[p], m)
                /\ \A i \in WrittenTo(p)' : In(i, Sent') \/ In(i, pipe'[p])
            BY <2>2, <5>1, <5>2, <5>5
          <6> QED BY <6>1 DEF PipeInOrder, In, Before
        <5> QED BY <5>2, <5>6 DEF ReaderEnded
      <4> QED BY <4>2, <4>3
    <3>9. result' # "none" => lines' = <<>> /\ \A p \in T!Pipes : ~reader'[p]
      BY <2>1 DEF ToolInv
    <3> QED BY <2>2, <3>4, <3>7, <3>8, <3>9 DEF ToolInv
  <2> QED BY <2>3, <2>4
<1>2. CASE T!Exit
  <2>1. PICK at \in {"ok", "failed"} : tool' = [tool EXCEPT !.state = at]
    BY <1>2 DEF T!Exit
  <2>2. UNCHANGED <<pipe, reader, lines, reported, tail, result>>
    BY <1>2 DEF T!Exit
  <2>3. tool' \in [state : {"running", "ok", "failed"}, script : Scripts, next : Nat \ {0}]
        /\ tool'.next = tool.next /\ tool'.script = tool.script
    BY <1>t, <2>1 DEF ToolTypes
  <2>4. ToolTypes'
    BY <1>t, <2>2, <2>3 DEF ToolTypes
  <2>5. Sent' = Sent /\ (LastReported' <=> LastReported)
    BY <2>2 DEF Sent, Both, LastReported
  <2> QED BY <2>2, <2>3, <2>4, <2>5, LinesStay DEF ToolInv
<1>3. ASSUME NEW p \in T!Pipes, T!Read(p) PROVE ToolInv'
  <2>1. /\ reader[p] /\ UNCHANGED <<tool, reported, tail, result>>
        /\ T!Written' = T!Written /\ (LastReported' <=> LastReported) /\ result' = "none"
    BY <1>3 DEF T!Read, T!Written, LastReported, ToolInv
  <2>2. /\ PipeInOrder(p, Sent) /\ SentInOrder(Sent)
        /\ \A q \in T!Pipes : PipeInOrder(q, Sent) /\ ReaderEnded(q, Sent)
    BY DEF ToolInv
  <2>3. /\ pipe[p] \in Seq(Nat) /\ WrittenTo(p)' = WrittenTo(p)
        /\ reported \in Seq(Nat) /\ lines \in Seq(Nat)
    BY <1>t, <2>1 DEF ToolTypes, WrittenTo
  <2>4. CASE pipe[p] = <<>>
    <3>1. pipe' = pipe /\ lines' = lines /\ reader' = [reader EXCEPT ![p] = FALSE]
      BY <1>3, <2>4 DEF T!Read
    <3>2. ToolTypes'
      BY <1>t, <2>1, <3>1 DEF ToolTypes
    <3>3. Sent' = Sent
      BY <2>1, <3>1 DEF Sent
    <3>4. \A i \in WrittenTo(p) : In(i, Sent)
      BY <2>1, <2>2, <2>4 DEF PipeInOrder, In
    <3>5. PipeInOrder(p, Sent)' /\ ReaderEnded(p, Sent)'
      <4>1. ~reader'[p] /\ DOMAIN pipe'[p] = {} /\ pipe'[p] = <<>>
        BY <1>t, <2>4, <3>1 DEF ToolTypes
      <4>2. \A i \in WrittenTo(p)' : In(i, Sent')
        BY <2>3, <3>3, <3>4
      <4> QED BY <4>1, <4>2 DEF PipeInOrder, ReaderEnded, In
    <3>6. ASSUME NEW q \in T!Pipes, q # p PROVE PipeInOrder(q, Sent)' /\ ReaderEnded(q, Sent)'
      <4>1. pipe'[q] = pipe[q] /\ reader'[q] = reader[q]
        BY <1>t, <3>1, <3>6 DEF ToolTypes
      <4> QED BY <2>1, <2>2, <3>3, <4>1, PipeStays
    <3>7. SentInOrder(Sent)'
      BY <2>1, <2>2, <3>3 DEF SentInOrder, Before, T!SamePipe
    <3> QED BY <2>1, <2>2, <3>2, <3>5, <3>6, <3>7 DEF ToolInv
  <2>5. CASE pipe[p] # <<>> /\ ~tool.script[Head(pipe[p])].good
    <3> DEFINE h == Head(pipe[p])
    <3>1. pipe' = [pipe EXCEPT ![p] = <<>>] /\ lines' = lines /\ reader' = [reader EXCEPT ![p] = FALSE]
      BY <1>3, <2>5 DEF T!Read
    <3>2. ToolTypes'
      BY <1>t, <2>1, <3>1 DEF ToolTypes
    <3>3. Sent' = Sent
      BY <2>1, <3>1 DEF Sent
    <3>4. ASSUME NEW i \in WrittenTo(p), AllText(i) PROVE In(i, Sent)
      <4>1. pipe[p][1] = h /\ 1 \in DOMAIN pipe[p] /\ ~Before(i, pipe[p], 1)
        BY <2>3, <2>5, InTail
      <4>2. h \in WrittenTo(p) /\ (i < h <=> In(i, Sent))
        BY <2>2, <4>1 DEF PipeInOrder
      <4>3. h \in Nat \ {0} /\ i \in Nat /\ T!SamePipe(h, i)
        BY <1>n, <4>2 DEF WrittenTo, T!SamePipe
      <4>4. h \notin 1..i
        BY <2>5, <3>4, <4>3 DEF AllText
      <4> QED BY <4>2, <4>3, <4>4
    <3>5. PipeInOrder(p, Sent)' /\ ReaderEnded(p, Sent)'
      <4>1. ~reader'[p] /\ DOMAIN pipe'[p] = {} /\ pipe'[p] = <<>>
        BY <1>t, <3>1 DEF ToolTypes
      <4>2. \A i \in WrittenTo(p)' : AllText(i)' => In(i, Sent')
        BY <2>1, <2>3, <3>3, <3>4 DEF AllText, T!SamePipe
      <4> QED BY <4>1, <4>2 DEF PipeInOrder, ReaderEnded, In
    <3>6. ASSUME NEW q \in T!Pipes, q # p PROVE PipeInOrder(q, Sent)' /\ ReaderEnded(q, Sent)'
      <4>1. pipe'[q] = pipe[q] /\ reader'[q] = reader[q]
        BY <1>t, <3>1, <3>6 DEF ToolTypes
      <4> QED BY <2>1, <2>2, <3>3, <4>1, PipeStays
    <3>7. SentInOrder(Sent)'
      BY <2>1, <2>2, <3>3 DEF SentInOrder, Before, T!SamePipe
    <3> QED BY <2>1, <2>2, <3>2, <3>5, <3>6, <3>7 DEF ToolInv
  <2>6. CASE pipe[p] # <<>> /\ tool.script[Head(pipe[p])].good
    <3> DEFINE h == Head(pipe[p])
               s == pipe[p]
               n == Len(reported) + Len(lines)
    <3>1. pipe' = [pipe EXCEPT ![p] = Tail(s)] /\ lines' = Append(lines, h) /\ reader' = reader
      BY <1>3, <2>6 DEF T!Read
    <3>2. /\ s[1] = h /\ h \in Nat /\ 1 \in DOMAIN s /\ Tail(s) \in Seq(Nat)
          /\ \A m \in DOMAIN Tail(s) : m + 1 \in DOMAIN s /\ Tail(s)[m] = s[m + 1]
          /\ \A i : In(i, s) <=> In(i, Tail(s)) \/ i = h
          /\ \A i : ~Before(i, s, 1)
          /\ \A i : \A m \in DOMAIN Tail(s) :
               Before(i, s, m + 1) <=> Before(i, Tail(s), m) \/ i = h
      BY <2>3, <2>6, InTail
    <3>3. ToolTypes'
      <4>1. lines' \in Seq(Nat) /\ pipe' \in [T!Pipes -> Seq(Nat)]
        BY <1>t, <3>1, <3>2 DEF ToolTypes
      <4> QED BY <1>t, <2>1, <3>1, <4>1 DEF ToolTypes
    <3>4. /\ n \in Nat /\ DOMAIN Sent = 1..n /\ DOMAIN Sent' = 1..(n + 1)
          /\ Sent'[n + 1] = h /\ \A k \in 1..n : Sent'[k] = Sent[k]
      <4>1. Sent' = Both(reported, Append(lines, h)) /\ Sent = Both(reported, lines)
        BY <2>1, <3>1 DEF Sent
      <4>2. h \in Nat /\ n = Len(reported) + Len(lines)
        BY <3>2
      <4> HIDE DEF h, n
      <4> DEFINE b == Both(reported, Append(lines, h))
      <4>3. /\ n \in Nat /\ DOMAIN Both(reported, lines) = 1..n /\ DOMAIN b = 1..(n + 1)
            /\ b[n + 1] = h /\ \A k \in 1..n : b[k] = Both(reported, lines)[k]
        <5>1. reported \in Seq(Nat) /\ lines \in Seq(Nat)
          BY <2>3
        <5>2. /\ Len(reported) + Len(lines) \in Nat
              /\ DOMAIN Both(reported, lines) = 1..(Len(reported) + Len(lines))
              /\ DOMAIN b = 1..(Len(reported) + Len(lines) + 1)
              /\ b[Len(reported) + Len(lines) + 1] = h
              /\ \A k \in 1..(Len(reported) + Len(lines)) : b[k] = Both(reported, lines)[k]
          BY <4>2, <5>1, PutOne
        <5> HIDE DEF b
        <5> QED BY <4>2, <5>2
      <4> QED BY <4>1, <4>3
    <3>5. h \in WrittenTo(p) /\ \A i \in WrittenTo(p) : i < h <=> In(i, Sent)
      BY <2>2, <3>2 DEF PipeInOrder
    <3> HIDE DEF h, n, s
    <3>6. /\ \A i : In(i, Sent') <=> In(i, Sent) \/ i = h
          /\ \A i : \A k \in 1..n : Before(i, Sent', k) <=> Before(i, Sent, k)
          /\ \A i : Before(i, Sent', n + 1) <=> In(i, Sent)
      BY <3>4 DEF In, Before
    <3>7. SentInOrder(Sent)'
      <4>1. \A i \in T!Written : tool.script[i].pipe = tool.script[h].pipe => i \in WrittenTo(p)
        BY <3>5 DEF WrittenTo
      <4>2. \A k \in 1..n : Sent[k] \in T!Written /\
              \A i \in T!Written : tool.script[i].pipe = tool.script[Sent[k]].pipe =>
                (i < Sent[k] <=> Before(i, Sent, k))
        BY <2>2, <3>4 DEF SentInOrder, T!SamePipe
      <4>3. h \in T!Written
        BY <3>5 DEF WrittenTo
      <4>4. \A k \in 1..(n + 1) : Sent'[k] \in T!Written /\
              \A i \in T!Written : tool.script[i].pipe = tool.script[Sent'[k]].pipe =>
                (i < Sent'[k] <=> Before(i, Sent', k))
        <5>1. \A k \in 1..(n + 1) : k \in 1..n \/ k = n + 1
          BY <3>4
        <5> QED BY <3>4, <3>5, <3>6, <4>1, <4>2, <4>3, <5>1
      <4> QED BY <2>1, <3>4, <4>4 DEF SentInOrder, Before, T!SamePipe
    <3>8. PipeInOrder(p, Sent)' /\ ReaderEnded(p, Sent)'
      <4>1. pipe'[p] = Tail(s) /\ reader'[p]
        BY <1>t, <2>1, <3>1 DEF ToolTypes
      <4>2. /\ \A m \in DOMAIN s : s[m] \in WrittenTo(p) /\
                 \A i \in WrittenTo(p) : i < s[m] <=> In(i, Sent) \/ Before(i, s, m)
            /\ \A i \in WrittenTo(p) : In(i, Sent) \/ In(i, s)
        BY <2>1, <2>2 DEF PipeInOrder, s
      <4>3. /\ \A m \in DOMAIN Tail(s) : Tail(s)[m] \in WrittenTo(p) /\
                 \A i \in WrittenTo(p) : i < Tail(s)[m] <=> In(i, Sent') \/ Before(i, Tail(s), m)
            /\ \A i \in WrittenTo(p) : In(i, Sent') \/ In(i, Tail(s))
        BY <3>2, <3>6, <4>2
      <4>4. /\ \A m \in DOMAIN pipe'[p] : pipe'[p][m] \in WrittenTo(p)' /\
                 \A i \in WrittenTo(p)' :
                   i < pipe'[p][m] <=> In(i, Sent') \/ Before(i, pipe'[p], m)
            /\ \A i \in WrittenTo(p)' : In(i, Sent') \/ In(i, pipe'[p])
        BY <2>3, <4>1, <4>3
      <4>5. PipeInOrder(p, Sent)'
        BY <4>4 DEF PipeInOrder, In, Before
      <4> QED BY <4>1, <4>5 DEF ReaderEnded
    <3>9. ASSUME NEW q \in T!Pipes, q # p PROVE PipeInOrder(q, Sent)' /\ ReaderEnded(q, Sent)'
      <4>1. pipe'[q] = pipe[q] /\ reader'[q] = reader[q]
        BY <1>t, <3>1, <3>9 DEF ToolTypes
      <4>2. h \notin WrittenTo(q)
        BY <3>5, <3>9 DEF WrittenTo
      <4>3. \A i \in WrittenTo(q) : In(i, Sent') <=> In(i, Sent)
        BY <3>6, <4>2
      <4> QED BY <2>1, <2>2, <4>1, <4>3, PipeStays
    <3> QED BY <2>1, <2>2, <3>3, <3>7, <3>8, <3>9 DEF ToolInv
  <2> QED BY <2>4, <2>5, <2>6
<1>4. CASE T!Receive
  <2>1. /\ lines # <<>> /\ lines' = Tail(lines) /\ reported' = Append(reported, Head(lines))
        /\ tail' = T!Kept(Head(lines)) /\ result = "none" /\ UNCHANGED <<tool, pipe, reader, result>>
    BY <1>4 DEF T!Receive
  <2>2. reported \in Seq(Nat) /\ lines \in Seq(Nat)
    BY <1>t DEF ToolTypes
  <2>3. /\ Head(lines) \in Nat /\ lines' \in Seq(Nat) /\ reported' \in Seq(Nat)
        /\ Sent' = Sent
    BY <2>1, <2>2, TakeOne DEF Sent
  <2>4. ToolTypes'
    BY <1>t, <2>1, <2>3 DEF ToolTypes
  <2>5. LastReported'
    <3>1. tail = LastOf(reported, TailSize)
      BY DEF ToolInv, LastReported, LastOf
    <3>2. tail' = LastOf(Append(reported, Head(lines)), TailSize)
      BY <2>1, <2>2, <2>3, <3>1, KeptLast, ToolAssumption DEF T!Kept
    <3> QED BY <2>1, <3>2 DEF LastReported, LastOf
  <2> QED BY <2>1, <2>3, <2>4, <2>5, LinesStay DEF ToolInv
<1>5. CASE T!Wait
  <2>1. /\ lines = <<>> /\ \A p \in T!Pipes : ~reader[p]
        /\ UNCHANGED <<tool, pipe, reader, lines, reported, tail>>
    BY <1>5 DEF T!Wait
  <2>2. ToolTypes' /\ Sent' = Sent /\ (LastReported' <=> LastReported)
    BY <1>t, <2>1 DEF ToolTypes, Sent, LastReported
  <2> QED BY <2>1, <2>2, LinesStay DEF ToolInv
<1>6. CASE UNCHANGED toolVars
  <2>1. UNCHANGED <<tool, pipe, reader, lines, reported, tail, result>>
    BY <1>6 DEF toolVars
  <2>2. ToolTypes' /\ Sent' = Sent /\ (LastReported' <=> LastReported)
    BY <1>t, <2>1 DEF ToolTypes, Sent, LastReported
  <2> QED BY <2>1, <2>2, LinesStay DEF ToolInv
<1> QED BY <1>1, <1>2, <1>3, <1>4, <1>5, <1>6 DEF T!Next

LEMMA ToolReported == ASSUME ToolInv PROVE T!LinesReported
<1>1. ToolTypes /\ SentInOrder(Sent) /\ LastReported
  BY DEF ToolInv
<1>2. /\ reported \in Seq(Nat) /\ lines \in Seq(Nat) /\ DOMAIN reported = 1..Len(reported)
      /\ Len(reported) \in Nat /\ Len(lines) \in Nat
  BY <1>1 DEF ToolTypes
<1>3. /\ DOMAIN Sent = 1..(Len(reported) + Len(lines))
      /\ \A k \in DOMAIN reported : k \in DOMAIN Sent /\ Sent[k] = reported[k]
  BY <1>2 DEF Sent, Both
<1>4. ASSUME NEW k \in DOMAIN reported
      PROVE  reported[k] \in T!Written /\
               \A i \in T!Written : T!SamePipe(i, reported[k]) =>
                 (i < reported[k] <=> \E j \in 1..(k - 1) : reported[j] = i)
  <2>1. \A i : Before(i, Sent, k) <=> \E j \in 1..(k - 1) : reported[j] = i
    <3>0. k \in 1..Len(reported) /\ k \in Nat
      BY <1>2
    <3>1. \A j : j \in DOMAIN Sent /\ j < k <=> j \in 1..(k - 1)
      <4>1. \A j \in DOMAIN Sent : j \in Int /\ j >= 1
        BY <1>2, <1>3
      <4>2. \A j \in 1..(k - 1) : j \in DOMAIN Sent /\ j < k
        BY <1>2, <1>3, <3>0
      <4> QED BY <3>0, <4>1, <4>2
    <3>2. \A j \in 1..(k - 1) : Sent[j] = reported[j]
      <4>1. \A j \in 1..(k - 1) : j \in DOMAIN reported
        BY <1>2, <3>0
      <4> QED BY <1>3, <4>1
    <3> QED BY <3>1, <3>2 DEF Before
  <2> QED BY <1>1, <1>3, <2>1 DEF SentInOrder
<1>5. ASSUME result # "none", NEW i \in DOMAIN tool.script, i \in T!Written,
             \A k \in 1..i : T!SamePipe(k, i) => tool.script[k].good
      PROVE  \E k \in DOMAIN reported : reported[k] = i
  <2> DEFINE p == tool.script[i].pipe
  <2>1. p \in T!Pipes
    <3> DEFINE OneLine == [pipe : T!Pipes, good : BOOLEAN]
    <3>1. tool.script \in Seq(OneLine)
      BY <1>1 DEF ToolTypes
    <3> HIDE DEF OneLine
    <3>2. tool.script[i] \in OneLine
      BY <1>5, <3>1
    <3> QED BY <3>2 DEF OneLine
  <2>2. ~reader[p] /\ lines = <<>> /\ ReaderEnded(p, Sent)
    BY <1>5, <2>1 DEF ToolInv
  <2>3. i \in WrittenTo(p) /\ AllText(i)
    BY <1>5 DEF WrittenTo, AllText
  <2>4. In(i, Sent)
    BY <2>2, <2>3 DEF ReaderEnded
  <2>5. DOMAIN Sent = DOMAIN reported
    BY <1>2, <1>3, <2>2
  <2> QED BY <1>3, <2>4, <2>5 DEF In
<1> QED BY <1>1, <1>4, <1>5 DEF T!LinesReported, LastReported

-----------------------------------------------------------------------------
(* PgRegistry.                                                             *)

CommandAts ==
  {"new", "alter", "save", "write", "unsaved", "reconnect", "refresh", "done", "failed"}
RefreshAts == {"idle", "load", "visit", "sources", "states"}

\* A config that says what it should: one connection of an id, and the bundled one.
ConfigFits(cfg) ==
  /\ cfg \in Seq(Connections)
  /\ \A i, j \in DOMAIN cfg : cfg[i].id = cfg[j].id => i = j
  /\ \E i \in DOMAIN cfg : cfg[i].id = Own
  /\ \A i \in DOMAIN cfg : cfg[i].id = Own => cfg[i].db = Own

Edits == [old : Seq(Connections), new : Seq(Connections)]
CommandRecords ==
  [at : CommandAts, request : Requests, overlapped : BOOLEAN, cfg : {<<>>} \cup Edits]
DatabaseRecords == [tables : SUBSET DOMAIN Slug, pw : Passwords, up : BOOLEAN]

CommandTypes ==
  /\ config = <<>> \/ ConfigFits(config)
  /\ db \in [DOMAIN Databases -> DatabaseRecords]
  /\ command \in [Commands -> CommandRecords]
  /\ \A p \in Commands :
       /\ R!Editing(p) => /\ command[p].request.do \in {"save", "delete"}
                          /\ ConfigFits(command[p].cfg.old) /\ ConfigFits(command[p].cfg.new)
       /\ command[p].at = "alter" => command[p].request.do = "save"
       /\ command[p].at = "new" => ~command[p].overlapped

RefreshFields == {"at", "todo", "naming", "existing", "pools", "sources", "states", "clean"}
IsRefresh(x) == x = [f \in RefreshFields |-> x[f]]

RefreshTypes ==
  /\ refresh = [r \in R!Refreshers |-> refresh[r]]
  /\ \A r \in R!Refreshers :
       /\ IsRefresh(refresh[r]) /\ refresh[r].clean \in BOOLEAN
       /\ refresh[r].at \in RefreshAts /\ refresh[r].todo \in Seq(Connections)
       /\ r \in Commands /\ refresh[r].at # "idle" => command[r].at = "refresh"
  /\ current \in BOOLEAN

\* What is found of the connections seen, in databases that are as base says, when
\* naming has yet to be named.
TablesIn(base, c) == {[conn |-> c.id, db |-> c.db, table |-> t] : t \in base[c.db].tables}
OpensIn(base, c) == base[c.db].up /\ base[c.db].pw = c.pw

Finds(seen, base, naming, ps, ss, st) ==
  LET found == {ss[id] : id \in DOMAIN ss} \cup naming
  IN /\ DOMAIN st = {c.id : c \in seen}
     /\ \A c \in seen : OpensIn(base, c) => TablesIn(base, c) \subseteq found /\ st[c.id]
     /\ \A s \in found : \E c \in seen : s \in TablesIn(base, c) /\ base[c.db].up
     /\ \A s \in found : s.conn \in DOMAIN ps /\ ps[s.conn].db = s.db
     /\ IsFiniteSet(DOMAIN ss) /\ DOMAIN ss \cap R!FileStems = {}
     /\ \A i, j \in DOMAIN ss : ss[i] = ss[j] => i = j
     /\ \A i \in DOMAIN ss : ss[i] \notin naming

Seen(cfg, k) == {cfg[i] : i \in {j \in 1..k : cfg[j].enabled}}

\* todo is what follows the first k of cfg.
Follows(todo, cfg, k) ==
  /\ k \in 0..Len(cfg) /\ Len(todo) = Len(cfg) - k
  /\ \A i \in 1..Len(todo) : todo[i] = cfg[k + i]

\* How far a refresh is that nothing has overlapped.
VisitsRight(x, base, cfg) ==
  \E k \in Nat :
    /\ Follows(x.todo, cfg, k)
    /\ Finds(Seen(cfg, k), base, x.naming, x.pools, x.sources, x.states)

PublishesRight(x, base, cfg) ==
  Finds(Seen(cfg, Len(cfg)), base, {}, x.pools, x.sources, x.states)

RightFor(r) ==
  refresh[r].clean =>
    /\ refresh[r].at = "visit" => VisitsRight(refresh[r], db, R!Loaded)
    /\ refresh[r].at \in {"sources", "states"} =>
         PublishesRight(refresh[r], db, R!Loaded) /\ pools = refresh[r].pools
    /\ refresh[r].at = "states" => sources = refresh[r].sources

RefreshInv ==
  /\ \A r \in R!Refreshers : RightFor(r)
  /\ current => Finds(Seen(R!Loaded, Len(R!Loaded)), db, {}, pools, sources, states)

\* While no two commands have edited at once, and none has failed to save: the
\* config says what was saved, and what is about to be saved does.
EditsAlone == \A p \in Commands : ~command[p].overlapped /\ command[p].at # "unsaved"

HasPassword(cfg, base) == \A i \in DOMAIN cfg : cfg[i].id = Own => cfg[i].pw = base[Own].pw
Has(cfg, id) == \E i \in DOMAIN cfg : cfg[i].id = id
IsDeleted(id, all) ==
  \E p \in Commands : all[p].request.do = "delete" /\ all[p].request.id = id
HasSaved == {"reconnect", "refresh", "done"}
KeepsEdits(cfg, all) ==
  /\ \A i \in DOMAIN InitialConfig :
       Has(cfg, InitialConfig[i].id) \/ IsDeleted(InitialConfig[i].id, all)
  /\ \A p \in Commands : all[p].at \in HasSaved /\ all[p].request.do = "save" =>
       Has(cfg, all[p].request.conn.id) \/ IsDeleted(all[p].request.conn.id, all)

ConfigRight == config # <<>> /\ HasPassword(config, db) /\ KeepsEdits(config, command)
EditRight(p) ==
  LET cfg == command[p].cfg
      request == command[p].request
  IN /\ KeepsEdits(cfg.new, command)
     /\ request.do = "save" => Has(cfg.new, request.conn.id)
     /\ command[p].at \in {"save", "write"} => HasPassword(cfg.new, db)
     /\ command[p].at = "alter" =>
          /\ ConfigRight
          /\ \A i \in DOMAIN cfg.new : cfg.new[i].id = Own => cfg.new[i].pw = request.conn.pw

EditInv ==
  EditsAlone =>
    /\ \A p, q \in Commands : R!Editing(p) /\ R!Editing(q) => p = q
    /\ (\A p \in Commands : ~R!Editing(p)) => ConfigRight
    /\ \A p \in Commands : R!Editing(p) => EditRight(p)

RegistryInv == CommandTypes /\ RefreshTypes /\ RefreshInv /\ EditInv

LEMMA RegistryConstants ==
  /\ "thread" \notin Commands /\ IsFiniteSet(DOMAIN Slug) /\ IsFiniteSet(MapSlugs)
  /\ Own \in DOMAIN Databases
  /\ Databases \in
       [DOMAIN Databases -> [tables : SUBSET DOMAIN Slug, pw : Passwords, up : BOOLEAN]]
  /\ Default \in Connections /\ Default.id = Own /\ Default.db = Own
  /\ Asking \subseteq [Commands -> Requests]
  BY RegistryAssumption

LEMMA InitialFits ==
  /\ ConfigFits(InitialConfig) /\ InitialConfig # <<>>
  /\ HasPassword(InitialConfig, Databases)
<1>1. InitialConfig \in Seq(Connections)
  BY RegistryAssumption
<1>2. PICK k \in DOMAIN InitialConfig : InitialConfig[k].id = Own
  BY RegistryAssumption DEF R!Find
<1>3. \A i \in DOMAIN InitialConfig : InitialConfig[i].id = Own =>
        InitialConfig[i].db = Own /\ InitialConfig[i].pw = Databases[Own].pw
  BY RegistryAssumption DEF R!Find
<1>4. InitialConfig # <<>>
  BY <1>1, <1>2
<1>5. \A i, j \in DOMAIN InitialConfig : InitialConfig[i].id = InitialConfig[j].id => i = j
  BY RegistryAssumption
<1> QED BY <1>1, <1>2, <1>3, <1>4, <1>5 DEF ConfigFits, HasPassword

LEMMA DefaultFits == ConfigFits(<<Default>>)
<1>1. Default \in Connections /\ Default.id = Own /\ Default.db = Own
  BY RegistryConstants
<1>2. <<Default>> \in Seq(Connections) /\ DOMAIN <<Default>> = {1} /\ <<Default>>[1] = Default
  BY <1>1
<1> QED BY <1>1, <1>2 DEF ConfigFits

LEMMA LoadedFits ==
  ASSUME CommandTypes
  PROVE  ConfigFits(R!Loaded) /\ R!Loaded # <<>>
<1>1. <<Default>> # <<>>
  OBVIOUS
<1> QED BY <1>1, DefaultFits DEF CommandTypes, R!Loaded, R!Torn

LEMMA FileStemsFinite == IsFiniteSet(R!FileStems)
<1> DEFINE f == [s \in MapSlugs |-> <<s, 1>>]
<1>1. f \in Surjection(MapSlugs, R!FileStems)
  BY DEF Surjection, R!FileStems
<1> QED BY <1>1, RegistryConstants, FS_Surjection

\* A slug that is made unique is the id of nothing else.
LEMMA SlugIsFree ==
  ASSUME NEW base, NEW used, IsFiniteSet(used)
  PROVE  R!UniqueSlug(base, used) \notin used
<1> DEFINE c == Cardinality(used)
           f == [i \in 1..(c + 1) |-> <<base, i>>]
           free == {i \in 1..(c + 1) : <<base, i>> \notin used}
<1>1. c \in Nat
  BY FS_CardinalityType
<1>2. DOMAIN f = 1..(c + 1) /\ \A m, n \in DOMAIN f : f[m] = f[n] => m = n
  OBVIOUS
<1>3. \E n \in DOMAIN f : f[n] \notin used
  <2> HIDE DEF f
  <2> QED BY <1>2, OneIsFree
<1>4. free \in SUBSET Nat /\ free # {}
  BY <1>1, <1>3
<1>5. (CHOOSE i \in free : \A k \in free : i <= k) \in free
  <2> HIDE DEF free
  <2> QED BY <1>4, LeastNumber
<1>6. R!UniqueSlug(base, used) = <<base, CHOOSE i \in free : \A k \in free : i <= k>>
  BY DEF R!UniqueSlug, R!Cardinality, Cardinality
<1> HIDE DEF free
<1>7. PICK i \in free : R!UniqueSlug(base, used) = <<base, i>>
  BY <1>5, <1>6
<1> QED BY <1>7 DEF free

LEMMA FindsNothing ==
  ASSUME NEW base
  PROVE  Finds({}, base, {}, R!Nothing, R!Nothing, R!Nothing)
<1>1. DOMAIN R!Nothing = {}
  BY DEF R!Nothing
<1>2. IsFiniteSet(DOMAIN R!Nothing)
  BY <1>1, FS_EmptySet
<1> QED BY <1>1, <1>2 DEF Finds

LEMMA VisitFinds ==
  ASSUME NEW seen, NEW base, NEW ps, NEW ss, NEW st, Finds(seen, base, {}, ps, ss, st),
         NEW c, \A d \in seen : d.id # c.id,
         NEW found \in BOOLEAN, NEW connected \in BOOLEAN,
         OpensIn(base, c) => found, found => connected /\ base[c.db].up
  PROVE  Finds(seen \cup {c}, base, IF found THEN TablesIn(base, c) ELSE {},
               IF connected THEN R!With(ps, c.id, [db |-> c.db, pw |-> c.pw]) ELSE ps,
               ss, R!With(st, c.id, found))
<1> DEFINE naming == IF found THEN TablesIn(base, c) ELSE {}
           ps2 == IF connected THEN R!With(ps, c.id, [db |-> c.db, pw |-> c.pw]) ELSE ps
           st2 == R!With(st, c.id, found)
           old == {ss[id] : id \in DOMAIN ss}
<1>1. /\ DOMAIN st = {d.id : d \in seen}
      /\ \A d \in seen : OpensIn(base, d) => TablesIn(base, d) \subseteq old /\ st[d.id]
      /\ \A s \in old : \E d \in seen : s \in TablesIn(base, d) /\ base[d.db].up
      /\ \A s \in old : s.conn \in DOMAIN ps /\ ps[s.conn].db = s.db
      /\ IsFiniteSet(DOMAIN ss) /\ DOMAIN ss \cap R!FileStems = {}
      /\ \A i, j \in DOMAIN ss : ss[i] = ss[j] => i = j
  BY DEF Finds
<1>2. /\ DOMAIN st2 = DOMAIN st \cup {c.id} /\ st2[c.id] = found
      /\ \A x \in DOMAIN st : x # c.id => st2[x] = st[x]
  BY DEF R!With
<1>3. /\ \A x \in DOMAIN ps : x \in DOMAIN ps2 /\ (x # c.id => ps2[x] = ps[x])
      /\ connected => c.id \in DOMAIN ps2 /\ ps2[c.id].db = c.db
  <2>1. CASE connected
    <3>1. /\ DOMAIN ps2 = DOMAIN ps \cup {c.id} /\ ps2[c.id] = [db |-> c.db, pw |-> c.pw]
          /\ \A x \in DOMAIN ps : x # c.id => ps2[x] = ps[x]
      BY <2>1 DEF R!With
    <3> QED BY <3>1
  <2>2. CASE ~connected
    BY <2>2
  <2> QED BY <2>1, <2>2
<1>4. \A d, s : s \in TablesIn(base, d) => s.conn = d.id /\ s.db = d.db
  BY DEF TablesIn
<1>5. \A s \in naming : s.conn = c.id /\ s.db = c.db /\ s \in TablesIn(base, c) /\ found
  BY <1>4
<1>6. \A s \in old : s.conn # c.id
  <2> TAKE s \in old
  <2>1. PICK d \in seen : s \in TablesIn(base, d)
    BY <1>1
  <2> QED BY <1>4, <2>1
<1>7. OpensIn(base, c) => TablesIn(base, c) = naming
  OBVIOUS
<1> HIDE DEF naming, ps2, st2
<1>8. DOMAIN st2 = {d.id : d \in seen \cup {c}}
  BY <1>1, <1>2
<1>9. \A d \in seen \cup {c} : OpensIn(base, d) => TablesIn(base, d) \subseteq old \cup naming /\ st2[d.id]
  <2>1. ASSUME NEW d \in seen, OpensIn(base, d)
        PROVE  TablesIn(base, d) \subseteq old \cup naming /\ st2[d.id]
    <3>1. d.id \in DOMAIN st /\ d.id # c.id
      BY <1>1, <2>1
    <3>2. TablesIn(base, d) \subseteq old /\ st[d.id]
      BY <1>1, <2>1
    <3> QED BY <1>2, <3>1, <3>2
  <2>2. OpensIn(base, c) => TablesIn(base, c) \subseteq old \cup naming /\ st2[c.id]
    BY <1>2, <1>7
  <2> QED BY <2>1, <2>2
<1>10. \A s \in old \cup naming : \E d \in seen \cup {c} : s \in TablesIn(base, d) /\ base[d.db].up
  <2>1. ASSUME NEW s \in old
        PROVE  \E d \in seen \cup {c} : s \in TablesIn(base, d) /\ base[d.db].up
    BY <1>1, <2>1
  <2>2. \A s \in naming : s \in TablesIn(base, c) /\ base[c.db].up
    BY <1>5
  <2> QED BY <2>1, <2>2
<1>11. \A s \in old \cup naming : s.conn \in DOMAIN ps2 /\ ps2[s.conn].db = s.db
  <2>1. \A s \in old : s.conn \in DOMAIN ps2 /\ ps2[s.conn].db = s.db
    BY <1>1, <1>3, <1>6
  <2>2. \A s \in naming : s.conn \in DOMAIN ps2 /\ ps2[s.conn].db = s.db
    BY <1>3, <1>5
  <2> QED BY <2>1, <2>2
<1>12. \A i \in DOMAIN ss : ss[i] \notin naming
  BY <1>5, <1>6
<1>13. Finds(seen \cup {c}, base, naming, ps2, ss, st2)
  BY <1>1, <1>8, <1>9, <1>10, <1>11, <1>12 DEF Finds
<1> QED BY <1>13 DEF naming, ps2, st2

LEMMA NameFinds ==
  ASSUME NEW seen, NEW base, NEW naming, NEW ps, NEW ss, NEW st,
         Finds(seen, base, naming, ps, ss, st),
         NEW s \in naming, NEW id, id \notin DOMAIN ss, id \notin R!FileStems
  PROVE  Finds(seen, base, naming \ {s}, ps, R!With(ss, id, s), st)
<1> DEFINE ss2 == R!With(ss, id, s)
           rest == naming \ {s}
           old == {ss[i] : i \in DOMAIN ss}
           new == {ss2[i] : i \in DOMAIN ss2}
<1>1. /\ DOMAIN st = {c.id : c \in seen}
      /\ \A c \in seen : OpensIn(base, c) => TablesIn(base, c) \subseteq old \cup naming /\ st[c.id]
      /\ \A t \in old \cup naming : \E c \in seen : t \in TablesIn(base, c) /\ base[c.db].up
      /\ \A t \in old \cup naming : t.conn \in DOMAIN ps /\ ps[t.conn].db = t.db
      /\ IsFiniteSet(DOMAIN ss) /\ DOMAIN ss \cap R!FileStems = {}
      /\ \A i, j \in DOMAIN ss : ss[i] = ss[j] => i = j
      /\ \A i \in DOMAIN ss : ss[i] \notin naming
  BY DEF Finds
<1>2. /\ DOMAIN ss2 = DOMAIN ss \cup {id} /\ ss2[id] = s
      /\ \A i \in DOMAIN ss : i # id => ss2[i] = ss[i]
  BY DEF R!With
<1>3. \A i \in DOMAIN ss : ss2[i] = ss[i]
  BY <1>2
<1> HIDE DEF ss2
<1>4. new = old \cup {s}
  BY <1>2, <1>3
<1>5. new \cup rest = old \cup naming
  BY <1>4
<1>6. IsFiniteSet(DOMAIN ss2) /\ DOMAIN ss2 \cap R!FileStems = {}
  <2>1. IsFiniteSet(DOMAIN ss \cup {id})
    BY <1>1, FS_AddElement
  <2> QED BY <1>1, <1>2, <2>1
<1>7. \A i, j \in DOMAIN ss2 : ss2[i] = ss2[j] => i = j
  <2>1. \A i \in DOMAIN ss : ss[i] # s
    BY <1>1
  <2> QED BY <1>1, <1>2, <1>3, <2>1
<1>8. \A i \in DOMAIN ss2 : ss2[i] \notin rest
  BY <1>1, <1>2, <1>3
<1>9. Finds(seen, base, rest, ps, ss2, st)
  <2> HIDE DEF rest, old
  <2> QED BY <1>1, <1>5, <1>6, <1>7, <1>8 DEF Finds
<1> QED BY <1>9 DEF ss2

\* What is found of all connections is all there is.
LEMMA FindsAll ==
  ASSUME Finds(Seen(R!Loaded, Len(R!Loaded)), db, {}, pools, sources, states),
         R!Loaded \in Seq(Connections)
  PROVE  R!Shows
<1> DEFINE seen == Seen(R!Loaded, Len(R!Loaded))
           found == {sources[id] : id \in DOMAIN sources}
           f == [id \in DOMAIN sources |-> sources[id]]
<1>1. R!Active = seen
  <2>1. DOMAIN R!Loaded = 1..Len(R!Loaded)
    OBVIOUS
  <2>2. R!Active = {R!Loaded[i] : i \in {k \in DOMAIN R!Loaded : R!Loaded[k].enabled}}
    BY DEF R!Active, R!Enabled
  <2> QED BY <2>1, <2>2 DEF Seen
<1>2. \A c : R!TablesOf(c) = TablesIn(db, c) /\ (R!Opens(c) <=> OpensIn(db, c))
  BY DEF R!TablesOf, TablesIn, R!Opens, OpensIn
<1> HIDE DEF seen
<1>3. /\ DOMAIN states = {c.id : c \in seen}
      /\ \A c \in seen : OpensIn(db, c) => TablesIn(db, c) \subseteq found /\ states[c.id]
      /\ \A s \in found : \E c \in seen : s \in TablesIn(db, c) /\ db[c.db].up
      /\ \A s \in found : s.conn \in DOMAIN pools /\ pools[s.conn].db = s.db
      /\ IsFiniteSet(DOMAIN sources) /\ DOMAIN sources \cap R!FileStems = {}
      /\ \A i, j \in DOMAIN sources : sources[i] = sources[j] => i = j
  <2>1. Finds(seen, db, {}, pools, sources, states)
    BY DEF seen
  <2>2. found \cup {} = found
    OBVIOUS
  <2> HIDE DEF found
  <2> QED BY <2>1, <2>2 DEF Finds, found
<1>4. Cardinality(found) = Cardinality(DOMAIN sources)
  <2>1. f \in Bijection(DOMAIN sources, found)
    <3>1. f \in [DOMAIN sources -> found] /\ \A t \in found : \E id \in DOMAIN sources : f[id] = t
      OBVIOUS
    <3>2. \A i, j \in DOMAIN sources : f[i] = f[j] => i = j
      BY <1>3
    <3> HIDE DEF f, found
    <3> QED BY <3>1, <3>2 DEF Bijection, Injection, Surjection, IsInjective
  <2>2. ExistsBijection(DOMAIN sources, found)
    BY <2>1 DEF ExistsBijection
  <2> HIDE DEF found
  <2> QED BY <1>3, <2>2, FS_Bijection
<1>5. R!Cardinality(found) = R!Cardinality(DOMAIN sources)
  BY <1>4 DEF R!Cardinality, Cardinality
<1>6. \A c \in R!Active : R!Opens(c) => R!TablesOf(c) \subseteq found /\ states[c.id]
  BY <1>1, <1>2, <1>3
<1>7. \A s \in found : \E c \in R!Active : s \in R!TablesOf(c) /\ db[c.db].up
  BY <1>1, <1>2, <1>3
<1> QED BY <1>1, <1>3, <1>5, <1>6, <1>7 DEF R!Shows

LEMMA SavedFits ==
  ASSUME NEW cfg, ConfigFits(cfg), NEW conn \in Connections
  PROVE  LET new == R!Saved(cfg, conn)
         IN /\ ConfigFits(new)
            /\ \A i \in DOMAIN cfg : /\ i \in DOMAIN new /\ new[i].id = cfg[i].id
                                     /\ new[i].pw # cfg[i].pw => cfg[i].id = conn.id /\ new[i].pw = conn.pw
            /\ \A i \in DOMAIN new : i \in DOMAIN cfg \/ new[i].id # Own
            /\ Has(new, conn.id)
<1> DEFINE new == R!Saved(cfg, conn)
           edited == [i \in DOMAIN cfg |->
                        IF cfg[i].id = conn.id THEN R!Edited(cfg[i], conn) ELSE cfg[i]]
<1>1. /\ cfg \in Seq(Connections)
      /\ \A i, j \in DOMAIN cfg : cfg[i].id = cfg[j].id => i = j
      /\ \E i \in DOMAIN cfg : cfg[i].id = Own
      /\ \A i \in DOMAIN cfg : cfg[i].id = Own => cfg[i].db = Own
  BY DEF ConfigFits
<1>2. Len(cfg) \in Nat /\ DOMAIN cfg = 1..Len(cfg) /\ \A i \in DOMAIN cfg : cfg[i] \in Connections
  BY <1>1
<1>3. CASE \A i \in DOMAIN cfg : cfg[i].id # conn.id
  <2>1. new = Append(cfg, conn)
    BY <1>3 DEF R!Saved, R!Find
  <2>2. new \in Seq(Connections) /\ DOMAIN new = 1..(Len(cfg) + 1) /\ new[Len(cfg) + 1] = conn
    BY <1>1, <1>2, <2>1
  <2>3. \A i \in DOMAIN cfg : i \in DOMAIN new /\ new[i] = cfg[i]
    BY <1>1, <1>2, <2>1
  <2> HIDE DEF new
  <2>4. \A i \in DOMAIN new : i \in DOMAIN cfg \/ i = Len(cfg) + 1
    BY <1>2, <2>2
  <2>5. conn.id # Own
    BY <1>1, <1>3
  <2>6. \A i, j \in DOMAIN new : new[i].id = new[j].id => i = j
    BY <1>1, <1>3, <2>2, <2>3, <2>4
  <2>7. ConfigFits(new)
    <3>1. \E i \in DOMAIN new : new[i].id = Own
      BY <1>1, <2>3
    <3>2. \A i \in DOMAIN new : new[i].id = Own => new[i].db = Own
      BY <1>1, <2>2, <2>3, <2>4, <2>5
    <3> QED BY <2>2, <2>6, <3>1, <3>2 DEF ConfigFits
  <2>8. Has(new, conn.id)
    <3>1. Len(cfg) + 1 \in DOMAIN new
      BY <1>2, <2>2
    <3> QED BY <2>2, <3>1 DEF Has
  <2>9. \A i \in DOMAIN new : i \in DOMAIN cfg \/ new[i].id # Own
    BY <2>2, <2>4, <2>5
  <2>10. \A i \in DOMAIN cfg : /\ i \in DOMAIN new /\ new[i].id = cfg[i].id
                               /\ new[i].pw # cfg[i].pw => cfg[i].id = conn.id /\ new[i].pw = conn.pw
    BY <2>3
  <2> QED BY <2>7, <2>8, <2>9, <2>10 DEF new
<1>4. CASE \E i \in DOMAIN cfg : cfg[i].id = conn.id
  <2>1. new = edited
    BY <1>4 DEF R!Saved, R!Find
  <2>2. \A i \in DOMAIN cfg :
          LET e == R!Edited(cfg[i], conn)
          IN /\ e \in Connections /\ e.id = cfg[i].id
             /\ e.pw = cfg[i].pw \/ e.pw = conn.pw
             /\ cfg[i].id = Own => e.db = Own
    BY <1>1, <1>2, RegistryConstants DEF R!Edited, Connections
  <2>3. \A i \in DOMAIN cfg :
          /\ edited[i] \in Connections /\ edited[i].id = cfg[i].id
          /\ cfg[i].id = Own => edited[i].db = Own
          /\ edited[i].pw # cfg[i].pw => cfg[i].id = conn.id /\ edited[i].pw = conn.pw
    BY <1>1, <1>2, <2>2
  <2>4. DOMAIN edited = DOMAIN cfg /\ edited \in Seq(Connections)
    BY <1>2, <2>3
  <2> HIDE DEF edited
  <2>5. ConfigFits(edited)
    BY <1>1, <2>3, <2>4 DEF ConfigFits
  <2>6. Has(edited, conn.id)
    BY <1>4, <2>3, <2>4 DEF Has
  <2>7. ConfigFits(new) /\ Has(new, conn.id) /\ DOMAIN new = DOMAIN cfg
    <3> HIDE DEF new
    <3> QED BY <2>1, <2>4, <2>5, <2>6
  <2>8. \A i \in DOMAIN cfg : /\ i \in DOMAIN new /\ new[i].id = cfg[i].id
                              /\ new[i].pw # cfg[i].pw => cfg[i].id = conn.id /\ new[i].pw = conn.pw
    <3> HIDE DEF new
    <3> QED BY <2>1, <2>3, <2>4
  <2> HIDE DEF new
  <2> QED BY <2>7, <2>8 DEF new
<1> QED BY <1>3, <1>4

LEMMA DeletedFits ==
  ASSUME NEW cfg, ConfigFits(cfg), NEW id, id # Own
  PROVE  LET new == R!Deleted(cfg, id)
         IN /\ ConfigFits(new)
            /\ \A i \in DOMAIN cfg : cfg[i].id # id => \E j \in DOMAIN new : new[j] = cfg[i]
            /\ \A j \in DOMAIN new : \E i \in DOMAIN cfg : new[j] = cfg[i]
<1> DEFINE new == R!Deleted(cfg, id)
<1>1. /\ cfg \in Seq(Connections)
      /\ \A i, j \in DOMAIN cfg : cfg[i].id = cfg[j].id => i = j
      /\ \E i \in DOMAIN cfg : cfg[i].id = Own
      /\ \A i \in DOMAIN cfg : cfg[i].id = Own => cfg[i].db = Own
  BY DEF ConfigFits
<1>2. Len(cfg) \in Nat /\ DOMAIN cfg = 1..Len(cfg) /\ \A i \in DOMAIN cfg : cfg[i] \in Connections
  BY <1>1
<1>3. CASE R!Find(cfg, id) = {}
  <2>1. new = cfg
    BY <1>3 DEF R!Deleted
  <2> HIDE DEF new
  <2>2. ConfigFits(new) /\ DOMAIN new = DOMAIN cfg
    BY <2>1
  <2> QED BY <2>1, <2>2 DEF new
<1>4. CASE R!Find(cfg, id) # {}
  <2> DEFINE k == CHOOSE i \in R!Find(cfg, id) : TRUE
             front == SubSeq(cfg, 1, k - 1)
             back == SubSeq(cfg, k + 1, Len(cfg))
  <2>1. k \in DOMAIN cfg /\ cfg[k].id = id
    BY <1>4 DEF R!Find
  <2>2. new = front \o back
    BY <1>4 DEF R!Deleted, R!RemoveAt
  <2> HIDE DEF k, new
  <2>3. k \in 1..Len(cfg) /\ k \in Nat
    BY <1>2, <2>1
  <2>4. /\ front \in Seq(Connections) /\ Len(front) = k - 1
        /\ \A i \in 1..(k - 1) : front[i] = cfg[i]
    BY <1>1, <1>2, <2>3
  <2>5. /\ back \in Seq(Connections) /\ Len(back) = Len(cfg) - k
        /\ \A i \in 1..(Len(cfg) - k) : back[i] = cfg[k + i]
    <3>1. k + 1 \in 1..(Len(cfg) + 1) /\ Len(cfg) - (k + 1) + 1 = Len(cfg) - k
      BY <1>2, <2>3
    <3>2. \A i \in (k + 1)..Len(cfg) : cfg[i] \in Connections
      BY <1>2, <2>3
    <3>3. back \in Seq(Connections)
      BY <1>1, <1>2, <3>1, <3>2
    <3>4. Len(back) = Len(cfg) - k
      <4>1. k + 1 \in Nat /\ Len(cfg) \in Nat /\ Len(cfg) - k \in Nat
        BY <1>2, <2>3
      <4>2. CASE k = Len(cfg)
        BY <1>1, <1>2, <4>1, <4>2
      <4>3. CASE k < Len(cfg)
        BY <1>1, <1>2, <3>1, <4>1, <4>3
      <4>4. k = Len(cfg) \/ k < Len(cfg)
        BY <2>3, <4>1
      <4> HIDE DEF back
      <4> QED BY <4>2, <4>3, <4>4
    <3>5. \A i \in 1..(Len(cfg) - k) : back[i] = cfg[k + i]
      <4> TAKE i \in 1..(Len(cfg) - k)
      <4>1. i \in 1..(Len(cfg) - (k + 1) + 1) /\ (k + 1) + i - 1 = k + i
        BY <1>2, <2>3
      <4>2. back[i] = cfg[(k + 1) + i - 1]
        BY <1>1, <1>2, <2>3, <4>1
      <4> QED BY <4>1, <4>2
    <3> QED BY <3>3, <3>4, <3>5
  <2> HIDE DEF front, back
  <2>6. new \in Seq(Connections) /\ Len(new) = Len(cfg) - 1 /\ DOMAIN new = 1..(Len(cfg) - 1)
    <3>0. front \in Seq(Connections) /\ back \in Seq(Connections)
      BY <2>4, <2>5
    <3>a. new \in Seq(Connections)
      BY <2>2, <3>0
    <3>b. Len(new) = Len(front) + Len(back)
      BY <2>2, <3>0
    <3>1. new \in Seq(Connections) /\ Len(new) = Len(front) + Len(back)
      BY <3>a, <3>b
    <3>2. Len(new) = Len(cfg) - 1
      BY <1>2, <2>3, <2>4, <2>5, <3>1
    <3> QED BY <3>1, <3>2
  <2>7. \A i \in 1..(Len(cfg) - 1) : new[i] = cfg[IF i < k THEN i ELSE i + 1]
    <3> TAKE i \in 1..(Len(cfg) - 1)
    <3>1. CASE i < k
      <4>1. i \in 1..(k - 1)
        BY <1>2, <2>3, <3>1
      <4>2. new[i] = front[i]
        BY <2>2, <2>4, <2>5, <4>1
      <4> QED BY <2>4, <3>1, <4>1, <4>2
    <3>2. CASE ~(i < k)
      <4>1. i - (k - 1) \in 1..(Len(cfg) - k) /\ k + (i - (k - 1)) = i + 1
        BY <1>2, <2>3, <3>2
      <4>2. i \in 1..(Len(front) + Len(back)) /\ ~(i <= Len(front)) /\ i - Len(front) = i - (k - 1)
        BY <1>2, <2>3, <2>4, <2>5, <3>2
      <4>3. new[i] = back[i - Len(front)]
        BY <2>2, <2>4, <2>5, <4>2
      <4> QED BY <2>5, <3>2, <4>1, <4>2, <4>3
    <3> QED BY <3>1, <3>2
  <2>8. \A j \in DOMAIN new :
          LET i == IF j < k THEN j ELSE j + 1 IN i \in DOMAIN cfg /\ i # k /\ new[j] = cfg[i]
    BY <1>2, <2>3, <2>6, <2>7
  <2>9. \A i \in DOMAIN cfg : i # k => \E j \in DOMAIN new : new[j] = cfg[i]
    <3> SUFFICES ASSUME NEW i \in DOMAIN cfg, i # k PROVE \E j \in DOMAIN new : new[j] = cfg[i]
      OBVIOUS
    <3>1. CASE i < k
      <4>1. i \in DOMAIN new
        BY <1>2, <2>3, <2>6, <3>1
      <4> QED BY <2>6, <2>7, <3>1, <4>1
    <3>2. CASE ~(i < k)
      <4>1. i - 1 \in DOMAIN new /\ ~(i - 1 < k) /\ (i - 1) + 1 = i
        BY <1>2, <2>3, <2>6, <3>2
      <4>2. new[i - 1] = cfg[i]
        BY <2>6, <2>7, <4>1
      <4> QED BY <4>1, <4>2
    <3> QED BY <3>1, <3>2
  <2>10. \A i, j \in DOMAIN new : new[i].id = new[j].id => i = j
    <3> TAKE i, j \in DOMAIN new
    <3> DEFINE a == IF i < k THEN i ELSE i + 1
               b == IF j < k THEN j ELSE j + 1
    <3>1. a \in DOMAIN cfg /\ b \in DOMAIN cfg /\ new[i] = cfg[a] /\ new[j] = cfg[b]
      BY <2>8
    <3>2. a = b => i = j
      BY <1>2, <2>3, <2>6
    <3> HIDE DEF a, b
    <3> QED BY <1>1, <3>1, <3>2
  <2>11. \A j \in DOMAIN new : \E i \in DOMAIN cfg : new[j] = cfg[i]
    BY <2>8
  <2>12. \A i \in DOMAIN cfg : cfg[i].id # id => i # k
    BY <2>1
  <2>13. \A i \in DOMAIN cfg : cfg[i].id # id => \E j \in DOMAIN new : new[j] = cfg[i]
    BY <2>9, <2>12
  <2>14. ConfigFits(new)
    <3>1. \E j \in DOMAIN new : new[j].id = Own
      BY <1>1, <2>13
    <3>2. \A j \in DOMAIN new : new[j].id = Own => new[j].db = Own
      BY <1>1, <2>11
    <3> QED BY <2>6, <2>10, <3>1, <3>2 DEF ConfigFits
  <2> QED BY <2>11, <2>13, <2>14 DEF new
<1> QED BY <1>3, <1>4

LEMMA RegistryInit == R!Init => RegistryInv
<1> SUFFICES ASSUME R!Init PROVE RegistryInv
  OBVIOUS
<1>1. /\ config = InitialConfig /\ db = Databases /\ current = FALSE
      /\ refresh = [r \in R!Refreshers |-> R!NoRefresh]
  BY DEF R!Init
<1>2. PICK asked \in Asking :
        command = [p \in Commands |->
          [at |-> "new", request |-> asked[p], cfg |-> <<>>, overlapped |-> FALSE]]
  BY DEF R!Init
<1>3. asked \in [Commands -> Requests]
  BY RegistryConstants
<1>4. \A p \in Commands : command[p].at = "new" /\ ~command[p].overlapped /\ ~R!Editing(p)
  BY <1>2 DEF R!Editing
<1>5. CommandTypes
  <2>1. db \in [DOMAIN Databases -> DatabaseRecords]
    BY <1>1, RegistryConstants DEF DatabaseRecords
  <2>2. ConfigFits(config)
    BY <1>1, InitialFits
  <2>3. command \in [Commands -> CommandRecords]
    BY <1>2, <1>3 DEF CommandRecords, CommandAts
  <2> QED BY <1>4, <2>1, <2>2, <2>3 DEF CommandTypes
<1>6. RefreshTypes
  <2>1. <<>> \in Seq(Connections)
    OBVIOUS
  <2>2. IsRefresh(R!NoRefresh) /\ R!NoRefresh.at = "idle" /\ R!NoRefresh.clean = FALSE
          /\ R!NoRefresh.todo = <<>>
    BY DEF IsRefresh, RefreshFields, R!NoRefresh
  <2> QED BY <1>1, <2>1, <2>2 DEF RefreshTypes, RefreshAts
<1>7. RefreshInv
  BY <1>1 DEF RefreshInv, RightFor, R!NoRefresh
<1>8. EditInv
  <2>1. KeepsEdits(config, command)
    BY <1>1, <1>4 DEF KeepsEdits, Has, HasSaved
  <2>2. ConfigRight
    BY <1>1, <2>1, InitialFits DEF ConfigRight
  <2> QED BY <1>4, <2>2 DEF EditInv
<1> QED BY <1>5, <1>6, <1>7, <1>8 DEF RegistryInv

-----------------------------------------------------------------------------
(* What the registry's steps do.                                           *)

LEMMA CleanSet ==
  ASSUME NEW x, IsRefresh(x), NEW b
  PROVE  LET e == [x EXCEPT !.clean = b]
         IN IsRefresh(e) /\ e.at = x.at /\ e.todo = x.todo /\ e.clean = b
  BY DEF IsRefresh, RefreshFields

LEMMA RefreshSet ==
  ASSUME RefreshTypes, NEW r \in R!Refreshers, NEW v, refresh' = [refresh EXCEPT ![r] = v]
  PROVE  /\ refresh' = [q \in R!Refreshers |-> refresh'[q]] /\ refresh'[r] = v
         /\ \A q \in R!Refreshers \ {r} : refresh'[q] = refresh[q]
  BY DEF RefreshTypes

\* Another change is noticed by the refreshes rs.
LEMMA DirtyRefreshes ==
  ASSUME RefreshTypes, NEW rs
  PROVE  LET d == R!Dirtied(rs)
         IN /\ d = [q \in R!Refreshers |-> d[q]]
            /\ \A q \in R!Refreshers :
                 /\ IsRefresh(d[q]) /\ d[q].at = refresh[q].at /\ d[q].todo = refresh[q].todo
                 /\ q \notin rs => d[q] = refresh[q]
                 /\ q \in rs => d[q].clean = FALSE
<1> DEFINE d == R!Dirtied(rs)
<1>1. d = [q \in R!Refreshers |-> IF q \in rs THEN [refresh[q] EXCEPT !.clean = FALSE] ELSE refresh[q]]
  BY DEF R!Dirtied
<1>2. \A q \in R!Refreshers : IsRefresh(refresh[q])
  BY DEF RefreshTypes
<1>3. \A q \in R!Refreshers :
        LET e == [refresh[q] EXCEPT !.clean = FALSE]
        IN IsRefresh(e) /\ e.at = refresh[q].at /\ e.todo = refresh[q].todo /\ e.clean = FALSE
  BY <1>2, CleanSet
<1> HIDE DEF d
<1>4. d = [q \in R!Refreshers |-> d[q]]
  BY <1>1
<1>5. ASSUME NEW q \in R!Refreshers
      PROVE  /\ IsRefresh(d[q]) /\ d[q].at = refresh[q].at /\ d[q].todo = refresh[q].todo
             /\ q \notin rs => d[q] = refresh[q]
             /\ q \in rs => d[q].clean = FALSE
  <2>1. CASE q \in rs
    <3>1. d[q] = [refresh[q] EXCEPT !.clean = FALSE]
      BY <1>1, <2>1
    <3> QED BY <1>3, <2>1, <3>1
  <2>2. CASE q \notin rs
    <3>1. d[q] = refresh[q]
      BY <1>1, <2>2
    <3> QED BY <1>2, <2>2, <3>1
  <2> QED BY <2>1, <2>2
<1>6. /\ d = [q \in R!Refreshers |-> d[q]]
      /\ \A q \in R!Refreshers :
           /\ IsRefresh(d[q]) /\ d[q].at = refresh[q].at /\ d[q].todo = refresh[q].todo
           /\ q \notin rs => d[q] = refresh[q]
           /\ q \in rs => d[q].clean = FALSE
  BY <1>4, <1>5
<1> QED BY <1>6 DEF d

LEMMA LoadDoes ==
  ASSUME RefreshTypes, NEW r \in R!Refreshers, R!Load(r)
  PROVE  /\ refresh' = [q \in R!Refreshers |-> refresh'[q]]
         /\ refresh[r].at \in {"idle", "load"} /\ (r \in Commands => refresh[r].at = "load")
         /\ IsRefresh(refresh'[r]) /\ refresh'[r].at = "visit" /\ refresh'[r].clean = TRUE
         /\ refresh'[r].todo = R!Loaded /\ refresh'[r].naming = {}
         /\ refresh'[r].pools = R!Nothing /\ refresh'[r].sources = R!Nothing
         /\ refresh'[r].states = R!Nothing
         /\ \A q \in R!Refreshers \ {r} :
              /\ IsRefresh(refresh'[q]) /\ refresh'[q].clean \in BOOLEAN
              /\ refresh'[q].at = refresh[q].at /\ refresh'[q].todo = refresh[q].todo
              /\ db' = db => refresh'[q] = refresh[q]
              /\ db' # db => refresh'[q].clean = FALSE
         /\ \E up \in {db[Own].up, TRUE} : db' = [db EXCEPT ![Own].up = up]
         /\ current' \in BOOLEAN /\ (current' => current /\ db' = db)
         /\ UNCHANGED <<config, pools, sources, states, command>>
<1> DEFINE first == [R!NoRefresh EXCEPT !.at = "visit", !.clean = TRUE, !.existing = pools,
                       !.todo = R!Loaded]
           Later(q) == [refresh[q] EXCEPT !.clean = @ /\ db' = db]
<1>1. refresh' = [q \in R!Refreshers |-> IF q = r THEN first ELSE Later(q)]
  BY DEF R!Load
<1>2. /\ IsRefresh(first) /\ first.at = "visit" /\ first.clean = TRUE
      /\ first.todo = R!Loaded /\ first.naming = {}
      /\ first.pools = R!Nothing /\ first.sources = R!Nothing /\ first.states = R!Nothing
  <2> DEFINE none == R!NoRefresh
             loaded == R!Loaded
  <2>1. /\ IsRefresh(none) /\ none.naming = {}
        /\ none.pools = R!Nothing /\ none.sources = R!Nothing /\ none.states = R!Nothing
    BY DEF IsRefresh, RefreshFields, R!NoRefresh
  <2> HIDE DEF none, loaded
  <2>2. LET e == [none EXCEPT !.at = "visit", !.clean = TRUE, !.existing = pools, !.todo = loaded]
        IN /\ IsRefresh(e) /\ e.at = "visit" /\ e.clean = TRUE /\ e.todo = loaded
           /\ e.naming = none.naming /\ e.pools = none.pools /\ e.sources = none.sources
           /\ e.states = none.states /\ e.existing = pools
    BY <2>1 DEF IsRefresh, RefreshFields
  <2> QED BY <2>1, <2>2 DEF none, loaded
<1>3. ASSUME NEW q \in R!Refreshers
      PROVE  /\ IsRefresh(Later(q)) /\ Later(q).clean \in BOOLEAN
             /\ Later(q).at = refresh[q].at /\ Later(q).todo = refresh[q].todo
             /\ db' = db => Later(q) = refresh[q]
             /\ db' # db => Later(q).clean = FALSE
  <2> DEFINE x == refresh[q]
  <2>1. IsRefresh(x) /\ x.clean \in BOOLEAN
    BY DEF RefreshTypes
  <2> HIDE DEF x
  <2>2. CASE db' = db
    <3>1. (x.clean /\ db' = db) = x.clean
      BY <2>1, <2>2
    <3>2. [x EXCEPT !.clean = @ /\ db' = db] = [x EXCEPT !.clean = x.clean]
      BY <3>1, Zenon
    <3>3. [x EXCEPT !.clean = x.clean] = x
      BY <2>1 DEF IsRefresh, RefreshFields
    <3>4. [x EXCEPT !.clean = @ /\ db' = db] = x
      BY <3>2, <3>3, Zenon
    <3> QED BY <2>1, <2>2, <3>4 DEF x
  <2>3. CASE db' # db
    <3>1. (x.clean /\ db' = db) = FALSE
      BY <2>3
    <3>2. [x EXCEPT !.clean = @ /\ db' = db] = [x EXCEPT !.clean = FALSE]
      BY <3>1, Zenon
    <3> DEFINE y == [x EXCEPT !.clean = FALSE]
    <3>3. IsRefresh(y) /\ y.clean = FALSE /\ y.at = x.at /\ y.todo = x.todo
      BY <2>1, CleanSet
    <3>4. Later(q) = y
      BY <3>2 DEF x
    <3> HIDE DEF y
    <3> QED BY <2>3, <3>3, <3>4 DEF x
  <2> QED BY <2>2, <2>3
<1>4. refresh'[r] = first
  BY <1>1
<1>5. \A q \in R!Refreshers \ {r} : refresh'[q] = Later(q)
  BY <1>1
<1> HIDE DEF first, Later
<1>6. refresh' = [q \in R!Refreshers |-> refresh'[q]]
  BY <1>1
<1>7. \E up \in {db[Own].up, TRUE} : db' = [db EXCEPT ![Own].up = up]
  BY DEF R!Load
<1>8. current' \in BOOLEAN /\ (current' => current /\ db' = db)
  <2>1. current' = (current /\ db' = db)
    BY DEF R!Load
  <2> QED BY <2>1, Zenon
<1>9. refresh[r].at \in {"idle", "load"} /\ (r \in Commands => refresh[r].at = "load")
  BY RegistryConstants DEF R!Load, R!RAt
<1>10. UNCHANGED <<config, pools, sources, states, command>>
  BY DEF R!Load, R!served
<1> QED BY <1>2, <1>3, <1>4, <1>5, <1>6, <1>7, <1>8, <1>9, <1>10

LEMMA SkipDoes ==
  ASSUME RefreshTypes, NEW r \in R!Refreshers, R!Skip(r)
  PROVE  /\ refresh' = [q \in R!Refreshers |-> refresh'[q]]
         /\ refresh[r].at = "visit" /\ refresh[r].naming = {} /\ refresh[r].todo # <<>>
         /\ ~Head(refresh[r].todo).enabled
         /\ IsRefresh(refresh'[r]) /\ refresh'[r].todo = Tail(refresh[r].todo)
         /\ refresh'[r].at = "visit" /\ refresh'[r].clean = refresh[r].clean
         /\ refresh'[r].naming = {} /\ refresh'[r].pools = refresh[r].pools
         /\ refresh'[r].sources = refresh[r].sources /\ refresh'[r].states = refresh[r].states
         /\ \A q \in R!Refreshers \ {r} : refresh'[q] = refresh[q]
         /\ UNCHANGED <<config, db, pools, sources, states, command, current>>
<1>1. refresh' = [refresh EXCEPT ![r].todo = Tail(@)]
  BY DEF R!Skip
<1>2. refresh = [q \in R!Refreshers |-> refresh[q]] /\ IsRefresh(refresh[r])
  BY DEF RefreshTypes
<1>3. refresh' = [q \in R!Refreshers |-> refresh'[q]] /\ \A q \in R!Refreshers \ {r} : refresh'[q] = refresh[q]
  BY <1>1, <1>2
<1>4. refresh'[r] = [refresh[r] EXCEPT !.todo = Tail(@)]
  BY <1>1, <1>2
<1>5. /\ IsRefresh(refresh'[r]) /\ refresh'[r].todo = Tail(refresh[r].todo)
      /\ refresh'[r].at = refresh[r].at /\ refresh'[r].clean = refresh[r].clean
      /\ refresh'[r].naming = refresh[r].naming /\ refresh'[r].pools = refresh[r].pools
      /\ refresh'[r].sources = refresh[r].sources /\ refresh'[r].states = refresh[r].states
  BY <1>2, <1>4 DEF IsRefresh, RefreshFields
<1>6. /\ refresh[r].at = "visit" /\ refresh[r].naming = {} /\ refresh[r].todo # <<>>
      /\ ~Head(refresh[r].todo).enabled
  BY DEF R!Skip, R!Visits, R!RAt
<1>7. UNCHANGED <<config, db, pools, sources, states, command, current>>
  BY DEF R!Skip, R!served
<1> QED BY <1>3, <1>5, <1>6, <1>7

LEMMA VisitDoes ==
  ASSUME RefreshTypes, NEW r \in R!Refreshers, R!Visit(r)
  PROVE  LET x == refresh[r]
             y == refresh'[r]
             c == Head(refresh[r].todo)
         IN /\ refresh' = [q \in R!Refreshers |-> refresh'[q]]
            /\ x.at = "visit" /\ x.naming = {} /\ x.todo # <<>> /\ c.enabled
            /\ IsRefresh(y) /\ y.at = "visit" /\ y.clean = x.clean
            /\ y.todo = Tail(x.todo) /\ y.sources = x.sources
            /\ \E found, connected \in BOOLEAN :
                 /\ OpensIn(db, c) => found
                 /\ found => connected /\ db[c.db].up
                 /\ y.naming = IF found THEN TablesIn(db, c) ELSE {}
                 /\ y.pools = IF connected THEN R!With(x.pools, c.id, [db |-> c.db, pw |-> c.pw])
                              ELSE x.pools
                 /\ y.states = R!With(x.states, c.id, found)
            /\ \A q \in R!Refreshers \ {r} : refresh'[q] = refresh[q]
            /\ UNCHANGED <<config, db, pools, sources, states, command, current>>
<1> DEFINE x == refresh[r]
           c == Head(x.todo)
           connected == R!Reused(r, c) \/ R!Opens(c)
           Ps == IF connected THEN R!With(x.pools, c.id, [db |-> c.db, pw |-> c.pw]) ELSE x.pools
           Naming(found) == IF found THEN R!TablesOf(c) ELSE {}
<1>1. PICK found \in IF R!Opens(c) THEN {TRUE} ELSE {FALSE, R!Reused(r, c) /\ db[c.db].up} :
        refresh' = [refresh EXCEPT ![r] = [x EXCEPT
          !.todo = Tail(x.todo), !.naming = Naming(found), !.pools = Ps,
          !.states = R!With(x.states, c.id, found)]]
  BY DEF R!Visit
<1> DEFINE v == [x EXCEPT !.todo = Tail(x.todo), !.naming = Naming(found), !.pools = Ps,
                          !.states = R!With(x.states, c.id, found)]
<1>2. IsRefresh(x)
  BY DEF RefreshTypes
<1>3. /\ refresh' = [q \in R!Refreshers |-> refresh'[q]] /\ refresh'[r] = v
      /\ \A q \in R!Refreshers \ {r} : refresh'[q] = refresh[q]
  <2> HIDE DEF v
  <2>1. refresh' = [refresh EXCEPT ![r] = v]
    BY <1>1 DEF v
  <2> QED BY <2>1, RefreshSet
<1>5. LET y == refresh'[r]
      IN /\ IsRefresh(y) /\ y.at = x.at /\ y.clean = x.clean
         /\ y.todo = Tail(x.todo) /\ y.sources = x.sources
         /\ y.naming = Naming(found) /\ y.pools = Ps
         /\ y.states = R!With(x.states, c.id, found)
  <2> HIDE DEF Naming, connected, c, x, Ps
  <2> QED BY <1>2, <1>3 DEF IsRefresh, RefreshFields
<1>6. x.at = "visit" /\ x.naming = {} /\ x.todo # <<>> /\ c.enabled
  BY DEF R!Visit, R!Visits, R!RAt
<1>7. R!TablesOf(c) = TablesIn(db, c) /\ (R!Opens(c) <=> OpensIn(db, c))
  BY DEF R!TablesOf, TablesIn, R!Opens, OpensIn
<1>8. /\ found \in BOOLEAN /\ connected \in BOOLEAN
      /\ OpensIn(db, c) => found
      /\ found => connected /\ db[c.db].up
  <2>1. connected \in BOOLEAN
    OBVIOUS
  <2>2. CASE R!Opens(c)
    <3>1. found = TRUE /\ connected
      BY <1>1, <2>2
    <3>2. db[c.db].up
      BY <2>2 DEF R!Opens
    <3> QED BY <2>1, <3>1, <3>2
  <2>3. CASE ~R!Opens(c)
    <3>1. found = FALSE \/ found = (R!Reused(r, c) /\ db[c.db].up)
      BY <1>1, <2>3, Zenon
    <3>2. found \in BOOLEAN /\ (found => R!Reused(r, c) /\ db[c.db].up)
      BY <3>1, Zenon
    <3> QED BY <1>7, <2>1, <2>3, <3>2, Zenon
  <2> QED BY <2>2, <2>3
<1>9. Naming(found) = IF found THEN TablesIn(db, c) ELSE {}
  BY <1>7
<1>10. UNCHANGED <<config, db, pools, sources, states, command, current>>
  BY DEF R!Visit, R!served
<1>11. \E f, con \in BOOLEAN :
         /\ OpensIn(db, c) => f
         /\ f => con /\ db[c.db].up
         /\ refresh'[r].naming = IF f THEN TablesIn(db, c) ELSE {}
         /\ refresh'[r].pools = IF con THEN R!With(x.pools, c.id, [db |-> c.db, pw |-> c.pw]) ELSE x.pools
         /\ refresh'[r].states = R!With(x.states, c.id, f)
  <2> HIDE DEF Naming, connected, c, x
  <2>1. /\ refresh'[r].naming = IF found THEN TablesIn(db, c) ELSE {}
        /\ refresh'[r].pools = IF connected THEN R!With(x.pools, c.id, [db |-> c.db, pw |-> c.pw]) ELSE x.pools
        /\ refresh'[r].states = R!With(x.states, c.id, found)
    BY <1>5, <1>9
  <2> QED BY <1>8, <2>1, Zenon
<1> QED BY <1>3, <1>5, <1>6, <1>10, <1>11

LEMMA NameDoes ==
  ASSUME RefreshTypes, NEW r \in R!Refreshers, R!Name(r)
  PROVE  LET x == refresh[r]
             y == refresh'[r]
         IN /\ refresh' = [q \in R!Refreshers |-> refresh'[q]]
            /\ x.at = "visit"
            /\ IsRefresh(y) /\ y.at = "visit" /\ y.clean = x.clean
            /\ y.todo = x.todo /\ y.pools = x.pools /\ y.states = x.states
            /\ \E s \in x.naming :
                 /\ y.naming = x.naming \ {s}
                 /\ y.sources = R!With(x.sources,
                      R!UniqueSlug(Slug[s.table], DOMAIN x.sources \cup R!FileStems), s)
            /\ \A q \in R!Refreshers \ {r} : refresh'[q] = refresh[q]
            /\ UNCHANGED <<config, db, pools, sources, states, command, current>>
<1> DEFINE x == refresh[r]
           Ids(s) == R!UniqueSlug(Slug[s.table], DOMAIN x.sources \cup R!FileStems)
<1>1. PICK s \in x.naming :
        refresh' = [refresh EXCEPT ![r] = [x EXCEPT
          !.naming = x.naming \ {s}, !.sources = R!With(x.sources, Ids(s), s)]]
  BY DEF R!Name
<1> DEFINE v == [x EXCEPT !.naming = x.naming \ {s}, !.sources = R!With(x.sources, Ids(s), s)]
<1>2. IsRefresh(x)
  BY DEF RefreshTypes
<1>3. /\ refresh' = [q \in R!Refreshers |-> refresh'[q]] /\ refresh'[r] = v
      /\ \A q \in R!Refreshers \ {r} : refresh'[q] = refresh[q]
  <2> HIDE DEF v
  <2>1. refresh' = [refresh EXCEPT ![r] = v]
    BY <1>1 DEF v
  <2> QED BY <2>1, RefreshSet
<1>5. LET y == refresh'[r]
      IN /\ IsRefresh(y) /\ y.at = x.at /\ y.clean = x.clean
         /\ y.todo = x.todo /\ y.pools = x.pools /\ y.states = x.states
         /\ y.naming = x.naming \ {s} /\ y.sources = R!With(x.sources, Ids(s), s)
  <2> HIDE DEF x, Ids
  <2> QED BY <1>2, <1>3 DEF IsRefresh, RefreshFields
<1>6. x.at = "visit"
  BY DEF R!Name, R!RAt
<1>7. UNCHANGED <<config, db, pools, sources, states, command, current>>
  BY DEF R!Name, R!served
<1> QED BY <1>3, <1>5, <1>6, <1>7

\* Publishing: at is what the refresh publishes, to is where it is then.
LEMMA PublishDoes ==
  ASSUME RefreshTypes, NEW r \in R!Refreshers,
         R!PublishPools(r) \/ R!PublishSources(r) \/ R!PublishStates(r)
  PROVE  /\ refresh' = [q \in R!Refreshers |-> refresh'[q]]
         /\ \A q \in R!Refreshers \ {r} :
              /\ IsRefresh(refresh'[q]) /\ refresh'[q].clean \in BOOLEAN
              /\ refresh'[q].at = refresh[q].at /\ refresh'[q].todo = refresh[q].todo
              /\ refresh[q].at # "idle" => refresh'[q].clean = FALSE
         /\ IsRefresh(refresh'[r]) /\ refresh'[r].clean \in BOOLEAN
         /\ refresh'[r].at \in {"idle", "sources", "states"}
         /\ refresh'[r].todo \in Seq(Connections)
         /\ R!PublishPools(r) => refresh'[r] = [refresh[r] EXCEPT !.at = "sources"]
         /\ R!PublishSources(r) => refresh'[r] = [refresh[r] EXCEPT !.at = "states"]
         /\ R!PublishStates(r) => refresh'[r].at = "idle"
<1> DEFINE rs == R!Others(r)
           d == R!Dirtied(rs)
<1>1. /\ d = [q \in R!Refreshers |-> d[q]]
      /\ \A q \in R!Refreshers :
           /\ IsRefresh(d[q]) /\ d[q].at = refresh[q].at /\ d[q].todo = refresh[q].todo
           /\ q \notin rs => d[q] = refresh[q]
           /\ q \in rs => d[q].clean = FALSE
  <2> HIDE DEF rs
  <2> QED BY DirtyRefreshes
<1>2. /\ r \notin rs
      /\ \A q \in R!Refreshers \ {r} : refresh[q].at # "idle" => q \in rs
  BY DEF R!Others
<1>3. \A q \in R!Refreshers : /\ IsRefresh(refresh[q]) /\ refresh[q].clean \in BOOLEAN
                              /\ refresh[q].todo \in Seq(Connections)
  BY DEF RefreshTypes
<1>4. /\ R!PublishPools(r) => refresh' = [d EXCEPT ![r].at = "sources"]
      /\ R!PublishSources(r) => refresh' = [d EXCEPT ![r].at = "states"]
      /\ R!PublishStates(r) => refresh' = [d EXCEPT ![r] = R!NoRefresh]
  BY DEF R!PublishPools, R!PublishSources, R!PublishStates
<1> HIDE DEF d, rs
<1>5. d[r] = refresh[r]
  BY <1>1, <1>2
<1>6. /\ R!PublishPools(r) => refresh'[r] = [refresh[r] EXCEPT !.at = "sources"]
      /\ R!PublishSources(r) => refresh'[r] = [refresh[r] EXCEPT !.at = "states"]
      /\ R!PublishStates(r) => refresh'[r] = R!NoRefresh
  BY <1>1, <1>4, <1>5
<1>7. /\ refresh' = [q \in R!Refreshers |-> refresh'[q]]
      /\ \A q \in R!Refreshers \ {r} : refresh'[q] = d[q]
  BY <1>1, <1>4
<1>8. \A q \in R!Refreshers \ {r} :
        /\ IsRefresh(refresh'[q]) /\ refresh'[q].clean \in BOOLEAN
        /\ refresh'[q].at = refresh[q].at /\ refresh'[q].todo = refresh[q].todo
        /\ refresh[q].at # "idle" => refresh'[q].clean = FALSE
  <2> TAKE q \in R!Refreshers \ {r}
  <2>1. CASE q \in rs
    BY <1>1, <1>7, <2>1
  <2>2. CASE q \notin rs
    BY <1>1, <1>2, <1>3, <1>7, <2>2
  <2> QED BY <2>1, <2>2
<1>9. /\ IsRefresh(refresh'[r]) /\ refresh'[r].clean \in BOOLEAN
      /\ refresh'[r].at \in {"idle", "sources", "states"}
      /\ refresh'[r].todo \in Seq(Connections)
      /\ R!PublishStates(r) => refresh'[r].at = "idle"
  <2> DEFINE x == refresh[r]
  <2>1. ASSUME NEW at
        PROVE  LET y == [x EXCEPT !.at = at]
               IN IsRefresh(y) /\ y.clean \in BOOLEAN /\ y.at = at /\ y.todo \in Seq(Connections)
    <3>1. IsRefresh(x) /\ x.clean \in BOOLEAN /\ x.todo \in Seq(Connections)
      BY <1>3
    <3> HIDE DEF x
    <3> QED BY <3>1 DEF IsRefresh, RefreshFields
  <2>2. /\ IsRefresh(R!NoRefresh) /\ R!NoRefresh.clean = FALSE /\ R!NoRefresh.at = "idle"
        /\ R!NoRefresh.todo \in Seq(Connections)
    <3>1. <<>> \in Seq(Connections)
      OBVIOUS
    <3>2. /\ IsRefresh(R!NoRefresh) /\ R!NoRefresh.clean = FALSE /\ R!NoRefresh.at = "idle"
          /\ R!NoRefresh.todo = <<>>
      BY DEF IsRefresh, RefreshFields, R!NoRefresh
    <3> QED BY <3>1, <3>2
  <2>3. ~(R!PublishStates(r) /\ (R!PublishPools(r) \/ R!PublishSources(r)))
    BY DEF R!PublishStates, R!PublishPools, R!PublishSources, R!RAt
  <2> QED BY <1>6, <2>1, <2>2, <2>3
<1> QED BY <1>6, <1>7, <1>8, <1>9

\* All refreshes notice a change; of a command that ends with one it begins.
LEMMA AllDirty ==
  ASSUME RefreshTypes, refresh' = R!Dirtied(R!Refreshers), current' = FALSE
  PROVE  /\ RefreshInv'
         /\ refresh' = [q \in R!Refreshers |-> refresh'[q]]
         /\ \A q \in R!Refreshers :
              /\ IsRefresh(refresh'[q]) /\ refresh'[q].clean \in BOOLEAN
              /\ refresh'[q].at = refresh[q].at /\ refresh'[q].todo = refresh[q].todo
<1> DEFINE rs == R!Refreshers
           d == R!Dirtied(rs)
<1>1. /\ d = [q \in R!Refreshers |-> d[q]]
      /\ \A q \in R!Refreshers :
           /\ IsRefresh(d[q]) /\ d[q].at = refresh[q].at /\ d[q].todo = refresh[q].todo
           /\ q \notin rs => d[q] = refresh[q]
           /\ q \in rs => d[q].clean = FALSE
  <2> HIDE DEF rs
  <2> QED BY DirtyRefreshes
<1>2. refresh' = d
  OBVIOUS
<1> HIDE DEF d
<1>3. \A q \in R!Refreshers : refresh'[q].clean = FALSE
  BY <1>1, <1>2
<1>4. RefreshInv'
  BY <1>3 DEF RefreshInv, RightFor
<1> QED BY <1>1, <1>2, <1>3, <1>4

LEMMA AllDirtyThenLoad ==
  ASSUME RefreshTypes, NEW p \in Commands,
         refresh' = [R!Dirtied(R!Refreshers) EXCEPT ![p].at = "load"], current' = FALSE
  PROVE  /\ RefreshInv'
         /\ refresh' = [q \in R!Refreshers |-> refresh'[q]]
         /\ \A q \in R!Refreshers :
              /\ IsRefresh(refresh'[q]) /\ refresh'[q].clean \in BOOLEAN
              /\ refresh'[q].at = IF q = p THEN "load" ELSE refresh[q].at
              /\ refresh'[q].todo = refresh[q].todo
<1> DEFINE rs == R!Refreshers
           d == R!Dirtied(rs)
<1>1. /\ d = [q \in R!Refreshers |-> d[q]]
      /\ \A q \in R!Refreshers :
           /\ IsRefresh(d[q]) /\ d[q].at = refresh[q].at /\ d[q].todo = refresh[q].todo
           /\ q \notin rs => d[q] = refresh[q]
           /\ q \in rs => d[q].clean = FALSE
  <2> HIDE DEF rs
  <2> QED BY DirtyRefreshes
<1>2. refresh' = [d EXCEPT ![p].at = "load"]
  OBVIOUS
<1> HIDE DEF d
<1>3. p \in R!Refreshers
  BY DEF R!Refreshers
<1>4. refresh' = [q \in R!Refreshers |-> IF q = p THEN [d[p] EXCEPT !.at = "load"] ELSE d[q]]
  BY <1>1, <1>2, <1>3
<1>5. LET e == [d[p] EXCEPT !.at = "load"]
      IN IsRefresh(e) /\ e.at = "load" /\ e.clean = d[p].clean /\ e.todo = d[p].todo
  BY <1>1, <1>3 DEF IsRefresh, RefreshFields
<1>6. refresh' = [q \in R!Refreshers |-> refresh'[q]]
  BY <1>4
<1>7. \A q \in R!Refreshers :
        /\ IsRefresh(refresh'[q]) /\ refresh'[q].clean = FALSE
        /\ refresh'[q].at = IF q = p THEN "load" ELSE refresh[q].at
        /\ refresh'[q].todo = refresh[q].todo
  <2> TAKE q \in R!Refreshers
  <2>1. CASE q = p
    <3>1. refresh'[q] = [d[p] EXCEPT !.at = "load"]
      BY <1>4, <2>1
    <3> QED BY <1>1, <1>5, <2>1, <3>1
  <2>2. CASE q # p
    <3>1. refresh'[q] = d[q]
      BY <1>4, <2>2
    <3> QED BY <1>1, <2>2, <3>1
  <2> QED BY <2>1, <2>2
<1>8. RefreshInv'
  BY <1>7 DEF RefreshInv, RightFor
<1> QED BY <1>6, <1>7, <1>8

\* A refresh that a step leaves alone stays right.
LEMMA RightStays ==
  ASSUME NEW q \in R!Refreshers, RightFor(q),
         refresh'[q].clean =>
           /\ refresh'[q] = refresh[q] /\ db' = db /\ config' = config
           /\ refresh[q].at \in {"sources", "states"} => pools' = pools
           /\ refresh[q].at = "states" => sources' = sources
  PROVE  RightFor(q)'
<1>1. SUFFICES ASSUME refresh'[q].clean PROVE RightFor(q)'
  BY DEF RightFor
<1>2. refresh'[q] = refresh[q] /\ db' = db /\ config' = config
  BY <1>1
<1>3. (R!Loaded)' = R!Loaded
  BY <1>2 DEF R!Loaded
<1> QED BY <1>1, <1>2, <1>3 DEF RightFor

LEMMA CurrentStays ==
  ASSUME RefreshInv, current' => current /\ db' = db /\ config' = config
                                  /\ UNCHANGED <<pools, sources, states>>
  PROVE  current' => Finds(Seen(R!Loaded, Len(R!Loaded)), db, {}, pools, sources, states)'
<1>1. SUFFICES ASSUME current'
               PROVE  Finds(Seen(R!Loaded, Len(R!Loaded)), db, {}, pools, sources, states)'
  OBVIOUS
<1>2. current /\ db' = db /\ config' = config /\ UNCHANGED <<pools, sources, states>>
  BY <1>1
<1>3. (R!Loaded)' = R!Loaded
  BY <1>2 DEF R!Loaded
<1> QED BY <1>2, <1>3 DEF RefreshInv

\* Steps that are not a command's changing the config.
LEMMA EditStays ==
  ASSUME EditInv, config' = config, db'[Own].pw = db[Own].pw,
         \A p \in Commands :
           /\ command'[p].request = command[p].request /\ command'[p].cfg = command[p].cfg
           /\ command'[p].overlapped = command[p].overlapped
           /\ R!Editing(p) <=> R!Editing(p)'
           /\ R!Editing(p) => command'[p].at = command[p].at
           /\ command'[p].at = "unsaved" <=> command[p].at = "unsaved"
           /\ command'[p].at \in HasSaved /\ command[p].request.do = "save" => command[p].at \in HasSaved
  PROVE  EditInv'
<1>1. \A cfg : HasPassword(cfg, db) => HasPassword(cfg, db')
  BY DEF HasPassword
<1>2. \A cfg : KeepsEdits(cfg, command) => KeepsEdits(cfg, command')
  <2>1. \A id : IsDeleted(id, command) <=> IsDeleted(id, command')
    BY DEF IsDeleted
  <2> QED BY <2>1 DEF KeepsEdits
<1>3. EditsAlone' => EditsAlone
  BY DEF EditsAlone
<1>4. ConfigRight => ConfigRight'
  BY <1>1, <1>2 DEF ConfigRight
<1>5. \A p \in Commands : R!Editing(p) /\ EditRight(p) => EditRight(p)'
  BY <1>1, <1>2, <1>4 DEF EditRight
<1> QED BY <1>3, <1>4, <1>5 DEF EditInv

LEMMA CommandEnds ==
  ASSUME CommandTypes, NEW p \in Commands, NEW how \in CommandAts, R!Ends(p, how)
  PROVE  /\ command' \in [Commands -> CommandRecords]
         /\ command'[p].at = how /\ command'[p].request = command[p].request
         /\ command'[p].cfg = command[p].cfg /\ command'[p].overlapped = command[p].overlapped
         /\ \A q \in Commands \ {p} : command'[q] = command[q]
<1>1. command' = [command EXCEPT ![p].at = how] /\ command \in [Commands -> CommandRecords]
  BY DEF R!Ends, CommandTypes
<1> QED BY <1>1 DEF CommandRecords

\* The registry's types after a step of a command.
LEMMA TypesAfter ==
  ASSUME RefreshTypes, NEW p \in Commands, current' \in BOOLEAN,
         refresh' = [q \in R!Refreshers |-> refresh'[q]],
         \A q \in R!Refreshers :
           /\ IsRefresh(refresh'[q]) /\ refresh'[q].clean \in BOOLEAN
           /\ refresh'[q].at \in {refresh[q].at} \cup (IF q = p THEN {"load"} ELSE {})
           /\ refresh'[q].todo = refresh[q].todo,
         command[p].at # "refresh", refresh'[p].at = "load" => command'[p].at = "refresh",
         \A q \in Commands \ {p} : command'[q].at = command[q].at
  PROVE  RefreshTypes'
<1>1. refresh[p].at = "idle"
  BY DEF RefreshTypes, R!Refreshers
<1>2. \A q \in R!Refreshers : refresh'[q].at \in RefreshAts
  BY DEF RefreshTypes, RefreshAts
<1>3. \A r \in Commands : refresh'[r].at # "idle" => command'[r].at = "refresh"
  <2>1. \A r \in Commands : r \in R!Refreshers /\ (refresh[r].at # "idle" => command[r].at = "refresh")
    BY DEF RefreshTypes, R!Refreshers
  <2>2. ASSUME NEW r \in Commands, refresh'[r].at # "idle" PROVE command'[r].at = "refresh"
    <3>1. CASE r = p
      BY <1>1, <2>1, <2>2, <3>1
    <3>2. CASE r # p
      <4>1. refresh'[r].at = refresh[r].at
        BY <2>1, <3>2
      <4> QED BY <2>1, <2>2, <3>2, <4>1
    <3> QED BY <3>1, <3>2
  <2> QED BY <2>2
<1>4. \A q \in R!Refreshers : refresh'[q].todo \in Seq(Connections)
  BY DEF RefreshTypes
<1> QED BY <1>2, <1>3, <1>4 DEF RefreshTypes

-----------------------------------------------------------------------------
(* The steps of a refresh.                                                 *)

LEMMA LoadStep ==
  ASSUME RegistryInv, NEW r \in R!Refreshers, R!Load(r)
  PROVE  RegistryInv'
<1>1. CommandTypes /\ RefreshTypes /\ RefreshInv /\ EditInv
  BY DEF RegistryInv
<1>2. /\ refresh' = [q \in R!Refreshers |-> refresh'[q]]
      /\ refresh[r].at \in {"idle", "load"} /\ (r \in Commands => refresh[r].at = "load")
      /\ IsRefresh(refresh'[r]) /\ refresh'[r].at = "visit" /\ refresh'[r].clean = TRUE
      /\ refresh'[r].todo = R!Loaded /\ refresh'[r].naming = {}
      /\ refresh'[r].pools = R!Nothing /\ refresh'[r].sources = R!Nothing
      /\ refresh'[r].states = R!Nothing
      /\ \A q \in R!Refreshers \ {r} :
           /\ IsRefresh(refresh'[q]) /\ refresh'[q].clean \in BOOLEAN
           /\ refresh'[q].at = refresh[q].at /\ refresh'[q].todo = refresh[q].todo
           /\ db' = db => refresh'[q] = refresh[q]
           /\ db' # db => refresh'[q].clean = FALSE
      /\ current' \in BOOLEAN /\ (current' => current /\ db' = db)
      /\ UNCHANGED <<config, pools, sources, states, command>>
  BY <1>1, LoadDoes
<1>3. db' \in [DOMAIN Databases -> DatabaseRecords] /\ db'[Own].pw = db[Own].pw
  <2>1. PICK up \in {db[Own].up, TRUE} : db' = [db EXCEPT ![Own].up = up]
    BY <1>1, LoadDoes
  <2>2. db \in [DOMAIN Databases -> DatabaseRecords] /\ Own \in DOMAIN Databases
    BY <1>1, RegistryConstants DEF CommandTypes
  <2>3. db[Own] \in DatabaseRecords /\ up \in BOOLEAN
    BY <2>1, <2>2 DEF DatabaseRecords
  <2>4. [db[Own] EXCEPT !.up = up] \in DatabaseRecords /\ [db[Own] EXCEPT !.up = up].pw = db[Own].pw
    BY <2>3 DEF DatabaseRecords
  <2> QED BY <2>1, <2>2, <2>4
<1>4. ConfigFits(R!Loaded) /\ R!Loaded \in Seq(Connections)
  BY <1>1, LoadedFits DEF ConfigFits
<1>5. CommandTypes'
  BY <1>1, <1>2, <1>3 DEF CommandTypes, R!Editing
<1>6. RefreshTypes'
  <2>1. \A q \in R!Refreshers :
          /\ IsRefresh(refresh'[q]) /\ refresh'[q].clean \in BOOLEAN
          /\ refresh'[q].at \in RefreshAts /\ refresh'[q].todo \in Seq(Connections)
    BY <1>1, <1>2, <1>4 DEF RefreshTypes, RefreshAts
  <2>2. \A q \in Commands : refresh'[q].at # "idle" => command'[q].at = "refresh"
    BY <1>1, <1>2 DEF RefreshTypes, R!Refreshers
  <2> QED BY <1>2, <2>1, <2>2 DEF RefreshTypes
<1>7. RefreshInv'
  <2>1. (R!Loaded)' = R!Loaded
    BY <1>2 DEF R!Loaded
  <2>2. VisitsRight(refresh'[r], db', R!Loaded)
    <3> DEFINE cfg == R!Loaded
               x == refresh'[r]
    <3>1. Len(cfg) \in Nat
      BY <1>4
    <3>2. Seen(cfg, 0) = {}
      BY DEF Seen
    <3>3. Finds({}, db', {}, R!Nothing, R!Nothing, R!Nothing)
      BY FindsNothing
    <3>4. Finds(Seen(cfg, 0), db', x.naming, x.pools, x.sources, x.states)
      BY <1>2, <3>2, <3>3
    <3>5. Follows(x.todo, cfg, 0)
      <4>1. Len(cfg) - 0 = Len(cfg) /\ 0 \in 0..Len(cfg) /\ \A i \in 1..Len(cfg) : 0 + i = i
        BY <3>1
      <4> QED BY <1>2, <4>1 DEF Follows
    <3> HIDE DEF cfg, x
    <3> QED BY <3>4, <3>5 DEF VisitsRight, cfg, x
  <2>3. RightFor(r)'
    BY <1>2, <2>1, <2>2 DEF RightFor
  <2>4. ASSUME NEW q \in R!Refreshers, q # r PROVE RightFor(q)'
    <3>1. RightFor(q)
      BY <1>1 DEF RefreshInv
    <3>2. refresh'[q].clean => refresh'[q] = refresh[q] /\ db' = db
      BY <1>2, <2>4
    <3> QED BY <1>2, <3>1, <3>2, RightStays
  <2>5. current' => Finds(Seen(R!Loaded, Len(R!Loaded)), db, {}, pools, sources, states)'
    BY <1>1, <1>2, CurrentStays
  <2> QED BY <2>3, <2>4, <2>5 DEF RefreshInv
<1>8. EditInv'
  <2>1. \A p \in Commands : R!Editing(p) <=> R!Editing(p)'
    BY <1>2 DEF R!Editing
  <2> QED BY <1>1, <1>2, <1>3, <2>1, EditStays
<1> QED BY <1>5, <1>6, <1>7, <1>8 DEF RegistryInv

LEMMA VisitingStep ==
  ASSUME RegistryInv, NEW r \in R!Refreshers,
         refresh' = [q \in R!Refreshers |-> refresh'[q]],
         refresh[r].at = "visit", refresh'[r].at = "visit", IsRefresh(refresh'[r]),
         refresh'[r].clean = refresh[r].clean, refresh'[r].todo \in Seq(Connections),
         refresh[r].clean => VisitsRight(refresh'[r], db, R!Loaded),
         \A q \in R!Refreshers \ {r} : refresh'[q] = refresh[q],
         UNCHANGED <<config, db, pools, sources, states, command, current>>
  PROVE  RegistryInv'
<1>1. CommandTypes /\ RefreshTypes /\ RefreshInv /\ EditInv
  BY DEF RegistryInv
<1>2. CommandTypes'
  BY <1>1 DEF CommandTypes, R!Editing
<1>3. RefreshTypes'
  BY <1>1 DEF RefreshTypes
<1>4. (R!Loaded)' = R!Loaded
  BY DEF R!Loaded
<1>5. RightFor(r)'
  BY <1>4 DEF RightFor
<1>6. ASSUME NEW q \in R!Refreshers, q # r PROVE RightFor(q)'
  <2>1. RightFor(q)
    BY <1>1 DEF RefreshInv
  <2>2. refresh'[q] = refresh[q]
    BY <1>6
  <2> QED BY <2>1, <2>2, RightStays
<1>7. current' => Finds(Seen(R!Loaded, Len(R!Loaded)), db, {}, pools, sources, states)'
  BY <1>1, CurrentStays
<1>8. RefreshInv'
  BY <1>5, <1>6, <1>7 DEF RefreshInv
<1>9. EditInv'
  <2>1. \A p \in Commands : R!Editing(p) <=> R!Editing(p)'
    BY DEF R!Editing
  <2> QED BY <1>1, <2>1, EditStays
<1> QED BY <1>2, <1>3, <1>8, <1>9 DEF RegistryInv

\* The next connection, and what is seen with it.
LEMMA NextConnection ==
  ASSUME NEW todo \in Seq(Connections), todo # <<>>, NEW cfg, ConfigFits(cfg),
         NEW k \in Nat, Follows(todo, cfg, k)
  PROVE  LET c == Head(todo)
         IN /\ Follows(Tail(todo), cfg, k + 1)
            /\ c.enabled => Seen(cfg, k + 1) = Seen(cfg, k) \cup {c}
            /\ ~c.enabled => Seen(cfg, k + 1) = Seen(cfg, k)
            /\ \A d \in Seen(cfg, k) : d.id # c.id
<1> DEFINE c == Head(todo)
           rest == Tail(todo)
<1>1. /\ cfg \in Seq(Connections)
      /\ \A i, j \in DOMAIN cfg : cfg[i].id = cfg[j].id => i = j
  BY DEF ConfigFits
<1>2. /\ Len(cfg) \in Nat /\ DOMAIN cfg = 1..Len(cfg) /\ k <= Len(cfg)
      /\ Len(todo) = Len(cfg) - k /\ \A i \in 1..Len(todo) : todo[i] = cfg[k + i]
  BY <1>1 DEF Follows
<1>3. Len(todo) \in Nat /\ Len(todo) > 0 /\ c = todo[1]
  OBVIOUS
<1>4. k + 1 \in 1..Len(cfg) /\ k + 1 \in 0..Len(cfg) /\ c = cfg[k + 1]
  BY <1>2, <1>3
<1>5. Len(rest) = Len(todo) - 1 /\ \A i \in 1..Len(rest) : rest[i] = todo[i + 1]
  BY <1>3
<1> HIDE DEF c, rest
<1>6. Len(rest) = Len(cfg) - (k + 1) /\ \A i \in 1..Len(rest) : rest[i] = cfg[(k + 1) + i]
  <2>1. Len(rest) = Len(cfg) - (k + 1)
    BY <1>2, <1>5
  <2>2. ASSUME NEW i \in 1..Len(rest) PROVE rest[i] = cfg[(k + 1) + i]
    <3>1. i + 1 \in 1..Len(todo) /\ k + (i + 1) = (k + 1) + i
      BY <1>2, <1>3, <1>5
    <3>2. rest[i] = todo[i + 1] /\ todo[i + 1] = cfg[k + (i + 1)]
      BY <1>2, <1>5, <3>1
    <3> QED BY <3>1, <3>2
  <2> QED BY <2>1, <2>2
<1>7. 1..(k + 1) = 1..k \cup {k + 1}
  BY <1>2
<1>8. Follows(rest, cfg, k + 1)
  BY <1>4, <1>6 DEF Follows
<1>9. c.enabled => Seen(cfg, k + 1) = Seen(cfg, k) \cup {c}
  BY <1>4, <1>7 DEF Seen
<1>10. ~c.enabled => Seen(cfg, k + 1) = Seen(cfg, k)
  BY <1>4, <1>7 DEF Seen
<1>11. ASSUME NEW d \in Seen(cfg, k) PROVE d.id # c.id
  <2>1. PICK j \in 1..k : d = cfg[j]
    BY DEF Seen
  <2>2. j \in DOMAIN cfg /\ k + 1 \in DOMAIN cfg /\ j # k + 1
    BY <1>2, <1>4
  <2> QED BY <1>1, <1>4, <2>1, <2>2
<1> QED BY <1>8, <1>9, <1>10, <1>11 DEF c, rest

LEMMA SkipStep ==
  ASSUME RegistryInv, NEW r \in R!Refreshers, R!Skip(r)
  PROVE  RegistryInv'
<1> DEFINE x == refresh[r]
           y == refresh'[r]
           cfg == R!Loaded
           c == Head(x.todo)
<1>1. CommandTypes /\ RefreshTypes /\ RefreshInv /\ ConfigFits(cfg)
  BY LoadedFits DEF RegistryInv
<1>2. /\ refresh' = [q \in R!Refreshers |-> refresh'[q]]
      /\ x.at = "visit" /\ x.naming = {} /\ x.todo # <<>> /\ ~c.enabled
      /\ IsRefresh(y) /\ y.todo = Tail(x.todo) /\ y.at = "visit" /\ y.clean = x.clean
      /\ y.naming = {} /\ y.pools = x.pools /\ y.sources = x.sources /\ y.states = x.states
      /\ \A q \in R!Refreshers \ {r} : refresh'[q] = refresh[q]
      /\ UNCHANGED <<config, db, pools, sources, states, command, current>>
  BY <1>1, SkipDoes
<1>3. x.todo \in Seq(Connections) /\ (x.clean => VisitsRight(x, db, cfg))
  BY <1>1, <1>2 DEF RefreshTypes, RefreshInv, RightFor
<1> HIDE DEF x, y, cfg
<1>4. y.todo \in Seq(Connections)
  BY <1>2, <1>3
<1>5. ASSUME x.clean PROVE VisitsRight(y, db, cfg)
  <2>1. PICK k \in Nat :
          /\ Follows(x.todo, cfg, k)
          /\ Finds(Seen(cfg, k), db, x.naming, x.pools, x.sources, x.states)
    BY <1>3, <1>5 DEF VisitsRight
  <2>2. /\ Follows(Tail(x.todo), cfg, k + 1)
        /\ ~c.enabled => Seen(cfg, k + 1) = Seen(cfg, k)
    BY <1>1, <1>2, <1>3, <2>1, NextConnection
  <2>3. Finds(Seen(cfg, k + 1), db, y.naming, y.pools, y.sources, y.states)
    BY <1>2, <2>1, <2>2
  <2>4. k + 1 \in Nat /\ Follows(y.todo, cfg, k + 1)
    BY <1>2, <2>2
  <2> QED BY <2>3, <2>4 DEF VisitsRight
<1>6. x.clean => VisitsRight(y, db, cfg)
  BY <1>5
<1> QED BY <1>2, <1>4, <1>6, VisitingStep DEF x, y, cfg

LEMMA VisitStep ==
  ASSUME RegistryInv, NEW r \in R!Refreshers, R!Visit(r)
  PROVE  RegistryInv'
<1> DEFINE x == refresh[r]
           y == refresh'[r]
           cfg == R!Loaded
           c == Head(x.todo)
<1>1. CommandTypes /\ RefreshTypes /\ RefreshInv /\ ConfigFits(cfg)
  BY LoadedFits DEF RegistryInv
<1>2. /\ refresh' = [q \in R!Refreshers |-> refresh'[q]]
      /\ x.at = "visit" /\ x.naming = {} /\ x.todo # <<>> /\ c.enabled
      /\ IsRefresh(y) /\ y.at = "visit" /\ y.clean = x.clean
      /\ y.todo = Tail(x.todo) /\ y.sources = x.sources
      /\ \A q \in R!Refreshers \ {r} : refresh'[q] = refresh[q]
      /\ UNCHANGED <<config, db, pools, sources, states, command, current>>
  BY <1>1, VisitDoes
<1>3. PICK found, connected \in BOOLEAN :
        /\ OpensIn(db, c) => found
        /\ found => connected /\ db[c.db].up
        /\ y.naming = IF found THEN TablesIn(db, c) ELSE {}
        /\ y.pools = IF connected THEN R!With(x.pools, c.id, [db |-> c.db, pw |-> c.pw]) ELSE x.pools
        /\ y.states = R!With(x.states, c.id, found)
  BY <1>1, VisitDoes
<1>4. x.todo \in Seq(Connections) /\ (x.clean => VisitsRight(x, db, cfg))
  BY <1>1, <1>2 DEF RefreshTypes, RefreshInv, RightFor
<1> HIDE DEF x, y, cfg
<1>5. y.todo \in Seq(Connections)
  BY <1>2, <1>4
<1>6. ASSUME x.clean PROVE VisitsRight(y, db, cfg)
  <2>1. PICK k \in Nat :
          /\ Follows(x.todo, cfg, k)
          /\ Finds(Seen(cfg, k), db, x.naming, x.pools, x.sources, x.states)
    BY <1>4, <1>6 DEF VisitsRight
  <2>2. /\ Follows(Tail(x.todo), cfg, k + 1)
        /\ Seen(cfg, k + 1) = Seen(cfg, k) \cup {c}
        /\ \A d \in Seen(cfg, k) : d.id # c.id
    BY <1>1, <1>2, <1>4, <2>1, NextConnection
  <2> HIDE DEF c
  <2>3. Finds(Seen(cfg, k), db, {}, x.pools, x.sources, x.states)
    BY <1>2, <2>1
  <2>4. Finds(Seen(cfg, k) \cup {c}, db, IF found THEN TablesIn(db, c) ELSE {},
              IF connected THEN R!With(x.pools, c.id, [db |-> c.db, pw |-> c.pw]) ELSE x.pools,
              x.sources, R!With(x.states, c.id, found))
    BY <1>3, <2>2, <2>3, VisitFinds
  <2>5. Finds(Seen(cfg, k + 1), db, y.naming, y.pools, y.sources, y.states)
    BY <1>2, <1>3, <2>2, <2>4
  <2>6. k + 1 \in Nat /\ Follows(y.todo, cfg, k + 1)
    BY <1>2, <2>2
  <2> QED BY <2>5, <2>6 DEF VisitsRight
<1>7. x.clean => VisitsRight(y, db, cfg)
  BY <1>6
<1> QED BY <1>2, <1>5, <1>7, VisitingStep DEF x, y, cfg

LEMMA NameStep ==
  ASSUME RegistryInv, NEW r \in R!Refreshers, R!Name(r)
  PROVE  RegistryInv'
<1> DEFINE x == refresh[r]
           y == refresh'[r]
           cfg == R!Loaded
           used == DOMAIN x.sources \cup R!FileStems
<1>1. RefreshTypes /\ RefreshInv
  BY DEF RegistryInv
<1>2. /\ refresh' = [q \in R!Refreshers |-> refresh'[q]]
      /\ x.at = "visit" /\ IsRefresh(y) /\ y.at = "visit" /\ y.clean = x.clean
      /\ y.todo = x.todo /\ y.pools = x.pools /\ y.states = x.states
      /\ \A q \in R!Refreshers \ {r} : refresh'[q] = refresh[q]
      /\ UNCHANGED <<config, db, pools, sources, states, command, current>>
  BY <1>1, NameDoes
<1>3. PICK s \in x.naming :
        /\ y.naming = x.naming \ {s}
        /\ y.sources = R!With(x.sources, R!UniqueSlug(Slug[s.table], used), s)
  BY <1>1, NameDoes
<1>4. x.todo \in Seq(Connections) /\ (x.clean => VisitsRight(x, db, cfg))
  BY <1>1, <1>2 DEF RefreshTypes, RefreshInv, RightFor
<1> HIDE DEF x, y, cfg
<1>5. ASSUME x.clean PROVE VisitsRight(y, db, cfg)
  <2> DEFINE id == R!UniqueSlug(Slug[s.table], used)
  <2>1. PICK k \in Nat :
          /\ Follows(x.todo, cfg, k)
          /\ Finds(Seen(cfg, k), db, x.naming, x.pools, x.sources, x.states)
    BY <1>4, <1>5 DEF VisitsRight
  <2>2. IsFiniteSet(DOMAIN x.sources)
    BY <2>1 DEF Finds
  <2>3. IsFiniteSet(used)
    BY <2>2, FileStemsFinite, FS_Union
  <2>4. id \notin used
    <3> HIDE DEF used
    <3> QED BY <2>3, SlugIsFree
  <2>5. id \notin DOMAIN x.sources /\ id \notin R!FileStems
    BY <2>4
  <2> HIDE DEF id
  <2>6. Finds(Seen(cfg, k), db, x.naming \ {s}, x.pools, R!With(x.sources, id, s), x.states)
    BY <2>1, <2>5, NameFinds
  <2>7. Finds(Seen(cfg, k), db, y.naming, y.pools, y.sources, y.states)
    BY <1>2, <1>3, <2>6 DEF id
  <2> QED BY <1>2, <2>1, <2>7 DEF VisitsRight
<1>6. x.clean => VisitsRight(y, db, cfg)
  BY <1>5
<1>7. y.todo \in Seq(Connections)
  BY <1>2, <1>4
<1> QED BY <1>2, <1>6, <1>7, VisitingStep DEF x, y, cfg

\* What a step leaves alone of the other refreshes when it publishes.
LEMMA OthersStay ==
  ASSUME RefreshTypes, RefreshInv, NEW r \in R!Refreshers,
         R!PublishPools(r) \/ R!PublishSources(r) \/ R!PublishStates(r)
  PROVE  \A q \in R!Refreshers \ {r} : RightFor(q)'
<1> SUFFICES ASSUME NEW q \in R!Refreshers, q # r PROVE RightFor(q)'
  OBVIOUS
<1>1. /\ refresh'[q].at = refresh[q].at
      /\ refresh[q].at # "idle" => refresh'[q].clean = FALSE
  BY PublishDoes
<1>2. CASE refresh[q].at = "idle"
  BY <1>1, <1>2 DEF RightFor
<1>3. CASE refresh[q].at # "idle"
  BY <1>1, <1>3 DEF RightFor
<1> QED BY <1>2, <1>3

LEMMA PublishTypes ==
  ASSUME RegistryInv, NEW r \in R!Refreshers, current' \in BOOLEAN,
         R!PublishPools(r) \/ R!PublishSources(r) \/ R!PublishStates(r),
         refresh'[r].at # "idle" => refresh[r].at # "idle",
         \A q \in Commands : q # r \/ refresh'[r].at # "idle" => command'[q].at = command[q].at
  PROVE  RefreshTypes'
<1>1. RefreshTypes
  BY DEF RegistryInv
<1>2. /\ refresh' = [q \in R!Refreshers |-> refresh'[q]]
      /\ \A q \in R!Refreshers \ {r} :
           /\ IsRefresh(refresh'[q]) /\ refresh'[q].clean \in BOOLEAN
           /\ refresh'[q].at = refresh[q].at /\ refresh'[q].todo = refresh[q].todo
      /\ IsRefresh(refresh'[r]) /\ refresh'[r].clean \in BOOLEAN
      /\ refresh'[r].at \in {"idle", "sources", "states"}
      /\ refresh'[r].todo \in Seq(Connections)
  BY <1>1, PublishDoes
<1>3. \A q \in R!Refreshers :
        /\ IsRefresh(refresh'[q]) /\ refresh'[q].clean \in BOOLEAN
        /\ refresh'[q].at \in RefreshAts /\ refresh'[q].todo \in Seq(Connections)
  BY <1>1, <1>2 DEF RefreshTypes, RefreshAts
<1>4. \A q \in Commands : refresh'[q].at # "idle" => command'[q].at = "refresh"
  BY <1>1, <1>2 DEF RefreshTypes, R!Refreshers
<1> QED BY <1>2, <1>3, <1>4 DEF RefreshTypes

LEMMA PublishPoolsStep ==
  ASSUME RegistryInv, NEW r \in R!Refreshers, R!PublishPools(r)
  PROVE  RegistryInv'
<1> DEFINE x == refresh[r]
           cfg == R!Loaded
<1>1. CommandTypes /\ RefreshTypes /\ RefreshInv /\ EditInv /\ ConfigFits(cfg)
  BY LoadedFits DEF RegistryInv
<1>2. /\ x.at = "visit" /\ x.naming = {} /\ x.todo = <<>> /\ pools' = x.pools
      /\ current' = FALSE /\ UNCHANGED <<config, db, sources, states, command>>
  BY DEF R!PublishPools, R!RAt
<1>3. refresh'[r] = [x EXCEPT !.at = "sources"] /\ IsRefresh(x)
  BY <1>1, PublishDoes DEF RefreshTypes
<1>4. (R!Loaded)' = cfg
  BY <1>2 DEF R!Loaded
<1>5. x.clean => VisitsRight(x, db, cfg)
  BY <1>1, <1>2 DEF RefreshInv, RightFor
<1>6. RightFor(r)'
  <2> DEFINE y == refresh'[r]
  <2>1. /\ y.at = "sources" /\ y.clean = x.clean /\ y.pools = x.pools
        /\ y.sources = x.sources /\ y.states = x.states
    BY <1>3 DEF IsRefresh, RefreshFields
  <2>2. ASSUME x.clean PROVE PublishesRight(y, db, cfg)
    <3> HIDE DEF x, y, cfg
    <3>1. PICK k \in Nat :
            /\ Follows(x.todo, cfg, k)
            /\ Finds(Seen(cfg, k), db, x.naming, x.pools, x.sources, x.states)
      BY <1>5, <2>2 DEF VisitsRight
    <3>2. Len(x.todo) = 0 /\ Len(cfg) \in Nat
      BY <1>1, <1>2 DEF ConfigFits
    <3>3. k = Len(cfg)
      BY <3>1, <3>2 DEF Follows
    <3>4. Finds(Seen(cfg, Len(cfg)), db, {}, y.pools, y.sources, y.states)
      BY <1>2, <2>1, <3>1, <3>3
    <3> QED BY <3>4 DEF PublishesRight
  <2>3. x.clean => PublishesRight(y, db, cfg)
    BY <2>2
  <2> HIDE DEF cfg
  <2> QED BY <1>2, <1>4, <2>1, <2>3 DEF RightFor
<1>7. RefreshInv'
  <2>1. \A q \in R!Refreshers \ {r} : RightFor(q)'
    BY <1>1, OthersStay
  <2> QED BY <1>2, <1>6, <2>1 DEF RefreshInv
<1>8. CommandTypes'
  BY <1>1, <1>2 DEF CommandTypes, R!Editing
<1>9. RefreshTypes'
  BY <1>2, PublishTypes
<1>10. EditInv'
  <2>1. \A p \in Commands : R!Editing(p) <=> R!Editing(p)'
    BY <1>2 DEF R!Editing
  <2> QED BY <1>1, <1>2, <2>1, EditStays
<1> QED BY <1>7, <1>8, <1>9, <1>10 DEF RegistryInv

LEMMA PublishSourcesStep ==
  ASSUME RegistryInv, NEW r \in R!Refreshers, R!PublishSources(r)
  PROVE  RegistryInv'
<1> DEFINE x == refresh[r]
           cfg == R!Loaded
<1>1. CommandTypes /\ RefreshTypes /\ RefreshInv /\ EditInv
  BY DEF RegistryInv
<1>2. /\ x.at = "sources" /\ sources' = x.sources
      /\ current' = FALSE /\ UNCHANGED <<config, db, pools, states, command>>
  BY DEF R!PublishSources, R!RAt
<1>3. refresh'[r] = [x EXCEPT !.at = "states"] /\ IsRefresh(x)
  BY <1>1, PublishDoes DEF RefreshTypes
<1>4. (R!Loaded)' = cfg
  BY <1>2 DEF R!Loaded
<1>5. x.clean => PublishesRight(x, db, cfg) /\ pools = x.pools
  BY <1>1, <1>2 DEF RefreshInv, RightFor
<1>6. RightFor(r)'
  <2> DEFINE y == refresh'[r]
  <2>1. /\ y.at = "states" /\ y.clean = x.clean /\ y.pools = x.pools
        /\ y.sources = x.sources /\ y.states = x.states
    BY <1>3 DEF IsRefresh, RefreshFields
  <2>2. x.clean => PublishesRight(y, db, cfg)
    <3> HIDE DEF x, y, cfg
    <3> QED BY <1>5, <2>1 DEF PublishesRight
  <2> HIDE DEF cfg
  <2> QED BY <1>2, <1>4, <1>5, <2>1, <2>2 DEF RightFor
<1>7. RefreshInv'
  <2>1. \A q \in R!Refreshers \ {r} : RightFor(q)'
    BY <1>1, OthersStay
  <2> QED BY <1>2, <1>6, <2>1 DEF RefreshInv
<1>8. CommandTypes'
  BY <1>1, <1>2 DEF CommandTypes, R!Editing
<1>9. RefreshTypes'
  BY <1>2, PublishTypes
<1>10. EditInv'
  <2>1. \A p \in Commands : R!Editing(p) <=> R!Editing(p)'
    BY <1>2 DEF R!Editing
  <2> QED BY <1>1, <1>2, <2>1, EditStays
<1> QED BY <1>7, <1>8, <1>9, <1>10 DEF RegistryInv

LEMMA PublishStatesStep ==
  ASSUME RegistryInv, NEW r \in R!Refreshers, R!PublishStates(r)
  PROVE  RegistryInv'
<1> DEFINE x == refresh[r]
           cfg == R!Loaded
<1>1. CommandTypes /\ RefreshTypes /\ RefreshInv /\ EditInv
  BY DEF RegistryInv
<1>2. /\ x.at = "states" /\ states' = x.states
      /\ current' = x.clean /\ UNCHANGED <<config, db, pools, sources>>
  BY DEF R!PublishStates, R!RAt
<1>3. refresh'[r].at = "idle"
  BY <1>1, PublishDoes
<1>4. (R!Loaded)' = cfg
  BY <1>2 DEF R!Loaded
<1>5. x.clean \in BOOLEAN /\ (r \in Commands => command[r].at = "refresh")
  BY <1>1, <1>2 DEF RefreshTypes
<1>6. x.clean => PublishesRight(x, db, cfg) /\ pools = x.pools /\ sources = x.sources
  BY <1>1, <1>2 DEF RefreshInv, RightFor
<1>7. current' => Finds(Seen(R!Loaded, Len(R!Loaded)), db, {}, pools, sources, states)'
  <2> HIDE DEF x, cfg
  <2>1. ASSUME current' PROVE Finds(Seen(cfg, Len(cfg)), db, {}, pools, sources, states')
    BY <1>2, <1>6, <2>1 DEF PublishesRight
  <2> QED BY <1>2, <1>4, <2>1
<1>8. RefreshInv'
  <2>1. \A q \in R!Refreshers \ {r} : RightFor(q)'
    BY <1>1, OthersStay
  <2>2. RightFor(r)'
    BY <1>3 DEF RightFor
  <2> QED BY <1>7, <2>1, <2>2 DEF RefreshInv
<1>9. /\ command' \in [Commands -> CommandRecords]
      /\ \A p \in Commands :
           /\ command'[p].request = command[p].request /\ command'[p].cfg = command[p].cfg
           /\ command'[p].overlapped = command[p].overlapped
           /\ command'[p].at = IF p = r THEN "done" ELSE command[p].at
  <2>1. CASE r \in Commands
    <3>1. r # "thread"
      BY <2>1, RegistryConstants
    <3>2. R!Ends(r, "done")
      BY <3>1 DEF R!PublishStates, R!Ends
    <3>3. "done" \in CommandAts
      BY DEF CommandAts
    <3> QED BY <1>1, <2>1, <3>2, <3>3, CommandEnds
  <2>2. CASE r \notin Commands
    <3>1. r = "thread"
      BY <2>2 DEF R!Refreshers
    <3>2. command' = command
      BY <3>1 DEF R!PublishStates
    <3> QED BY <1>1, <2>2, <3>2 DEF CommandTypes
  <2> QED BY <2>1, <2>2
<1>10. \A p \in Commands : R!Editing(p) <=> R!Editing(p)'
  BY <1>5, <1>9 DEF R!Editing
<1>11. CommandTypes'
  BY <1>1, <1>2, <1>5, <1>9, <1>10 DEF CommandTypes
<1>12. RefreshTypes'
  BY <1>2, <1>3, <1>5, <1>9, PublishTypes
<1>13. EditInv'
  BY <1>1, <1>2, <1>5, <1>9, <1>10, EditStays DEF HasSaved, R!Editing
<1> QED BY <1>8, <1>11, <1>12, <1>13 DEF RegistryInv

-----------------------------------------------------------------------------
(* The steps of a command.                                                 *)

LEMMA RequestFields ==
  ASSUME NEW q \in Requests
  PROVE  /\ q.do = "save" => q.conn \in Connections
         /\ q.do = "import" => q.table \in DOMAIN Slug
  BY DEF Requests

LEMMA CommandAsked ==
  ASSUME CommandTypes, NEW p \in Commands
  PROVE  command[p] \in CommandRecords /\ R!Asked(p) = command[p].request /\ R!Asked(p) \in Requests
  BY DEF CommandTypes, CommandRecords, R!Asked

\* A command goes on.
LEMMA TypesAfterEnds ==
  ASSUME CommandTypes, NEW p \in Commands, NEW how \in CommandAts \ {"alter", "new"}, R!Ends(p, how),
         how \in {"save", "write"} => R!Editing(p),
         config' = <<>> \/ ConfigFits(config'), db' \in [DOMAIN Databases -> DatabaseRecords]
  PROVE  CommandTypes'
<1>1. /\ command' \in [Commands -> CommandRecords]
      /\ command'[p].at = how /\ command'[p].request = command[p].request
      /\ command'[p].cfg = command[p].cfg
      /\ \A q \in Commands \ {p} : command'[q] = command[q]
  BY CommandEnds
<1>2. ASSUME NEW q \in Commands, R!Editing(q)'
      PROVE  R!Editing(q) /\ command'[q].request = command[q].request /\ command'[q].cfg = command[q].cfg
  <2>1. CASE q = p
    BY <1>1, <1>2, <2>1 DEF R!Editing
  <2>2. CASE q # p
    BY <1>1, <1>2, <2>2 DEF R!Editing
  <2> QED BY <2>1, <2>2
<1>3. \A q \in Commands : R!Editing(q)' => /\ command'[q].request.do \in {"save", "delete"}
                                          /\ ConfigFits(command'[q].cfg.old) /\ ConfigFits(command'[q].cfg.new)
  BY <1>2 DEF CommandTypes
<1>4. \A q \in Commands : command'[q].at = "alter" => command'[q].request.do = "save"
  BY <1>1 DEF CommandTypes
<1>5. \A q \in Commands : command'[q].at = "new" => ~command'[q].overlapped
  BY <1>1 DEF CommandTypes
<1> QED BY <1>1, <1>3, <1>4, <1>5 DEF CommandTypes

\* A command ends without a change.
LEMMA CommandFails ==
  ASSUME RegistryInv, NEW p \in Commands, command[p].at \in {"new", "alter"}, R!Ends(p, "failed"),
         UNCHANGED <<config, db, pools, sources, states, refresh, current>>
  PROVE  RegistryInv'
<1>1. CommandTypes /\ RefreshTypes /\ RefreshInv /\ EditInv
  BY DEF RegistryInv
<1>2. "failed" \in CommandAts
  BY DEF CommandAts
<1>3. /\ command'[p].at = "failed" /\ command'[p].request = command[p].request
      /\ command'[p].cfg = command[p].cfg /\ command'[p].overlapped = command[p].overlapped
      /\ \A q \in Commands \ {p} : command'[q] = command[q]
  BY <1>1, <1>2, CommandEnds
<1>4. CommandTypes'
  BY <1>1, <1>2, TypesAfterEnds DEF CommandTypes
<1>5. RefreshTypes'
  BY <1>1, <1>3 DEF RefreshTypes
<1>6. RefreshInv'
  <2>1. ASSUME NEW q \in R!Refreshers PROVE RightFor(q)'
    <3>1. RightFor(q)
      BY <1>1 DEF RefreshInv
    <3> QED BY <3>1, RightStays
  <2>2. current' => Finds(Seen(R!Loaded, Len(R!Loaded)), db, {}, pools, sources, states)'
    BY <1>1, CurrentStays
  <2> QED BY <2>1, <2>2 DEF RefreshInv
<1>7. EditInv'
  <2>1. CASE command[p].at = "new"
    <3>1. \A q \in Commands : R!Editing(q) <=> R!Editing(q)'
      BY <1>3, <2>1 DEF R!Editing
    <3>2. \A q \in Commands :
            /\ command'[q].request = command[q].request /\ command'[q].cfg = command[q].cfg
            /\ command'[q].overlapped = command[q].overlapped
            /\ R!Editing(q) => command'[q].at = command[q].at
            /\ command'[q].at = "unsaved" <=> command[q].at = "unsaved"
            /\ command'[q].at \in HasSaved /\ command[q].request.do = "save" => command[q].at \in HasSaved
      BY <1>3, <2>1 DEF R!Editing, HasSaved
    <3> QED BY <1>1, <3>1, <3>2, EditStays
  <2>2. CASE command[p].at = "alter"
    <3> SUFFICES ASSUME EditsAlone' PROVE /\ \A q, r \in Commands : R!Editing(q)' /\ R!Editing(r)' => q = r
                                          /\ ConfigRight'
                                          /\ \A q \in Commands : R!Editing(q)' => EditRight(q)'
      BY DEF EditInv
    <3>1. EditsAlone
      BY <1>3, <2>2 DEF EditsAlone
    <3>2. R!Editing(p)
      BY <2>2 DEF R!Editing
    <3>3. EditRight(p) /\ \A q \in Commands : R!Editing(q) => q = p
      BY <1>1, <3>1, <3>2 DEF EditInv
    <3>4. \A q \in Commands : ~R!Editing(q)'
      BY <1>3, <3>3 DEF R!Editing
    <3>5. ConfigRight
      BY <2>2, <3>3 DEF EditRight
    <3>6. KeepsEdits(config, command')
      <4>1. KeepsEdits(config, command) /\ \A id : IsDeleted(id, command) => IsDeleted(id, command')
        BY <1>3, <3>5 DEF ConfigRight, IsDeleted
      <4>2. \A q \in Commands : /\ command'[q].at \in HasSaved => command[q].at \in HasSaved
                                /\ command'[q].request = command[q].request
        BY <1>3 DEF HasSaved
      <4> QED BY <4>1, <4>2 DEF KeepsEdits
    <3>7. ConfigRight'
      BY <3>5, <3>6 DEF ConfigRight
    <3> QED BY <3>4, <3>7
  <2> QED BY <2>1, <2>2
<1> QED BY <1>4, <1>5, <1>6, <1>7 DEF RegistryInv

\* What a command makes of the config.
LEMMA EditMakes ==
  ASSUME NEW cfg, ConfigFits(cfg), NEW p \in Commands, CommandTypes,
         R!Asked(p).do \in {"save", "delete"},
         ~(R!Asked(p).do = "delete" /\ R!Asked(p).id = Default.id)
  PROVE  LET new == IF R!Asked(p).do = "save" THEN R!Saved(cfg, R!Asked(p).conn)
                    ELSE R!Deleted(cfg, R!Asked(p).id)
         IN /\ ConfigFits(new)
            /\ \A id : Has(cfg, id) => Has(new, id) \/ (R!Asked(p).do = "delete" /\ R!Asked(p).id = id)
            /\ R!Asked(p).do = "save" => Has(new, R!Asked(p).conn.id)
            /\ ~R!Alters(p, cfg, new) /\ HasPassword(cfg, db) => HasPassword(new, db)
            /\ R!Alters(p, cfg, new) =>
                 /\ R!Asked(p).do = "save"
                 /\ \A i \in DOMAIN new : new[i].id = Own => new[i].pw = R!Asked(p).conn.pw
<1> DEFINE request == R!Asked(p)
<1>1. request \in Requests
  BY CommandAsked
<1>2. CASE request.do = "save"
  <2> DEFINE new == R!Saved(cfg, request.conn)
  <2>1. request.conn \in Connections
    BY <1>1, <1>2, RequestFields
  <2>2. /\ ConfigFits(new)
        /\ \A i \in DOMAIN cfg :
             /\ i \in DOMAIN new /\ new[i].id = cfg[i].id
             /\ new[i].pw # cfg[i].pw => cfg[i].id = request.conn.id /\ new[i].pw = request.conn.pw
        /\ \A i \in DOMAIN new : i \in DOMAIN cfg \/ new[i].id # Own
        /\ Has(new, request.conn.id)
    <3> HIDE DEF request
    <3> QED BY <2>1, SavedFits
  <2>3. \A i, j \in DOMAIN cfg : cfg[i].id = cfg[j].id => i = j
    BY DEF ConfigFits
  <2> HIDE DEF new, request
  <2>4. \A id : Has(cfg, id) => Has(new, id)
    BY <2>2 DEF Has
  <2>5. R!Alters(p, cfg, new) <=> \E i \in DOMAIN cfg : cfg[i].id = Own /\ new[i].pw # cfg[i].pw
    BY <1>2 DEF R!Alters, R!Find, request
  <2>6. ~R!Alters(p, cfg, new) /\ HasPassword(cfg, db) => HasPassword(new, db)
    BY <2>2, <2>5 DEF HasPassword
  <2>7. R!Alters(p, cfg, new) => \A i \in DOMAIN new : new[i].id = Own => new[i].pw = request.conn.pw
    BY <2>2, <2>3, <2>5
  <2>8. (IF request.do = "save" THEN R!Saved(cfg, request.conn) ELSE R!Deleted(cfg, request.id)) = new
    BY <1>2 DEF new
  <2> QED BY <1>2, <2>2, <2>4, <2>6, <2>7, <2>8 DEF request
<1>3. CASE request.do = "delete"
  <2> DEFINE new == R!Deleted(cfg, request.id)
  <2>1. request.id # Own
    BY <1>3, RegistryConstants
  <2>2. /\ ConfigFits(new)
        /\ \A i \in DOMAIN cfg : cfg[i].id # request.id => \E j \in DOMAIN new : new[j] = cfg[i]
        /\ \A j \in DOMAIN new : \E i \in DOMAIN cfg : new[j] = cfg[i]
    <3> HIDE DEF request
    <3> QED BY <2>1, DeletedFits
  <2> HIDE DEF new, request
  <2>3. \A id : Has(cfg, id) => Has(new, id) \/ request.id = id
    BY <2>2 DEF Has
  <2>4. ~R!Alters(p, cfg, new)
    BY <1>3 DEF R!Alters, request
  <2>5. HasPassword(cfg, db) => HasPassword(new, db)
    BY <2>2 DEF HasPassword
  <2>6. (IF request.do = "save" THEN R!Saved(cfg, request.conn) ELSE R!Deleted(cfg, request.id)) = new
    BY <1>3 DEF new
  <2> QED BY <1>3, <2>2, <2>3, <2>4, <2>5, <2>6 DEF request
<1> QED BY <1>2, <1>3

LEMMA EditStep ==
  ASSUME RegistryInv, NEW p \in Commands, R!Edit(p)
  PROVE  RegistryInv'
<1> DEFINE cfg == R!Loaded
           request == R!Asked(p)
           new == IF request.do = "save" THEN R!Saved(cfg, request.conn)
                  ELSE R!Deleted(cfg, request.id)
           editors == {q \in Commands \ {p} : R!Editing(q)}
           mine == [at |-> IF R!Alters(p, cfg, new) THEN "alter" ELSE "save", request |-> request,
                    cfg |-> [old |-> cfg, new |-> new], overlapped |-> editors # {}]
<1>1. CommandTypes /\ RefreshTypes /\ RefreshInv /\ EditInv /\ ConfigFits(cfg)
  BY LoadedFits DEF RegistryInv
<1>2. /\ command[p].at = "new" /\ request.do \in {"save", "delete"}
      /\ UNCHANGED <<config, db, pools, sources, states, refresh, current>>
  BY DEF R!Edit, R!CAt, R!served
<1>3. CASE request.do = "delete" /\ request.id = Default.id
  <2>1. R!Ends(p, "failed")
    BY <1>3 DEF R!Edit
  <2> QED BY <1>2, <2>1, CommandFails
<1>4. CASE ~(request.do = "delete" /\ request.id = Default.id)
  <2>1. command' = [q \in Commands |->
          IF q = p THEN mine
          ELSE IF q \in editors THEN [command[q] EXCEPT !.overlapped = TRUE] ELSE command[q]]
    BY <1>4 DEF R!Edit
  <2>2. /\ ConfigFits(new)
        /\ \A id : Has(cfg, id) => Has(new, id) \/ (request.do = "delete" /\ request.id = id)
        /\ request.do = "save" => Has(new, request.conn.id)
        /\ ~R!Alters(p, cfg, new) /\ HasPassword(cfg, db) => HasPassword(new, db)
        /\ R!Alters(p, cfg, new) =>
             /\ request.do = "save"
             /\ \A i \in DOMAIN new : new[i].id = Own => new[i].pw = request.conn.pw
    <3> HIDE DEF cfg
    <3> QED BY <1>1, <1>2, <1>4, EditMakes
  <2>3. command[p] \in CommandRecords /\ request = command[p].request /\ request \in Requests
    BY <1>1, CommandAsked
  <2>4. \A q \in editors : R!Editing(q) /\ q \in Commands /\ q # p
    OBVIOUS
  <2>5. \A q \in Commands \ {p} : R!Editing(q) => q \in editors
    OBVIOUS
  <2> DEFINE how == mine.at
  <2>6. /\ mine.request = request /\ mine.cfg.old = cfg /\ mine.cfg.new = new
        /\ mine.overlapped = (editors # {}) /\ how \in {"alter", "save"}
        /\ how = "alter" <=> R!Alters(p, cfg, new)
    OBVIOUS
  <2>7. mine \in CommandRecords
    <3> HIDE DEF new, cfg, editors, request
    <3>1. cfg \in Seq(Connections) /\ new \in Seq(Connections)
      BY <1>1, <2>2 DEF ConfigFits
    <3>2. [old |-> cfg, new |-> new] \in Edits
      BY <3>1 DEF Edits
    <3> QED BY <2>3, <3>2 DEF CommandRecords, CommandAts
  <2> HIDE DEF mine, new, cfg, editors, request, how
  <2>8. /\ command'[p] = mine
        /\ \A q \in Commands \ {p} :
             /\ command'[q] \in CommandRecords
             /\ command'[q].at = command[q].at /\ command'[q].request = command[q].request
             /\ command'[q].cfg = command[q].cfg
             /\ q \notin editors => command'[q] = command[q]
    <3>1. command'[p] = mine
      BY <2>1
    <3>2. ASSUME NEW q \in Commands, q # p
          PROVE  /\ command'[q] \in CommandRecords
                 /\ command'[q].at = command[q].at /\ command'[q].request = command[q].request
                 /\ command'[q].cfg = command[q].cfg
                 /\ q \notin editors => command'[q] = command[q]
      <4>1. command[q] \in CommandRecords
        BY <1>1, CommandAsked
      <4>2. LET e == [command[q] EXCEPT !.overlapped = TRUE]
            IN e \in CommandRecords /\ e.at = command[q].at /\ e.request = command[q].request
                 /\ e.cfg = command[q].cfg
        BY <4>1 DEF CommandRecords
      <4>3. command'[q] = IF q \in editors THEN [command[q] EXCEPT !.overlapped = TRUE] ELSE command[q]
        BY <2>1, <3>2
      <4> QED BY <4>1, <4>2, <4>3
    <3> QED BY <3>1, <3>2
  <2>9. command' \in [Commands -> CommandRecords]
    <3>1. \A q \in Commands : command'[q] \in CommandRecords
      BY <2>7, <2>8
    <3>2. command' = [q \in Commands |-> command'[q]]
      BY <2>1
    <3> QED BY <3>1, <3>2
  <2>10. \A q \in Commands \ {p} : R!Editing(q)' <=> R!Editing(q)
    BY <2>8 DEF R!Editing
  <2>11. CommandTypes'
    <3>1. \A q \in Commands : R!Editing(q)' => /\ command'[q].request.do \in {"save", "delete"}
                                              /\ ConfigFits(command'[q].cfg.old)
                                              /\ ConfigFits(command'[q].cfg.new)
      <4> TAKE q \in Commands
      <4>1. CASE q = p
        BY <1>1, <1>2, <2>2, <2>6, <2>8, <4>1
      <4>2. CASE q # p
        BY <1>1, <2>8, <2>10, <4>2 DEF CommandTypes
      <4> QED BY <4>1, <4>2
    <3>2. \A q \in Commands : command'[q].at = "alter" => command'[q].request.do = "save"
      <4> TAKE q \in Commands
      <4>1. CASE q = p
        BY <2>2, <2>6, <2>8, <4>1 DEF how
      <4>2. CASE q # p
        BY <1>1, <2>8, <4>2 DEF CommandTypes
      <4> QED BY <4>1, <4>2
    <3>3. \A q \in Commands : command'[q].at = "new" => ~command'[q].overlapped
      <4> TAKE q \in Commands
      <4>1. CASE q = p
        BY <2>6, <2>8, <4>1 DEF how
      <4>2. CASE q # p
        <5>1. command[q].at = "new" => q \notin editors
          BY <2>4 DEF R!Editing
        <5> QED BY <1>1, <2>8, <4>2, <5>1 DEF CommandTypes
      <4> QED BY <4>1, <4>2
    <3> QED BY <1>1, <1>2, <2>9, <3>1, <3>2, <3>3 DEF CommandTypes
  <2>12. RefreshTypes'
    <3>1. \A q \in Commands : command[q].at = "refresh" => command'[q].at = "refresh"
      BY <1>2, <2>8
    <3> QED BY <1>1, <1>2, <3>1 DEF RefreshTypes
  <2>13. RefreshInv'
    <3>1. ASSUME NEW q \in R!Refreshers PROVE RightFor(q)'
      <4>1. RightFor(q)
        BY <1>1 DEF RefreshInv
      <4> QED BY <1>2, <4>1, RightStays
    <3>2. current' => Finds(Seen(R!Loaded, Len(R!Loaded)), db, {}, pools, sources, states)'
      BY <1>1, <1>2, CurrentStays
    <3> QED BY <3>1, <3>2 DEF RefreshInv
  <2>14. ASSUME EditsAlone'
         PROVE  /\ \A q \in Commands : R!Editing(q)' => q = p
                /\ R!Editing(p)' /\ EditRight(p)'
    <3>1. editors = {}
      <4>1. ~command'[p].overlapped
        BY <2>14 DEF EditsAlone
      <4> QED BY <2>6, <2>8, <4>1
    <3>2. /\ \A q \in Commands \ {p} : command'[q] = command[q] /\ ~R!Editing(q)
          /\ \A q \in Commands : ~R!Editing(q)
      BY <1>2, <2>5, <2>8, <3>1 DEF R!Editing
    <3>3. EditsAlone
      <4>1. ~command[p].overlapped
        BY <1>1, <1>2 DEF CommandTypes
      <4> QED BY <1>2, <2>14, <3>2, <4>1 DEF EditsAlone
    <3>4. ConfigRight /\ cfg = config
      <4>1. ConfigRight
        BY <1>1, <3>2, <3>3 DEF EditInv
      <4> QED BY <4>1 DEF ConfigRight, cfg, R!Loaded, R!Torn
    <3>5. HasPassword(cfg, db) /\ KeepsEdits(cfg, command)
      BY <3>4 DEF ConfigRight
    <3>6. \A id : IsDeleted(id, command) => IsDeleted(id, command')
      BY <2>3, <2>6, <2>8 DEF IsDeleted
    <3>7. /\ \A q \in Commands : command'[q].at \in HasSaved =>
               command[q].at \in HasSaved /\ command'[q].request = command[q].request
      BY <2>6, <2>8 DEF HasSaved, how
    <3>8. KeepsEdits(cfg, command')
      BY <3>5, <3>6, <3>7 DEF KeepsEdits
    <3>9. KeepsEdits(new, command')
      <4>1. ASSUME NEW id, Has(cfg, id) \/ IsDeleted(id, command')
            PROVE  Has(new, id) \/ IsDeleted(id, command')
        <5>1. request.do = "delete" /\ request.id = id => IsDeleted(id, command')
          BY <2>6, <2>8 DEF IsDeleted
        <5> QED BY <2>2, <4>1, <5>1
      <4> QED BY <3>8, <4>1 DEF KeepsEdits
    <3>10. how = "alter" =>
             /\ ConfigRight'
             /\ \A i \in DOMAIN new : new[i].id = Own => new[i].pw = request.conn.pw
      <4>1. ConfigRight'
        BY <1>2, <3>4, <3>8 DEF ConfigRight
      <4> QED BY <2>2, <2>6, <4>1
    <3>11. how = "save" => HasPassword(new, db')
      BY <1>2, <2>2, <2>6, <3>5
    <3>12. EditRight(p)'
      <4>1. /\ command'[p].at = how /\ command'[p].cfg.new = new
            /\ command'[p].request = request /\ how \in {"alter", "save"}
        BY <2>6, <2>8 DEF how
      <4> QED BY <2>2, <3>9, <3>10, <3>11, <4>1 DEF EditRight
    <3>13. R!Editing(p)'
      BY <2>6, <2>8 DEF R!Editing, how
    <3> QED BY <2>10, <3>2, <3>12, <3>13
  <2>15. EditInv'
    BY <2>14 DEF EditInv
  <2> QED BY <2>11, <2>12, <2>13, <2>15 DEF RegistryInv
<1> QED BY <1>3, <1>4

\* A command that goes on with all refreshes dirty, its own begun or not.
LEMMA ChangeStep ==
  ASSUME RegistryInv, NEW p \in Commands, NEW how \in CommandAts \ {"alter", "new"},
         R!Ends(p, how), command[p].at # "refresh",
         how \in {"save", "write"} => R!Editing(p),
         config' = <<>> \/ ConfigFits(config'), db' \in [DOMAIN Databases -> DatabaseRecords],
         \/ refresh' = R!Dirtied(R!Refreshers)
         \/ how = "refresh" /\ refresh' = [R!Dirtied(R!Refreshers) EXCEPT ![p].at = "load"],
         current' = FALSE, EditInv'
  PROVE  RegistryInv'
<1>1. CommandTypes /\ RefreshTypes
  BY DEF RegistryInv
<1>2. CommandTypes'
  BY <1>1, TypesAfterEnds
<1>3. command'[p].at = how /\ \A q \in Commands \ {p} : command'[q] = command[q]
  BY <1>1, CommandEnds
<1>4. /\ RefreshInv'
      /\ refresh' = [q \in R!Refreshers |-> refresh'[q]]
      /\ \A q \in R!Refreshers :
           /\ IsRefresh(refresh'[q]) /\ refresh'[q].clean \in BOOLEAN
           /\ refresh'[q].at \in {refresh[q].at} \cup (IF q = p THEN {"load"} ELSE {})
           /\ refresh'[q].todo = refresh[q].todo
      /\ refresh'[p].at = "load" => how = "refresh"
  <2>1. CASE refresh' = R!Dirtied(R!Refreshers)
    <3>1. /\ RefreshInv'
          /\ refresh' = [q \in R!Refreshers |-> refresh'[q]]
          /\ \A q \in R!Refreshers :
               /\ IsRefresh(refresh'[q]) /\ refresh'[q].clean \in BOOLEAN
               /\ refresh'[q].at = refresh[q].at /\ refresh'[q].todo = refresh[q].todo
      BY <1>1, <2>1, AllDirty
    <3>2. refresh[p].at = "idle" /\ p \in R!Refreshers
      BY <1>1 DEF RefreshTypes, R!Refreshers
    <3> QED BY <3>1, <3>2
  <2>2. CASE how = "refresh" /\ refresh' = [R!Dirtied(R!Refreshers) EXCEPT ![p].at = "load"]
    <3>1. /\ RefreshInv'
          /\ refresh' = [q \in R!Refreshers |-> refresh'[q]]
          /\ \A q \in R!Refreshers :
               /\ IsRefresh(refresh'[q]) /\ refresh'[q].clean \in BOOLEAN
               /\ refresh'[q].at = IF q = p THEN "load" ELSE refresh[q].at
               /\ refresh'[q].todo = refresh[q].todo
      BY <1>1, <2>2, AllDirtyThenLoad
    <3> QED BY <2>2, <3>1
  <2> QED BY <2>1, <2>2
<1>5. RefreshTypes'
  <2>1. \A q \in Commands \ {p} : command'[q].at = command[q].at
    BY <1>3
  <2>2. refresh'[p].at = "load" => command'[p].at = "refresh"
    BY <1>3, <1>4
  <2> QED BY <1>1, <1>4, <2>1, <2>2, TypesAfter
<1> QED BY <1>2, <1>4, <1>5 DEF RegistryInv

\* What an edit that is alone keeps as its command goes on.
LEMMA AloneEdit ==
  ASSUME RegistryInv, NEW p \in Commands, NEW how \in CommandAts, R!Ends(p, how),
         R!Editing(p), EditsAlone'
  PROVE  /\ EditRight(p)
         /\ \A q \in Commands \ {p} : ~R!Editing(q)'
         /\ command'[p].at = how /\ command'[p].request = command[p].request
         /\ command'[p].cfg = command[p].cfg
         /\ how \notin HasSaved \/ Has(command[p].cfg.new, command[p].request.conn.id)
              \/ command[p].request.do # "save" =>
              KeepsEdits(command[p].cfg.new, command')
<1>1. CommandTypes /\ EditInv
  BY DEF RegistryInv
<1>2. /\ command'[p].at = how /\ command'[p].request = command[p].request
      /\ command'[p].cfg = command[p].cfg /\ command'[p].overlapped = command[p].overlapped
      /\ \A q \in Commands \ {p} : command'[q] = command[q]
  BY <1>1, CommandEnds
<1>3. EditsAlone
  <2>1. command[p].at # "unsaved" /\ ~command[p].overlapped
    BY <1>2 DEF EditsAlone, R!Editing
  <2> QED BY <1>2, <2>1 DEF EditsAlone
<1>4. EditRight(p) /\ \A q \in Commands : R!Editing(q) => q = p
  BY <1>1, <1>3 DEF EditInv
<1>5. \A q \in Commands \ {p} : ~R!Editing(q)'
  BY <1>2, <1>4 DEF R!Editing
<1>6. ASSUME how \notin HasSaved \/ Has(command[p].cfg.new, command[p].request.conn.id)
               \/ command[p].request.do # "save"
      PROVE  KeepsEdits(command[p].cfg.new, command')
  <2>1. KeepsEdits(command[p].cfg.new, command)
    BY <1>4 DEF EditRight
  <2>2. \A id : IsDeleted(id, command) => IsDeleted(id, command')
    BY <1>2 DEF IsDeleted
  <2>3. \A q \in Commands \ {p} : command'[q] = command[q]
    BY <1>2
  <2> QED BY <1>2, <1>6, <2>1, <2>2, <2>3 DEF KeepsEdits
<1> QED BY <1>2, <1>4, <1>5, <1>6

LEMMA AlterStep ==
  ASSUME RegistryInv, NEW p \in Commands, R!Alter(p)
  PROVE  RegistryInv'
<1> DEFINE old == command[p].cfg.old[CHOOSE i \in R!Find(command[p].cfg.old, Own) : TRUE]
           pw == R!Asked(p).conn.pw
<1>1. CommandTypes
  BY DEF RegistryInv
<1>2. command[p].at = "alter" /\ R!Editing(p) /\ UNCHANGED <<config, pools, sources, states>>
  BY DEF R!Alter, R!CAt, R!served, R!Editing
<1>3. CASE R!Opens(old)
  <2>1. db' = [db EXCEPT ![Own].pw = pw] /\ R!Ends(p, "save") /\ R!Changed
    BY <1>3 DEF R!Alter
  <2>2. R!Asked(p) = command[p].request /\ pw \in Passwords
    <3>1. R!Asked(p) \in Requests /\ R!Asked(p).do = "save" /\ R!Asked(p) = command[p].request
      BY <1>1, <1>2, CommandAsked DEF CommandTypes
    <3>2. R!Asked(p).conn \in Connections
      BY <3>1, RequestFields
    <3> QED BY <3>1, <3>2 DEF Connections
  <2> HIDE DEF pw
  <2>3. db' \in [DOMAIN Databases -> DatabaseRecords] /\ db'[Own].pw = pw
    <3>1. db \in [DOMAIN Databases -> DatabaseRecords] /\ Own \in DOMAIN Databases
      BY <1>1, RegistryConstants DEF CommandTypes
    <3>2. [db[Own] EXCEPT !.pw = pw] \in DatabaseRecords /\ [db[Own] EXCEPT !.pw = pw].pw = pw
      BY <2>2, <3>1 DEF DatabaseRecords
    <3> QED BY <2>1, <3>1, <3>2
  <2>4. "save" \in CommandAts \ {"alter", "new"}
    BY DEF CommandAts
  <2>5. ASSUME EditsAlone' PROVE EditRight(p)' /\ \A q \in Commands : R!Editing(q)' => q = p
    <3>1. /\ EditRight(p)
          /\ \A q \in Commands \ {p} : ~R!Editing(q)'
          /\ command'[p].at = "save" /\ command'[p].request = command[p].request
          /\ command'[p].cfg = command[p].cfg
          /\ KeepsEdits(command[p].cfg.new, command')
      BY <1>2, <2>1, <2>4, <2>5, AloneEdit DEF HasSaved
    <3>2. \A i \in DOMAIN command[p].cfg.new :
            command[p].cfg.new[i].id = Own => command[p].cfg.new[i].pw = command[p].request.conn.pw
      BY <1>2, <3>1 DEF EditRight
    <3>3. HasPassword(command[p].cfg.new, db')
      BY <2>2, <2>3, <3>2 DEF HasPassword, pw
    <3>4. command[p].request.do = "save" => Has(command[p].cfg.new, command[p].request.conn.id)
      BY <3>1 DEF EditRight
    <3> QED BY <3>1, <3>3, <3>4 DEF EditRight
  <2>6. R!Editing(p)'
    BY <1>1, <2>1, <2>4, CommandEnds DEF R!Editing
  <2>7. EditInv'
    BY <2>5, <2>6 DEF EditInv
  <2> QED BY <1>1, <1>2, <2>1, <2>3, <2>4, <2>7, ChangeStep DEF R!Changed, CommandTypes
<1>4. CASE ~R!Opens(old)
  <2>1. R!Ends(p, "failed") /\ UNCHANGED <<db, refresh, current>>
    BY <1>4 DEF R!Alter
  <2> QED BY <1>2, <2>1, CommandFails
<1> QED BY <1>3, <1>4

LEMMA SaveStep ==
  ASSUME RegistryInv, NEW p \in Commands, R!Save(p)
  PROVE  RegistryInv'
<1>1. CommandTypes
  BY DEF RegistryInv
<1>2. /\ command[p].at = "save" /\ R!Editing(p) /\ config' = <<>> /\ R!Ends(p, "write")
      /\ R!Changed /\ db' = db
  BY DEF R!Save, R!CAt, R!Editing, R!Torn
<1>3. "write" \in CommandAts \ {"alter", "new"}
  BY DEF CommandAts
<1>4. R!Editing(p)'
  BY <1>1, <1>2, <1>3, CommandEnds DEF R!Editing
<1>5. ASSUME EditsAlone' PROVE EditRight(p)' /\ \A q \in Commands : R!Editing(q)' => q = p
  <2>1. /\ EditRight(p)
        /\ \A q \in Commands \ {p} : ~R!Editing(q)'
        /\ command'[p].at = "write" /\ command'[p].request = command[p].request
        /\ command'[p].cfg = command[p].cfg
        /\ KeepsEdits(command[p].cfg.new, command')
    BY <1>2, <1>3, <1>5, AloneEdit DEF HasSaved
  <2>2. HasPassword(command[p].cfg.new, db')
    BY <1>2, <2>1 DEF EditRight
  <2>3. command[p].request.do = "save" => Has(command[p].cfg.new, command[p].request.conn.id)
    BY <2>1 DEF EditRight
  <2> QED BY <2>1, <2>2, <2>3 DEF EditRight
<1>6. EditInv'
  BY <1>4, <1>5 DEF EditInv
<1>7. db' \in [DOMAIN Databases -> DatabaseRecords] /\ command[p].at # "refresh"
  BY <1>1, <1>2 DEF CommandTypes
<1> QED BY <1>2, <1>3, <1>6, <1>7, ChangeStep DEF R!Changed

LEMMA WriteStep ==
  ASSUME RegistryInv, NEW p \in Commands, R!Write(p)
  PROVE  RegistryInv'
<1> DEFINE new == command[p].cfg.new
<1>1. CommandTypes
  BY DEF RegistryInv
<1>2. /\ command[p].at = "write" /\ R!Editing(p) /\ config' = new /\ R!Ends(p, "reconnect")
      /\ R!Changed /\ db' = db
  BY DEF R!Write, R!CAt, R!Editing
<1>3. "reconnect" \in CommandAts \ {"alter", "new"}
  BY DEF CommandAts
<1>4. ConfigFits(new) /\ new # <<>>
  BY <1>1, <1>2 DEF CommandTypes, ConfigFits
<1>5. ASSUME EditsAlone' PROVE ConfigRight' /\ \A q \in Commands : ~R!Editing(q)'
  <2>1. R!Editing(p) /\ "reconnect" \in CommandAts
    BY <1>2, <1>3
  <2>2. /\ EditRight(p)
        /\ \A q \in Commands \ {p} : ~R!Editing(q)'
        /\ command'[p].at = "reconnect"
        /\ Has(new, command[p].request.conn.id) \/ command[p].request.do # "save" =>
             KeepsEdits(new, command')
    BY <1>2, <1>5, <2>1, AloneEdit
  <2>3. KeepsEdits(new, command') /\ HasPassword(new, db')
    BY <1>2, <2>2 DEF EditRight
  <2>4. ~R!Editing(p)'
    BY <2>2 DEF R!Editing
  <2>5. ConfigRight'
    <3> HIDE DEF new
    <3> QED BY <1>2, <1>4, <2>3 DEF ConfigRight
  <2> QED BY <2>2, <2>4, <2>5
<1>6. EditInv'
  BY <1>5 DEF EditInv
<1>7. db' \in [DOMAIN Databases -> DatabaseRecords] /\ command[p].at # "refresh"
  BY <1>1, <1>2 DEF CommandTypes
<1> QED BY <1>2, <1>3, <1>4, <1>6, <1>7, ChangeStep DEF R!Changed

\* Steps of a command that edits nothing.
LEMMA EditsStay ==
  ASSUME RegistryInv, NEW p \in Commands, NEW how \in {"refresh", "unsaved"}, R!Ends(p, how),
         ~R!Editing(p) \/ how = "unsaved", command[p].at # "unsaved",
         command[p].at \in HasSaved \/ command[p].request.do # "save" \/ how = "unsaved",
         config' = config, db'[Own].pw = db[Own].pw
  PROVE  EditInv'
<1>1. CommandTypes /\ EditInv /\ how \in CommandAts
  BY DEF RegistryInv, CommandAts
<1>2. /\ command'[p].at = how /\ command'[p].request = command[p].request
      /\ command'[p].cfg = command[p].cfg /\ command'[p].overlapped = command[p].overlapped
      /\ \A q \in Commands \ {p} : command'[q] = command[q]
  BY <1>1, CommandEnds
<1>3. CASE how = "unsaved"
  <2>1. ~EditsAlone'
    BY <1>2, <1>3 DEF EditsAlone
  <2> QED BY <2>1 DEF EditInv
<1>4. CASE how = "refresh"
  <2>1. \A q \in Commands : R!Editing(q) <=> R!Editing(q)'
    BY <1>2, <1>4 DEF R!Editing
  <2>2. \A q \in Commands :
          /\ command'[q].request = command[q].request /\ command'[q].cfg = command[q].cfg
          /\ command'[q].overlapped = command[q].overlapped
          /\ R!Editing(q) => command'[q].at = command[q].at
          /\ command'[q].at = "unsaved" <=> command[q].at = "unsaved"
          /\ command'[q].at \in HasSaved /\ command[q].request.do = "save" => command[q].at \in HasSaved
    <3> TAKE q \in Commands
    <3>1. CASE q = p
      BY <1>2, <1>4, <3>1
    <3>2. CASE q # p
      BY <1>2, <3>2
    <3> QED BY <3>1, <3>2
  <2> QED BY <1>1, <2>1, <2>2, EditStays
<1> QED BY <1>3, <1>4

LEMMA SaveFailsStep ==
  ASSUME RegistryInv, NEW p \in Commands, R!SaveFails(p)
  PROVE  RegistryInv'
<1>1. CommandTypes /\ RefreshTypes /\ RefreshInv
  BY DEF RegistryInv
<1>2. /\ command[p].at = "save" /\ R!Ends(p, "unsaved")
      /\ UNCHANGED <<config, db, pools, sources, states, refresh, current>>
  BY DEF R!SaveFails, R!CAt, R!served
<1>3. "unsaved" \in CommandAts
  BY DEF CommandAts
<1>4. CommandTypes'
  BY <1>1, <1>2, <1>3, TypesAfterEnds DEF CommandTypes
<1>5. RefreshTypes'
  <2>1. \A q \in Commands \ {p} : command'[q] = command[q]
    BY <1>1, <1>2, <1>3, CommandEnds
  <2> QED BY <1>1, <1>2, <2>1 DEF RefreshTypes
<1>6. RefreshInv'
  <2>1. ASSUME NEW q \in R!Refreshers PROVE RightFor(q)'
    <3>1. RightFor(q)
      BY <1>1 DEF RefreshInv
    <3> QED BY <1>2, <3>1, RightStays
  <2>2. current' => Finds(Seen(R!Loaded, Len(R!Loaded)), db, {}, pools, sources, states)'
    BY <1>1, <1>2, CurrentStays
  <2> QED BY <2>1, <2>2 DEF RefreshInv
<1>7. EditInv'
  BY <1>2, EditsStay
<1> QED BY <1>4, <1>5, <1>6, <1>7 DEF RegistryInv

LEMMA ReconnectStep ==
  ASSUME RegistryInv, NEW p \in Commands, R!Reconnect(p)
  PROVE  RegistryInv'
<1>1. CommandTypes
  BY DEF RegistryInv
<1>2. /\ command[p].at = "reconnect" /\ ~R!Editing(p) /\ R!Ends(p, "refresh")
      /\ refresh' = [R!Dirtied(R!Refreshers) EXCEPT ![p].at = "load"] /\ current' = FALSE
      /\ UNCHANGED <<config, db>>
  BY DEF R!Reconnect, R!CAt, R!Editing
<1>3. EditInv'
  BY <1>2, EditsStay DEF HasSaved
<1>4. "refresh" \in CommandAts \ {"alter", "new"}
  BY DEF CommandAts
<1> QED BY <1>1, <1>2, <1>3, <1>4, ChangeStep DEF CommandTypes

LEMMA TablesChange ==
  ASSUME CommandTypes, NEW d \in DOMAIN Databases, NEW ts \in SUBSET DOMAIN Slug,
         db' = [db EXCEPT ![d].tables = ts]
  PROVE  db' \in [DOMAIN Databases -> DatabaseRecords] /\ db'[Own].pw = db[Own].pw
<1>1. db \in [DOMAIN Databases -> DatabaseRecords] /\ Own \in DOMAIN Databases
  BY RegistryConstants DEF CommandTypes
<1>2. [db[d] EXCEPT !.tables = ts] \in DatabaseRecords /\ [db[d] EXCEPT !.tables = ts].pw = db[d].pw
  BY <1>1 DEF DatabaseRecords
<1> QED BY <1>1, <1>2

LEMMA TablesStep ==
  ASSUME RegistryInv, NEW p \in Commands, command[p].at = "new", command[p].request.do # "save",
         NEW d \in DOMAIN Databases, NEW ts \in SUBSET DOMAIN Slug,
         db' = [db EXCEPT ![d].tables = ts], R!Ends(p, "refresh"),
         refresh' = [R!Dirtied(R!Refreshers) EXCEPT ![p].at = "load"], current' = FALSE,
         config' = config
  PROVE  RegistryInv'
<1>1. CommandTypes
  BY DEF RegistryInv
<1>2. db' \in [DOMAIN Databases -> DatabaseRecords] /\ db'[Own].pw = db[Own].pw
  BY <1>1, TablesChange
<1>3. ~R!Editing(p)
  BY DEF R!Editing
<1>4. EditInv'
  BY <1>2, <1>3, EditsStay
<1>5. "refresh" \in CommandAts \ {"alter", "new"}
  BY DEF CommandAts
<1> QED BY <1>1, <1>2, <1>4, <1>5, ChangeStep DEF CommandTypes

LEMMA ImportStep ==
  ASSUME RegistryInv, NEW p \in Commands, R!Import(p)
  PROVE  RegistryInv'
<1> DEFINE cfg == R!Loaded
           ids == R!Find(cfg, R!Asked(p).id) \cup
                    (IF R!Find(cfg, R!Asked(p).id) = {} THEN R!Find(cfg, Own) ELSE {})
           c == cfg[CHOOSE i \in ids : TRUE]
           table == R!Asked(p).table
<1>1. CommandTypes /\ ConfigFits(cfg)
  BY LoadedFits DEF RegistryInv
<1>2. command[p].at = "new" /\ R!Asked(p).do = "import" /\ UNCHANGED <<config, pools, sources, states>>
  BY DEF R!Import, R!CAt, R!served
<1>3. CASE R!Opens(c)
  <2>1. /\ db' = [db EXCEPT ![c.db].tables = db[c.db].tables \cup {table}] /\ R!Ends(p, "refresh")
        /\ refresh' = [R!Dirtied(R!Refreshers) EXCEPT ![p].at = "load"] /\ current' = FALSE
    BY <1>3 DEF R!Import
  <2>2. R!Asked(p) = command[p].request /\ table \in DOMAIN Slug
    BY <1>1, <1>2, CommandAsked, RequestFields
  <2>3. c.db \in DOMAIN Databases
    <3>1. ids # {} /\ ids \subseteq DOMAIN cfg
      BY <1>1 DEF R!Find, ConfigFits
    <3> HIDE DEF ids
    <3>2. c \in Connections
      <4>1. (CHOOSE i \in ids : TRUE) \in DOMAIN cfg
        BY <3>1
      <4> QED BY <1>1, <4>1 DEF ConfigFits
    <3> HIDE DEF c
    <3> QED BY <3>2 DEF Connections
  <2> HIDE DEF c, table
  <2>4. db[c.db].tables \cup {table} \in SUBSET DOMAIN Slug
    BY <1>1, <2>2, <2>3 DEF CommandTypes, DatabaseRecords
  <2> DEFINE ts == db[c.db].tables \cup {table}
  <2>5. ts \in SUBSET DOMAIN Slug /\ db' = [db EXCEPT ![c.db].tables = ts]
    BY <2>1, <2>4
  <2> HIDE DEF ts
  <2> QED BY <1>2, <2>1, <2>2, <2>3, <2>5, TablesStep
<1>4. CASE ~R!Opens(c)
  <2>1. R!Ends(p, "failed") /\ UNCHANGED <<db, refresh, current>>
    BY <1>4 DEF R!Import
  <2> QED BY <1>2, <2>1, CommandFails
<1> QED BY <1>3, <1>4

LEMMA DropStep ==
  ASSUME RegistryInv, NEW p \in Commands, R!Drop(p)
  PROVE  RegistryInv'
<1> DEFINE cfg == R!Loaded
           s == sources[R!Asked(p).source]
           c == cfg[CHOOSE i \in R!Find(cfg, s.conn) : TRUE]
           found == /\ R!Asked(p).source \in DOMAIN sources
                    /\ \E i \in R!Find(cfg, s.conn) : R!Opens(cfg[i])
<1>1. CommandTypes /\ ConfigFits(cfg)
  BY LoadedFits DEF RegistryInv
<1>2. command[p].at = "new" /\ R!Asked(p).do = "drop" /\ UNCHANGED <<config, pools, sources, states>>
  BY DEF R!Drop, R!CAt, R!served
<1>3. CASE found
  <2>1. /\ db' = [db EXCEPT ![c.db].tables = db[c.db].tables \ {s.table}] /\ R!Ends(p, "refresh")
        /\ refresh' = [R!Dirtied(R!Refreshers) EXCEPT ![p].at = "load"] /\ current' = FALSE
    BY <1>3 DEF R!Drop
  <2>2. R!Asked(p) = command[p].request
    BY <1>1, CommandAsked
  <2>3. c.db \in DOMAIN Databases
    <3>1. (CHOOSE i \in R!Find(cfg, s.conn) : TRUE) \in DOMAIN cfg
      BY <1>3 DEF R!Find
    <3>2. c \in Connections
      BY <1>1, <3>1 DEF ConfigFits
    <3> HIDE DEF c
    <3> QED BY <3>2 DEF Connections
  <2> HIDE DEF c, s
  <2>4. db[c.db].tables \ {s.table} \in SUBSET DOMAIN Slug
    BY <1>1, <2>3 DEF CommandTypes, DatabaseRecords
  <2> DEFINE ts == db[c.db].tables \ {s.table}
  <2>5. ts \in SUBSET DOMAIN Slug /\ db' = [db EXCEPT ![c.db].tables = ts]
    BY <2>1, <2>4
  <2> HIDE DEF ts
  <2> QED BY <1>2, <2>1, <2>2, <2>3, <2>5, TablesStep
<1>4. CASE ~found
  <2>1. R!Ends(p, "failed") /\ UNCHANGED <<db, refresh, current>>
    BY <1>4 DEF R!Drop
  <2> QED BY <1>2, <2>1, CommandFails
<1> QED BY <1>3, <1>4

LEMMA FlipStep ==
  ASSUME RegistryInv, NEW d \in DOMAIN db, R!Flip(d)
  PROVE  RegistryInv'
<1>1. CommandTypes /\ RefreshTypes /\ EditInv
  BY DEF RegistryInv
<1>2. /\ refresh' = R!Dirtied(R!Refreshers) /\ current' = FALSE
      /\ UNCHANGED <<config, pools, sources, states, command>>
  BY DEF R!Flip, R!Changed, R!served
<1>3. db' \in [DOMAIN Databases -> DatabaseRecords] /\ db'[Own].pw = db[Own].pw
  <2> DEFINE up == ~db[d].up
  <2>1. db' = [db EXCEPT ![d].up = up]
    BY DEF R!Flip
  <2>2. up \in BOOLEAN
    OBVIOUS
  <2> HIDE DEF up
  <2>3. db \in [DOMAIN Databases -> DatabaseRecords] /\ Own \in DOMAIN Databases
    BY <1>1, RegistryConstants DEF CommandTypes
  <2>4. d \in DOMAIN Databases
    BY <2>3
  <2>5. [db[d] EXCEPT !.up = up] \in DatabaseRecords /\ [db[d] EXCEPT !.up = up].pw = db[d].pw
    BY <2>2, <2>3, <2>4 DEF DatabaseRecords
  <2> QED BY <2>1, <2>3, <2>4, <2>5
<1>4. /\ RefreshInv'
      /\ refresh' = [q \in R!Refreshers |-> refresh'[q]]
      /\ \A q \in R!Refreshers :
           /\ IsRefresh(refresh'[q]) /\ refresh'[q].clean \in BOOLEAN
           /\ refresh'[q].at = refresh[q].at /\ refresh'[q].todo = refresh[q].todo
  BY <1>1, <1>2, AllDirty
<1>5. CommandTypes'
  BY <1>1, <1>2, <1>3 DEF CommandTypes, R!Editing
<1>6. RefreshTypes'
  BY <1>1, <1>2, <1>4 DEF RefreshTypes
<1>7. EditInv'
  <2>1. \A q \in Commands : R!Editing(q) <=> R!Editing(q)'
    BY <1>2 DEF R!Editing
  <2> QED BY <1>1, <1>2, <1>3, <2>1, EditStays
<1> QED BY <1>4, <1>5, <1>6, <1>7 DEF RegistryInv

LEMMA RegistryStays ==
  ASSUME RegistryInv, UNCHANGED registryVars
  PROVE  RegistryInv'
<1>1. CommandTypes /\ RefreshTypes /\ RefreshInv /\ EditInv
  BY DEF RegistryInv
<1>2. UNCHANGED <<config, db, pools, sources, states, refresh, command, current>>
  BY DEF registryVars
<1>3. CommandTypes' /\ RefreshTypes'
  BY <1>1, <1>2 DEF CommandTypes, RefreshTypes, R!Editing
<1>4. RefreshInv'
  <2>1. ASSUME NEW q \in R!Refreshers PROVE RightFor(q)'
    <3>1. RightFor(q)
      BY <1>1 DEF RefreshInv
    <3> QED BY <1>2, <3>1, RightStays
  <2>2. current' => Finds(Seen(R!Loaded, Len(R!Loaded)), db, {}, pools, sources, states)'
    BY <1>1, <1>2, CurrentStays
  <2> QED BY <2>1, <2>2 DEF RefreshInv
<1>5. EditInv'
  <2>1. \A q \in Commands : R!Editing(q) <=> R!Editing(q)'
    BY <1>2 DEF R!Editing
  <2> QED BY <1>1, <1>2, <2>1, EditStays
<1> QED BY <1>3, <1>4, <1>5 DEF RegistryInv

LEMMA RegistryStep ==
  ASSUME RegistryInv, [R!Next]_registryVars
  PROVE  RegistryInv'
<1>1. CASE UNCHANGED registryVars
  BY <1>1, RegistryStays
<1>2. ASSUME NEW r \in R!Refreshers, R!Refresh(r) PROVE RegistryInv'
  <2>1. CASE R!Load(r)
    BY <2>1, LoadStep
  <2>2. CASE R!Skip(r)
    BY <2>2, SkipStep
  <2>3. CASE R!Visit(r)
    BY <2>3, VisitStep
  <2>4. CASE R!Name(r)
    BY <2>4, NameStep
  <2>5. CASE R!PublishPools(r)
    BY <2>5, PublishPoolsStep
  <2>6. CASE R!PublishSources(r)
    BY <2>6, PublishSourcesStep
  <2>7. CASE R!PublishStates(r)
    BY <2>7, PublishStatesStep
  <2> QED BY <1>2, <2>1, <2>2, <2>3, <2>4, <2>5, <2>6, <2>7 DEF R!Refresh
<1>3. ASSUME NEW p \in Commands, R!Run(p) PROVE RegistryInv'
  <2>1. CASE R!Edit(p)
    BY <2>1, EditStep
  <2>2. CASE R!Alter(p)
    BY <2>2, AlterStep
  <2>3. CASE R!Save(p)
    BY <2>3, SaveStep
  <2>4. CASE R!Write(p)
    BY <2>4, WriteStep
  <2>5. CASE R!SaveFails(p)
    BY <2>5, SaveFailsStep
  <2>6. CASE R!Reconnect(p)
    BY <2>6, ReconnectStep
  <2>7. CASE R!Import(p)
    BY <2>7, ImportStep
  <2>8. CASE R!Drop(p)
    BY <2>8, DropStep
  <2> QED BY <1>3, <2>1, <2>2, <2>3, <2>4, <2>5, <2>6, <2>7, <2>8 DEF R!Run
<1>4. ASSUME NEW d \in DOMAIN db, R!Flip(d) PROVE RegistryInv'
  BY <1>4, FlipStep
<1> QED BY <1>1, <1>2, <1>3, <1>4 DEF R!Next

\* The invariant says what the registry promises.
LEMMA RegistrySafe ==
  ASSUME RegistryInv
  PROVE  R!RefreshShowsAll /\ R!EditsKept
<1>1. CommandTypes /\ RefreshInv /\ EditInv
  BY DEF RegistryInv
<1>2. R!RefreshShowsAll
  <2>1. R!Loaded \in Seq(Connections)
    BY <1>1, LoadedFits DEF ConfigFits
  <2> SUFFICES ASSUME current PROVE R!Shows
    BY DEF R!RefreshShowsAll
  <2>2. Finds(Seen(R!Loaded, Len(R!Loaded)), db, {}, pools, sources, states)
    BY <1>1 DEF RefreshInv
  <2> QED BY <2>1, <2>2, FindsAll
<1>3. R!EditsKept
  <2> SUFFICES ASSUME \A p \in Commands :
                        ~command[p].overlapped /\ ~R!Editing(p) /\ command[p].at # "unsaved"
               PROVE  /\ \A i \in R!Find(config, Own) : config[i].pw = db[config[i].db].pw
                      /\ \A c \in {InitialConfig[i] : i \in DOMAIN InitialConfig} :
                           R!Find(config, c.id) = {} =>
                             \E p \in Commands : R!Asked(p).do = "delete" /\ R!Asked(p).id = c.id
                      /\ \A p \in Commands :
                           command[p].at \in {"reconnect", "refresh", "done"} /\ R!Asked(p).do = "save" =>
                             R!Find(config, R!Asked(p).conn.id) # {}
                               \/ \E q \in Commands :
                                    R!Asked(q).do = "delete" /\ R!Asked(q).id = R!Asked(p).conn.id
    BY DEF R!EditsKept
  <2>1. config # <<>> /\ HasPassword(config, db) /\ KeepsEdits(config, command)
    BY <1>1 DEF EditInv, EditsAlone, ConfigRight
  <2>2. \A id : Has(config, id) <=> R!Find(config, id) # {}
    BY DEF Has, R!Find
  <2>3. \A id : IsDeleted(id, command) <=>
                  \E p \in Commands : R!Asked(p).do = "delete" /\ R!Asked(p).id = id
    BY DEF IsDeleted, R!Asked
  <2>4. \A i \in R!Find(config, Own) : config[i].pw = db[config[i].db].pw
    <3>1. \A i \in DOMAIN config : config[i].id = Own => config[i].db = Own
      BY <1>1, <2>1 DEF CommandTypes, ConfigFits
    <3> QED BY <2>1, <3>1 DEF HasPassword, R!Find
  <2>5. \A i \in DOMAIN InitialConfig :
          R!Find(config, InitialConfig[i].id) = {} =>
            \E p \in Commands : R!Asked(p).do = "delete" /\ R!Asked(p).id = InitialConfig[i].id
    BY <2>1, <2>2, <2>3 DEF KeepsEdits
  <2>6. ASSUME NEW p \in Commands, command[p].at \in {"reconnect", "refresh", "done"},
               R!Asked(p).do = "save"
        PROVE  R!Find(config, R!Asked(p).conn.id) # {}
                 \/ \E q \in Commands :
                      R!Asked(q).do = "delete" /\ R!Asked(q).id = R!Asked(p).conn.id
    <3>1. R!Asked(p) = command[p].request
      BY DEF R!Asked
    <3> QED BY <2>1, <2>2, <2>3, <2>6, <3>1 DEF KeepsEdits, HasSaved
  <2> QED BY <2>4, <2>5, <2>6
<1> QED BY <1>2, <1>3

-----------------------------------------------------------------------------
(* PgEmbed.                                                                *)

Ats == {"idle", "initdb", "bootstrap", "configure", "append", "start", "sentinel", "exists",
        "createdb", "extension"}

Initialises(c) == caller[c].at \in {"initdb", "bootstrap"}
Configures(c) == caller[c].at \in {"configure", "append"}
Changes(c) == caller[c].at \in {"exists", "createdb", "extension"}

EmbedTypes ==
  caller \in [Callers -> [at : Ats, body : SUBSET {"base", "ours"}]]

\* While no two processes set the cluster up at once: the one that does is alone,
\* and knows the configuration; a directory is only initialised before anybody
\* starts it, and started after it is configured.
OneSetsUp ==
  /\ \A c, d \in Callers : E!Setting(c) /\ E!Setting(d) => c = d
  /\ \A c \in Callers : Initialises(c) =>
       port # "ours" /\ \A d \in Callers : caller[d].at # "start"
  /\ \A c \in Callers : Configures(c) => "version" \in data
  /\ \A c \in Callers : caller[c].at = "append" => caller[c].body = E!Conf
  /\ \A c \in Callers : caller[c].at = "start" => {"version", "ours"} \subseteq data
  /\ "whole" \in data => "base" \in data
  /\ port = "ours" => {"version", "base", "ours", "whole"} \subseteq data

EmbedInv ==
  /\ EmbedTypes
  /\ ~raced => OneSetsUp
  /\ \A c \in Callers : Changes(c) /\ port = "foreign" => taken
  /\ "foreign" \in changed => taken

LEMMA EmbedInit == E!Init => EmbedInv
  BY DEF E!Init, EmbedInv, EmbedTypes, OneSetsUp, Ats, E!Setting, Initialises, Configures, Changes

\* Of a finite set with one element at most, two elements are the same.
LEMMA AtMostOne ==
  ASSUME NEW Those, IsFiniteSet(Those), ~(Cardinality(Those) > 1), NEW c \in Those, NEW d \in Those
  PROVE  c = d
<1>1. SUFFICES ASSUME c # d PROVE FALSE
  OBVIOUS
<1>2. IsFiniteSet({c}) /\ Cardinality({c}) = 1
  BY FS_Singleton
<1>3. IsFiniteSet({c} \cup {d}) /\ Cardinality({c} \cup {d}) = 2
  <2> DEFINE one == {c}
  <2>1. IsFiniteSet(one) /\ Cardinality(one) = 1 /\ d \notin one
    BY <1>1, <1>2
  <2> HIDE DEF one
  <2>2. IsFiniteSet(one \cup {d}) /\ Cardinality(one \cup {d}) = Cardinality(one) + 1
    BY <2>1, FS_AddElement, SMTT(30)
  <2> QED BY <2>1, <2>2 DEF one
<1>4. Cardinality({c} \cup {d}) <= Cardinality(Those)
  BY FS_Subset
<1>5. Cardinality(Those) \in Nat
  BY FS_CardinalityType
<1> QED BY <1>3, <1>4, <1>5

\* What it means that a caller goes on.
LEMMA CallerGoes ==
  ASSUME EmbedTypes, NEW c \in Callers, NEW at \in Ats, E!Goes(c, at)
  PROVE  /\ EmbedTypes' /\ caller'[c].at = at /\ caller'[c].body = caller[c].body
         /\ \A d \in Callers \ {c} : caller'[d] = caller[d]
  BY DEF EmbedTypes, E!Goes

LEMMA EmbedStep ==
  ASSUME EmbedInv, [E!Next]_embedVars
  PROVE  EmbedInv'
<1>t. EmbedTypes
  BY DEF EmbedInv
<1>1. ASSUME NEW c \in Callers, E!Begin(c) PROVE EmbedInv'
  <2>1. PICK at \in {"sentinel", "configure", "idle", "initdb"} :
          /\ E!Goes(c, at)
          /\ at = "sentinel" => port # "none"
          /\ at = "configure" => "version" \in data
          /\ at = "initdb" => data = {}
          /\ at # "sentinel" => port = "none"
    BY <1>1 DEF E!Begin, E!Listening
  <2>2. /\ UNCHANGED <<data, port, database, changed, taken, kills, stops>> /\ caller[c].at = "idle"
        /\ raced' = (raced \/ Cardinality({d \in Callers : E!Setting(d)'}) > 1)
    BY <1>1 DEF E!Begin, E!At, E!Race, E!Setting, E!Cardinality, Cardinality
  <2>3. /\ EmbedTypes' /\ caller'[c].at = at
        /\ \A d \in Callers \ {c} : caller'[d] = caller[d]
    BY <1>t, <2>1, CallerGoes DEF Ats
  <2>4. ASSUME ~raced' PROVE OneSetsUp'
    <3>1. ~raced /\ ~(Cardinality({d \in Callers : E!Setting(d)'}) > 1)
      BY <2>2, <2>4
    <3>2. IsFiniteSet({d \in Callers : E!Setting(d)'})
      BY EmbedAssumption, FS_Subset
    <3>3. \A d, e \in Callers : E!Setting(d)' /\ E!Setting(e)' => d = e
      <4> DEFINE Those == {d \in Callers : E!Setting(d)'}
      <4> HIDE DEF Those
      <4>1. \A d, e \in Those : d = e
        BY <3>1, <3>2, AtMostOne DEF Those
      <4> QED BY <4>1 DEF Those
    <3>4. OneSetsUp
      BY <3>1 DEF EmbedInv
    <3> QED BY <2>1, <2>2, <2>3, <3>3, <3>4 DEF OneSetsUp, Initialises, Configures, E!Conf, E!Setting
  <2>5. /\ \A d \in Callers : Changes(d)' /\ port' = "foreign" => taken'
        /\ "foreign" \in changed' => taken'
    BY <2>1, <2>2, <2>3 DEF EmbedInv, Changes
  <2> QED BY <2>3, <2>4, <2>5 DEF EmbedInv
<1>2. ASSUME NEW c \in Callers, E!Initdb(c) PROVE EmbedInv'
  <2>1. PICK at \in {"bootstrap", "idle"} :
          /\ E!Goes(c, at)
          /\ at = "bootstrap" => data = {} /\ data' = {"junk"}
          /\ at = "idle" => data' = data
    BY <1>2 DEF E!Initdb
  <2>2. /\ UNCHANGED <<port, database, changed, taken, raced, kills, stops>> /\ caller[c].at = "initdb"
    BY <1>2 DEF E!Initdb, E!At
  <2>3. /\ EmbedTypes' /\ caller'[c].at = at
        /\ \A d \in Callers \ {c} : caller'[d] = caller[d]
    BY <1>t, <2>1, CallerGoes DEF Ats
  <2>4. ASSUME ~raced' PROVE OneSetsUp'
    BY <2>1, <2>2, <2>3, <2>4 DEF EmbedInv, OneSetsUp, Initialises, Configures, E!Conf, E!Setting
  <2> QED BY <2>1, <2>2, <2>3, <2>4 DEF EmbedInv, Changes
<1>3. ASSUME NEW c \in Callers, E!Bootstrap(c) PROVE EmbedInv'
  <2>1. PICK at \in {"bootstrap", "configure"} :
          /\ at = "bootstrap" => caller' = caller
          /\ at = "configure" => /\ E!Goes(c, at) /\ "version" \in data /\ "base" \in data
                                 /\ data' = data \cup {"whole"}
          /\ at = "bootstrap" => data' \in {data \cup {"version"}, (data \ {"ours"}) \cup {"base"}}
    BY <1>3 DEF E!Bootstrap
  <2>2. /\ UNCHANGED <<port, database, changed, taken, raced, kills, stops>> /\ caller[c].at = "bootstrap"
    BY <1>3 DEF E!Bootstrap, E!At
  <2>3. /\ EmbedTypes' /\ caller'[c].at = at
        /\ \A d \in Callers \ {c} : caller'[d] = caller[d]
    <3>1. CASE at = "bootstrap"
      BY <1>t, <2>1, <2>2, <3>1 DEF EmbedTypes
    <3>2. CASE at = "configure"
      BY <1>t, <2>1, <3>2, CallerGoes DEF Ats
    <3> QED BY <3>1, <3>2
  <2>4. ASSUME ~raced' PROVE OneSetsUp'
    BY <2>1, <2>2, <2>3, <2>4 DEF EmbedInv, OneSetsUp, Initialises, Configures, E!Conf, E!Setting
  <2> QED BY <2>1, <2>2, <2>3, <2>4 DEF EmbedInv, Changes
<1>4. ASSUME NEW c \in Callers, E!InitdbFails(c) PROVE EmbedInv'
  <2>1. E!Goes(c, "idle") /\ data' = {} /\ caller[c].at = "bootstrap"
        /\ UNCHANGED <<port, database, changed, taken, raced, kills>>
    BY <1>4 DEF E!InitdbFails, E!At
  <2>3. /\ EmbedTypes' /\ caller'[c].at = "idle"
        /\ \A d \in Callers \ {c} : caller'[d] = caller[d]
    BY <1>t, <2>1, CallerGoes DEF Ats
  <2>4. ASSUME ~raced' PROVE OneSetsUp'
    BY <2>1, <2>3, <2>4 DEF EmbedInv, OneSetsUp, Initialises, Configures, E!Conf, E!Setting
  <2> QED BY <2>1, <2>3, <2>4 DEF EmbedInv, Changes
<1>5. ASSUME NEW c \in Callers, E!Configure(c) PROVE EmbedInv'
  <2> DEFINE next == IF "ours" \notin E!Conf THEN [at |-> "append", body |-> E!Conf]
                     ELSE [at |-> "start", body |-> {}]
  <2>1. /\ UNCHANGED <<data, port, database, changed, taken, raced, kills, stops>>
        /\ caller[c].at = "configure" /\ caller' = [caller EXCEPT ![c] = next]
    BY <1>5 DEF E!Configure, E!At
  <2>2. /\ next \in [at : Ats, body : SUBSET {"base", "ours"}]
        /\ next.at = "append" => next.body = E!Conf
        /\ next.at = "start" => "ours" \in data
        /\ next.at \in {"append", "start"}
    BY DEF Ats, E!Conf
  <2> HIDE DEF next
  <2>3. /\ EmbedTypes' /\ caller'[c] = next
        /\ \A d \in Callers \ {c} : caller'[d] = caller[d]
    BY <1>t, <2>1, <2>2 DEF EmbedTypes
  <2>4. ASSUME ~raced' PROVE OneSetsUp'
    BY <2>1, <2>2, <2>3, <2>4 DEF EmbedInv, OneSetsUp, Initialises, Configures, E!Conf, E!Setting
  <2> QED BY <2>1, <2>2, <2>3, <2>4 DEF EmbedInv, Changes
<1>6. ASSUME NEW c \in Callers, E!WriteConf(c) PROVE EmbedInv'
  <2> DEFINE next == [at |-> IF data = {} THEN "idle" ELSE "start", body |-> {}]
  <2>1. /\ UNCHANGED <<port, database, changed, taken, raced, kills, stops>>
        /\ caller[c].at = "append" /\ caller' = [caller EXCEPT ![c] = next]
        /\ data' = IF data = {} THEN {} ELSE (data \ E!Conf) \cup caller[c].body \cup {"ours"}
    BY <1>6 DEF E!WriteConf, E!At, E!Configured
  <2>2. /\ next \in [at : Ats, body : SUBSET {"base", "ours"}]
        /\ next.at \in {"idle", "start"} /\ (next.at = "start" => data # {})
    BY DEF Ats
  <2> HIDE DEF next
  <2>3. /\ EmbedTypes' /\ caller'[c] = next
        /\ \A d \in Callers \ {c} : caller'[d] = caller[d]
    BY <1>t, <2>1, <2>2 DEF EmbedTypes
  <2>4. ASSUME ~raced' PROVE OneSetsUp'
    <3>1. OneSetsUp /\ caller[c].body = E!Conf /\ "version" \in data
      BY <2>1, <2>4 DEF EmbedInv, OneSetsUp, Configures
    <3>2. data' = data \cup {"ours"}
      BY <2>1, <3>1 DEF E!Conf
    <3> QED BY <2>1, <2>2, <2>3, <3>1, <3>2 DEF OneSetsUp, Initialises, Configures, E!Conf, E!Setting
  <2> QED BY <2>1, <2>2, <2>3, <2>4 DEF EmbedInv, Changes
<1>7. ASSUME NEW c \in Callers, E!Start(c) PROVE EmbedInv'
  <2>1. PICK at \in {"sentinel", "idle"} :
          /\ E!Goes(c, at)
          /\ at = "sentinel" => port' = "ours" /\ "whole" \in data
          /\ at = "idle" => port' = port
    BY <1>7 DEF E!Start
  <2>2. /\ UNCHANGED <<data, database, changed, taken, raced, kills, stops>> /\ caller[c].at = "start"
    BY <1>7 DEF E!Start, E!At
  <2>3. /\ EmbedTypes' /\ caller'[c].at = at
        /\ \A d \in Callers \ {c} : caller'[d] = caller[d]
    BY <1>t, <2>1, CallerGoes DEF Ats
  <2>4. ASSUME ~raced' PROVE OneSetsUp'
    BY <2>1, <2>2, <2>3, <2>4 DEF EmbedInv, OneSetsUp, Initialises, Configures, E!Conf, E!Setting
  <2> QED BY <2>1, <2>2, <2>3, <2>4 DEF EmbedInv, Changes
<1>8. ASSUME NEW c \in Callers, E!Sentinel(c) \/ E!Exists(c) \/ E!Create(c) \/ E!Extend(c)
      PROVE  EmbedInv'
  <2>1. PICK at \in {"exists", "createdb", "extension", "idle"} :
          /\ E!Goes(c, at)
          /\ at # "idle" => Changes(c) \/ port = "ours"
    BY <1>8 DEF E!Sentinel, E!Exists, E!Create, E!Extend, E!IsOurs, E!AfterDatabase, E!At, Changes
  <2>2. /\ UNCHANGED <<data, port, taken, raced, kills, stops>>
        /\ ~E!Setting(c) /\ caller[c].at # "start"
        /\ changed' = changed \/ (Changes(c) /\ changed' = changed \cup {port})
    BY <1>8 DEF E!Sentinel, E!Exists, E!Create, E!Extend, E!At, Changes, E!Setting
  <2>3. /\ EmbedTypes' /\ caller'[c].at = at
        /\ \A d \in Callers \ {c} : caller'[d] = caller[d]
    BY <1>t, <2>1, CallerGoes DEF Ats
  <2>4. ASSUME ~raced' PROVE OneSetsUp'
    BY <2>1, <2>2, <2>3, <2>4 DEF EmbedInv, OneSetsUp, Initialises, Configures, E!Conf, E!Setting
  <2> QED BY <2>1, <2>2, <2>3, <2>4 DEF EmbedInv, Changes
<1>9. ASSUME NEW c \in Callers, E!Kill(c) PROVE EmbedInv'
  <2>1. /\ UNCHANGED <<data, port, database, changed, taken, raced, stops>>
        /\ caller' = [caller EXCEPT ![c] = [at |-> "idle", body |-> {}]]
    BY <1>9 DEF E!Kill
  <2>3. /\ EmbedTypes' /\ caller'[c].at = "idle"
        /\ \A d \in Callers \ {c} : caller'[d] = caller[d]
    BY <1>t, <2>1 DEF EmbedTypes, Ats
  <2>4. ASSUME ~raced' PROVE OneSetsUp'
    BY <2>1, <2>3, <2>4 DEF EmbedInv, OneSetsUp, Initialises, Configures, E!Conf, E!Setting
  <2> QED BY <2>1, <2>3, <2>4 DEF EmbedInv, Changes
<1>10. CASE E!Stop
  <2>1. /\ port' \in {"none", "foreign"} /\ taken' = (taken \/ port' = "foreign")
        /\ UNCHANGED <<data, caller, changed, raced>>
    BY <1>10 DEF E!Stop
  <2>4. ASSUME ~raced' PROVE OneSetsUp'
    BY <2>1, <2>4 DEF EmbedInv, OneSetsUp, Initialises, Configures, E!Conf, E!Setting
  <2> QED BY <1>t, <2>1, <2>4 DEF EmbedInv, EmbedTypes, Changes
<1>11. CASE UNCHANGED embedVars
  BY <1>11 DEF embedVars, EmbedInv, EmbedTypes, OneSetsUp, Initialises, Configures, Changes, E!Conf, E!Setting
<1> QED
  BY <1>1, <1>2, <1>3, <1>4, <1>5, <1>6, <1>7, <1>8, <1>9, <1>10, <1>11 DEF E!Next, E!Step

LEMMA EmbedSafe == EmbedInv => E!ForeignUntouched /\ E!ClusterWhole
  BY DEF EmbedInv, OneSetsUp, E!ForeignUntouched, E!ClusterWhole

-----------------------------------------------------------------------------
(* TileService.                                                            *)

Processes == [state : {"starting", "serving", "deaf", "restarting"}, port : Ports]

\* What runs has been installed, and what is installed is what is shown, unless an
\* install is under way, was declined, or met a service that ran.
ServiceInv ==
  /\ platform \in {"linux", "windows"} /\ unit \in Ports \cup {0}
  /\ process = S!NoProcess \/ (process \in Processes /\ unit # 0)
  /\ enabled => unit # 0
  /\ asking.do = "install" => asking.port = portFile /\ asking.port \in Ports
  /\ ~stale /\ unit # 0 => unit = portFile
  /\ ~stale /\ process # S!NoProcess => process.port = portFile
  /\ platform = "linux" /\ S!Listening => preview # process.port

LEMMA ServiceInit == S!Init => ServiceInv
  BY DEF S!Init, ServiceInv, S!NoProcess, S!NoCommand, S!Listening

LEMMA ServiceStep ==
  ASSUME ServiceInv, [S!Next]_serviceVars
  PROVE  ServiceInv'
<1> USE ServiceAssumption DEF ServiceInv
<1>p. process.state = "serving" => process \in Processes
  BY DEF S!NoProcess
<1>1. CASE S!OpenApp
  <2> DEFINE free == {p \in Ports : p \notin others
                        /\ ~(platform = "linux" /\ S!Listening /\ process.port = p)}
  <2>1. /\ free # {} /\ preview' = CHOOSE p \in free : \A q \in free : p <= q
        /\ UNCHANGED <<platform, portFile, unit, enabled, process, others, asking, stale, events>>
    BY <1>1 DEF S!OpenApp
  <2>2. free \subseteq Nat
    OBVIOUS
  <2>3. preview' \in free
    <3> HIDE DEF free
    <3>1. \E p \in free : \A q \in free : p <= q
      BY <2>1, <2>2, LeastNumber
    <3> QED BY <2>1, <3>1
  <2> QED BY <2>1, <2>3 DEF S!Listening
<1>2. CASE S!CloseApp
  BY <1>2, <1>p DEF S!CloseApp, S!Listening, S!NoCommand, Processes
<1>3. CASE S!Decline
  BY <1>3 DEF S!Decline, S!Listening, S!NoCommand
<1>4. ASSUME NEW do \in {"uninstall", "start", "stop"}, S!Ask(do) PROVE ServiceInv'
  BY <1>4 DEF S!Ask, S!Listening
<1>5. CASE S!InstallUnit
  BY <1>5 DEF S!InstallUnit, S!Listening, S!NoCommand, S!NoProcess, S!Starting, Processes
<1>6. CASE S!CreateService
  <2>1. CASE unit # 0
    BY <1>6, <2>1 DEF S!CreateService, S!Listening, S!NoCommand
  <2>2. CASE unit = 0
    <3>1. /\ process' = S!Starting(asking.port) /\ unit' = asking.port /\ ~stale' /\ asking' = S!NoCommand
          /\ asking.do = "install" /\ UNCHANGED <<platform, portFile>>
      BY <1>6, <2>2 DEF S!CreateService
    <3>2. S!Starting(asking.port) \in Processes /\ S!Starting(asking.port).port = asking.port
          /\ S!Starting(asking.port).state # "serving"
      BY <3>1 DEF S!Starting, Processes
    <3> QED BY <3>1, <3>2 DEF S!Listening, S!NoCommand
  <2> QED BY <2>1, <2>2
<1>7. CASE S!Uninstall
  BY <1>7 DEF S!Uninstall, S!Listening, S!NoCommand, S!NoProcess
<1>8. CASE S!SetRunning
  BY <1>8 DEF S!SetRunning, S!Listening, S!NoCommand, S!NoProcess, S!Starting, Processes
<1>9. CASE S!Bind
  <2>1. process \in Processes /\ process.state = "starting" /\ process # S!NoProcess
    BY <1>9 DEF S!Bind, S!NoProcess
  <2>2. PICK at \in {"serving", "restarting", "deaf"} :
          process' = [process EXCEPT !.state = at] /\ (at = "serving" => ~S!Holds(process.port))
    BY <1>9 DEF S!Bind
  <2>3. process' \in Processes /\ process'.port = process.port /\ process'.state = at
        /\ process' # S!NoProcess
    BY <2>1, <2>2 DEF Processes, S!NoProcess
  <2> QED BY <1>9, <2>1, <2>2, <2>3 DEF S!Bind, S!Listening, S!Holds
<1>10. CASE S!Restart
  <2>1. process # S!NoProcess /\ unit \in Ports
    BY <1>10 DEF S!Restart, S!Restarts, S!NoProcess
  <2>2. S!Starting(unit) \in Processes /\ S!Starting(unit) # S!NoProcess
        /\ S!Starting(unit).port = unit /\ S!Starting(unit).state # "serving"
    BY <2>1 DEF S!Starting, S!NoProcess, Processes
  <2> QED BY <1>10, <2>1, <2>2 DEF S!Restart, S!Listening
<1>11. CASE S!Crash
  BY <1>11 DEF S!Crash, S!Listening, S!NoProcess, Processes
<1>12. CASE S!Reboot
  BY <1>12 DEF S!Reboot, S!Listening, S!NoProcess, S!NoCommand, S!Starting, Processes
<1>13. ASSUME NEW p \in Ports, S!AskInstall(p) PROVE ServiceInv'
  BY <1>13 DEF S!AskInstall, S!FileAsked, S!Listening
<1>14. ASSUME NEW p \in Ports, S!TakePort(p) \/ S!FreePort(p) PROVE ServiceInv'
  BY <1>14 DEF S!TakePort, S!FreePort, S!Listening
<1>15. CASE UNCHANGED serviceVars
  BY <1>15 DEF serviceVars, S!Listening
<1> QED
  BY <1>1, <1>2, <1>3, <1>4, <1>5, <1>6, <1>7, <1>8, <1>9, <1>10, <1>11, <1>12, <1>13, <1>14, <1>15
  DEF S!Next

LEMMA ServiceShown == ServiceInv => S!ShownPortServes
  BY DEF ServiceInv, S!ShownPortServes

-----------------------------------------------------------------------------
(* DesktopMaps.                                                            *)

ImportFields == {"at", "dest", "version", "raced"}

MapTypes ==
  /\ IsFiniteSet(DOMAIN maps) /\ DOMAIN import = Imports
  /\ \A i \in Imports : DOMAIN import[i] = ImportFields /\ import[i].raced \in BOOLEAN

Copies(i) == import[i].at = "copy"

\* What an import is about to write to is free, and no other import writes to it,
\* unless it raced.
MapsInv ==
  /\ MapTypes
  /\ \A i \in Imports : Copies(i) /\ ~import[i].raced => import[i].dest \notin DOMAIN maps
  /\ \A i, k \in Imports :
       i # k /\ Copies(i) /\ Copies(k) /\ import[i].dest = import[k].dest => import[i].raced

LEMMA MapsInit == M!Init => MapsInv
<1> SUFFICES ASSUME M!Init PROVE MapsInv
  OBVIOUS
<1>1. DOMAIN maps = {} /\ IsFiniteSet(DOMAIN maps)
  BY FS_EmptySet DEF M!Init
<1> QED BY <1>1 DEF M!Init, MapsInv, MapTypes, ImportFields, Copies

\* The path chosen for an import is free.
LEMMA PathIsFree ==
  ASSUME NEW path, IsFiniteSet(DOMAIN maps)
  PROVE  M!FreePath(path) \notin DOMAIN maps
<1> DEFINE c == Cardinality(DOMAIN maps)
           f == [n \in 1..(c + 1) |-> M!Renamed(path, n)]
           free == {n \in 0..c + 1 : M!Renamed(path, n) \notin DOMAIN maps}
<1>1. c \in Nat
  BY FS_CardinalityType
<1>2. DOMAIN f = 1..(c + 1) /\ \A m, n \in DOMAIN f : f[m] = f[n] => m = n
  BY <1>1 DEF M!Renamed
<1>3. \E n \in DOMAIN f : f[n] \notin DOMAIN maps
  <2> HIDE DEF f
  <2> QED BY <1>2, OneIsFree
<1>4. free \in SUBSET Nat /\ free # {}
  BY <1>1, <1>3
<1>5. M!FreePath(path) = M!Renamed(path, CHOOSE n \in free : \A m \in free : n <= m)
  BY DEF M!FreePath, M!Cardinality, Cardinality
<1> HIDE DEF free
<1>6. \E n \in free : \A m \in free : n <= m
  BY <1>4, LeastNumber
<1>7. PICK n \in free : M!FreePath(path) = M!Renamed(path, n)
  BY <1>5, <1>6
<1> QED BY <1>7 DEF free

\* With another file there may be one more.
LEMMA OneMoreFile ==
  ASSUME IsFiniteSet(DOMAIN maps), NEW p, NEW v
  PROVE  DOMAIN M!With(maps, p, v) = DOMAIN maps \cup {p} /\ IsFiniteSet(DOMAIN maps \cup {p})
  BY FS_AddElement DEF M!With

LEMMA MapsStep ==
  ASSUME MapsInv, [M!Next]_mapsVars
  PROVE  MapsInv'
<1>t. MapTypes
  BY DEF MapsInv
<1>1. ASSUME NEW w \in Workers, NEW s \in Stems, M!Tile(w, s) PROVE MapsInv'
  BY <1>1 DEF M!Tile, MapsInv, MapTypes, Copies
<1>2. ASSUME NEW i \in Imports, M!ChooseDest(i) PROVE MapsInv'
  <2> DEFINE dest == M!FreePath(Picked[i])
             rivals == {k \in Imports : import[k].at = "copy" /\ import[k].dest = dest}
  <2>1. /\ maps' = maps
        /\ import' = [k \in Imports |->
             IF k = i THEN [at |-> "copy", dest |-> dest, version |-> 0, raced |-> rivals # {}]
             ELSE [import[k] EXCEPT !.raced = (@ \/ k \in rivals)]]
    BY <1>2 DEF M!ChooseDest
  <2>2. dest \notin DOMAIN maps
    BY <1>t, PathIsFree DEF MapTypes
  <2> HIDE DEF dest
  <2>3. /\ import'[i] = [at |-> "copy", dest |-> dest, version |-> 0, raced |-> rivals # {}]
        /\ \A k \in Imports \ {i} :
             /\ DOMAIN import'[k] = ImportFields
             /\ import'[k].at = import[k].at /\ import'[k].dest = import[k].dest
             /\ import'[k].raced = (import[k].raced \/ k \in rivals)
    BY <1>t, <2>1 DEF MapTypes, ImportFields
  <2>4. MapTypes'
    BY <1>t, <2>1, <2>3 DEF MapTypes, ImportFields
  <2>5. \A k \in Imports \ {i} : Copies(k) /\ import[k].dest = dest <=> k \in rivals
    BY DEF Copies
  <2>6. \A k \in Imports : Copies(k)' /\ ~import'[k].raced => import'[k].dest \notin DOMAIN maps
    <3>1. ASSUME NEW k \in Imports \ {i}, Copies(k)', ~import'[k].raced
          PROVE  import'[k].dest \notin DOMAIN maps
      <4>1. Copies(k) /\ ~import[k].raced /\ import'[k].dest = import[k].dest
        BY <1>t, <2>3, <3>1 DEF Copies, MapTypes
      <4> QED BY <4>1 DEF MapsInv
    <3> QED BY <2>2, <2>3, <3>1
  <2>7. \A j, k \in Imports :
          j # k /\ Copies(j)' /\ Copies(k)' /\ import'[j].dest = import'[k].dest => import'[j].raced
    <3>1. ASSUME NEW k \in Imports \ {i}, Copies(k)', import'[k].dest = dest
          PROVE  import'[k].raced /\ import'[i].raced
      <4>1. k \in rivals
        BY <2>3, <2>5, <3>1 DEF Copies
      <4>2. rivals # {}
        BY <4>1
      <4> HIDE DEF rivals
      <4>3. import'[i].raced = (rivals # {}) /\ import'[k].raced = (import[k].raced \/ k \in rivals)
        BY <2>3
      <4> QED BY <4>1, <4>2, <4>3
    <3>2. \A j, k \in Imports \ {i} :
            j # k /\ Copies(j)' /\ Copies(k)' /\ import'[j].dest = import'[k].dest => import'[j].raced
      BY <2>3, ZenonT(60) DEF MapsInv, Copies
    <3>3. import'[i].dest = dest
      BY <2>3
    <3> QED BY <3>1, <3>2, <3>3
  <2> QED BY <2>1, <2>4, <2>6, <2>7 DEF MapsInv
<1>3. ASSUME NEW i \in Imports, M!CreateDest(i) PROVE MapsInv'
  <2>1. /\ Copies(i) /\ maps' = M!With(maps, import[i].dest, [version |-> made + 1, good |-> FALSE])
        /\ import' = [import EXCEPT ![i] = [import[i] EXCEPT !.at = "fill", !.version = made + 1]]
    BY <1>3 DEF M!CreateDest, Copies
  <2>2. DOMAIN maps' = DOMAIN maps \cup {import[i].dest} /\ IsFiniteSet(DOMAIN maps')
    BY <1>t, <2>1, OneMoreFile DEF MapTypes
  <2>3. /\ DOMAIN import' = Imports /\ DOMAIN import'[i] = ImportFields /\ ~Copies(i)'
        /\ import'[i].raced = import[i].raced
        /\ \A k \in Imports \ {i} : import'[k] = import[k]
    BY <1>t, <2>1 DEF MapTypes, ImportFields, Copies
  <2>4. MapTypes'
    BY <1>t, <2>2, <2>3 DEF MapTypes
  <2> QED BY <2>1, <2>2, <2>3, <2>4 DEF MapsInv, Copies
<1>4. ASSUME NEW i \in Imports, M!FillDest(i) PROVE MapsInv'
  <2>1. import' = [import EXCEPT ![i].at = "done"] /\ DOMAIN maps' = DOMAIN maps
    BY <1>4 DEF M!FillDest
  <2>2. /\ DOMAIN import' = Imports /\ DOMAIN import'[i] = ImportFields /\ ~Copies(i)'
        /\ import'[i].raced = import[i].raced
        /\ \A k \in Imports \ {i} : import'[k] = import[k]
    BY <1>t, <2>1 DEF MapTypes, ImportFields, Copies
  <2>3. MapTypes'
    BY <1>t, <2>1, <2>2 DEF MapTypes
  <2> QED BY <2>1, <2>2, <2>3 DEF MapsInv, Copies
<1>5. ASSUME NEW p \in M!Paths, NEW good \in BOOLEAN, M!Generate(p, good) PROVE MapsInv'
  <2>1. /\ maps' = M!With(maps, p, [version |-> made + 1, good |-> good])
        /\ import' = [k \in Imports |-> [import[k] EXCEPT !.raced = (@ \/ import[k].dest = p)]]
    BY <1>5 DEF M!Generate
  <2>2. DOMAIN maps' = DOMAIN maps \cup {p} /\ IsFiniteSet(DOMAIN maps')
    BY <1>t, <2>1, OneMoreFile DEF MapTypes
  <2>3. /\ DOMAIN import' = Imports
        /\ \A k \in Imports : /\ DOMAIN import'[k] = ImportFields
                              /\ import'[k].at = import[k].at /\ import'[k].dest = import[k].dest
                              /\ import'[k].raced = (import[k].raced \/ import[k].dest = p)
    BY <1>t, <2>1 DEF MapTypes, ImportFields
  <2>4. MapTypes'
    BY <1>t, <2>2, <2>3 DEF MapTypes
  <2> QED BY <2>2, <2>3, <2>4, ZenonT(60) DEF MapsInv, Copies
<1>6. ASSUME NEW paths, M!AskDelete(paths) PROVE MapsInv'
  BY <1>6 DEF M!AskDelete, MapsInv, MapTypes, Copies
<1>7. CASE M!DeleteNext
  <2>1. DOMAIN maps' \subseteq DOMAIN maps /\ import' = import
    BY <1>7 DEF M!DeleteNext
  <2>2. IsFiniteSet(DOMAIN maps')
    BY <1>t, <2>1, FS_Subset DEF MapTypes
  <2> QED BY <2>1, <2>2 DEF MapsInv, MapTypes, Copies
<1>8. CASE UNCHANGED mapsVars
  BY <1>8 DEF mapsVars, MapsInv, MapTypes, Copies
<1> QED BY <1>1, <1>2, <1>3, <1>4, <1>5, <1>6, <1>7, <1>8 DEF M!Next

\* An import that begins to write has a free path.
LEMMA ImportsKeepFiles ==
  ASSUME MapsInv PROVE M!OverwritesNothing
  BY DEF MapsInv, Copies, M!OverwritesNothing

LEMMA ThreeKinds == DOMAIN M!Kinds \subseteq Nat
<1>1. DOMAIN M!Kinds = 1..3
  BY DEF M!Kinds
<1> QED BY <1>1

\* The file that stands for a stem is there.
LEMMA CandidateIsThere ==
  ASSUME NEW s, M!Candidate(s) # ""
  PROVE  <<s, M!Candidate(s)>> \in DOMAIN maps
<1> DEFINE kinds == M!Kinds
           there == {k \in DOMAIN kinds : <<s, kinds[k]>> \in DOMAIN maps}
           least == CHOOSE k \in there : \A m \in there : k <= m
<1>1. there # {} /\ M!Candidate(s) = kinds[least]
  BY DEF M!Candidate, M!FirstThere
<1>2. there \in SUBSET Nat
  BY ThreeKinds
<1>3. \E k \in there : \A m \in there : k <= m
  <2> HIDE DEF there
  <2> QED BY <1>1, <1>2, LeastNumber
<1>4. least \in there
  <2> HIDE DEF there
  <2> QED BY <1>3
<1> HIDE DEF least, kinds
<1> QED BY <1>1, <1>4

LEMMA TilesAreThere == M!ServesWhatIsThere
<1> SUFFICES ASSUME NEW w \in Workers, NEW s \in Stems, M!Tile(w, s),
                    answer'.from \notin {M!Table(s), M!Nowhere}
             PROVE  /\ answer'.from \in DOMAIN maps
                    /\ answer'.from \in DOMAIN cogs[w] \/ answer'.version = maps[answer'.from].version
  BY DEF M!ServesWhatIsThere
<1> DEFINE p == <<s, M!Backing(w, s)>>
<1>1. M!None.from = M!Nowhere
  BY DEF M!None
<1>2. M!Backing(w, s) # ""
  <2>1. ASSUME M!Backing(w, s) = ""
        PROVE  answer' = [from |-> M!Table(s), version |-> 0] \/ answer' = M!None
    BY <2>1 DEF M!Tile
  <2>2. ASSUME M!Backing(w, s) = "" PROVE FALSE
    <3>1. CASE answer' = [from |-> M!Table(s), version |-> 0]
      <4>1. answer'.from = M!Table(s)
        BY <3>1
      <4> QED BY <4>1
    <3>2. CASE answer' = M!None
      BY <1>1, <3>2
    <3> QED BY <2>1, <2>2, <3>1, <3>2
  <2> QED BY <2>2
<1>3. p \in DOMAIN maps
  BY <1>2, CandidateIsThere DEF M!Backing
<1>4. \/ answer' = [from |-> p, version |-> maps[p].version]
      \/ p \in DOMAIN cogs[w] /\ answer' = [from |-> p, version |-> cogs[w][p]]
      \/ answer' = M!None
  BY <1>2 DEF M!Tile
<1> QED BY <1>1, <1>3, <1>4

\* Whatever the files are.
LEMMA OneCandidate == M!DescribedAsServed
<1> SUFFICES ASSUME NEW s \in Stems, NEW w \in Workers
             PROVE  LET from == IF M!Backing(w, s) # "" THEN <<s, M!Backing(w, s)>>
                                ELSE IF s \in Tables THEN M!Table(s) ELSE M!Nowhere
                    IN /\ M!JsonFrom(s) = from \/ (from \in DOMAIN maps /\ ~maps[from].good)
                       /\ from # M!Nowhere => s \in M!Listed
  BY DEF M!DescribedAsServed
<1>1. M!Backing(w, s) = M!Candidate(s) /\ M!Described(s) = M!Candidate(s)
  BY DEF M!Backing, M!Described
<1>2. CASE M!Candidate(s) # ""
  <2> DEFINE p == <<s, M!Candidate(s)>>
  <2>1. p \in DOMAIN maps
    BY <1>2, CandidateIsThere
  <2>2. s \in M!Listed
    BY <2>1 DEF M!Listed
  <2> QED BY <1>1, <1>2, <2>1, <2>2 DEF M!JsonFrom
<1>3. CASE M!Candidate(s) = ""
  BY <1>1, <1>3 DEF M!JsonFrom, M!Listed
<1> QED BY <1>2, <1>3

LEMMA JobInit == Init => JobInv
  BY DEF Init, JobInv

LEMMA JobsSafe == ASSUME UploadInv, JobInv PROVE UploadsWhole /\ JobToldRight
<1>1. UploadsWhole
  BY DEF UploadInv, JobInv, ReadsRight, Alone, UploadsWhole
<1>2. ASSUME NEW j \in DOMAIN job
      PROVE  LET J == job[j]
                 newest == [i \in 1..Len(J.log) |-> J.lines - Len(J.log) + i]
             IN /\ J.log = newest
                /\ Len(J.log) >= MaxLog \/ Len(J.log) = J.lines
                /\ Len(J.log) <= MaxLog + J.index + 1
                /\ J.report <=> J.status = "done"
                /\ J.error <=> J.status = "failed"
                /\ J.status = "done" => J.index = J.total
  <2> DEFINE log == job[j].log
  <2>1. job[j] \in JobRecord /\ ToldRight(job[j])
    BY DEF JobInv
  <2>2. log \in Seq(Nat)
    BY <2>1 DEF JobRecord
  <2>3. \A i \in DOMAIN log : log[i] = job[j].lines - Len(log) + i
    BY <2>1 DEF ToldRight
  <2>4. log = [i \in 1..Len(log) |-> job[j].lines - Len(log) + i]
    BY <2>2, <2>3
  <2> QED BY <2>1, <2>4 DEF ToldRight
<1>3. JobToldRight
  BY <1>2 DEF JobToldRight
<1> QED BY <1>1, <1>3

-----------------------------------------------------------------------------
(* The scenes.                                                             *)

\* A step of all is one of the scene that is run.
LEMMA OneScene ==
  ASSUME [AllNext]_allVars
  PROVE  /\ scene' = scene
         /\ scene = "studio" => [Next]_vars
         /\ scene = "tool" => [T!Next]_toolVars
         /\ scene = "registry" => [R!Next]_registryVars
         /\ scene = "embed" => [E!Next]_embedVars
         /\ scene = "service" => [S!Next]_serviceVars
         /\ scene = "maps" => [M!Next]_mapsVars
  BY DEF AllNext, allVars

ScenesInv ==
  /\ scene = "studio" => UploadInv /\ JobInv
  /\ scene = "tool" => ToolInv
  /\ scene = "registry" => RegistryInv
  /\ scene = "embed" => EmbedInv
  /\ scene = "service" => ServiceInv
  /\ scene = "maps" => MapsInv

LEMMA ScenesStay == AllSpec => []ScenesInv
<1>1. AllInit => ScenesInv
  BY UploadInit, JobInit, ToolInit, RegistryInit, EmbedInit, ServiceInit, MapsInit
     DEF AllInit, ScenesInv
<1>2. ScenesInv /\ [AllNext]_allVars => ScenesInv'
  <2> SUFFICES ASSUME ScenesInv, [AllNext]_allVars PROVE ScenesInv'
    OBVIOUS
  <2> USE OneScene DEF ScenesInv
  <2>1. scene = "studio" => UploadInv' /\ JobInv'
    BY UploadStep, JobStep
  <2>2. scene = "tool" => ToolInv'
    BY ToolStep
  <2>3. scene = "registry" => RegistryInv'
    BY RegistryStep
  <2>4. scene = "embed" => EmbedInv'
    BY EmbedStep
  <2>5. scene = "service" => ServiceInv'
    BY ServiceStep
  <2>6. scene = "maps" => MapsInv'
    BY MapsStep
  <2> QED BY <2>1, <2>2, <2>3, <2>4, <2>5, <2>6
<1> QED BY <1>1, <1>2, PTL DEF AllSpec

\* Of the studio: a file answered as created holds its upload, jobs read whole files
\* and say what they do; and of the tools they run no line is lost or out of order
\* (upload, start_generate, run_job; run_streaming).
THEOREM JobsDoRight == AllSpec => []JobsRight
<1>1. ScenesInv => JobsRight
  BY JobsSafe, ToolReported DEF ScenesInv, JobsRight
<1> QED BY <1>1, ScenesStay, PTL

\* After a refresh that nothing overlapped the registry shows the tables there are,
\* and what a command saved in connections.json stays saved, with the password the
\* bundled cluster has (refresh, discover_source_tables, pg_save_connection,
\* pg_delete_connection).
THEOREM RegistryDoesRight == AllSpec => []RegistryRight
<1>1. ScenesInv => RegistryRight
  BY RegistrySafe DEF ScenesInv, RegistryRight
<1> QED BY <1>1, ScenesStay, PTL

\* The bundled cluster is set up whole and no other server is changed (embed.rs); the
\* port that is shown is the one the service has (service_install, service.rs).
THEOREM ServicesDoRight == AllSpec => []ServicesRight
<1>1. ScenesInv => ServicesRight
  BY EmbedSafe, ServiceShown DEF ScenesInv, ServicesRight
<1> QED BY <1>1, ScenesStay, PTL

\* A source is described from the file or table that its tiles come from (tilejson,
\* resolve_tile).
THEOREM SourcesAreDescribed == AllSpec => []DescribedAsServed
<1>1. DescribedAsServed
  BY OneCandidate DEF DescribedAsServed
<1> QED BY <1>1, PTL

\* No import writes over a map unless another chose its path at the same time, and
\* what a worker serves is there (import_map, resolve_tile).
THEOREM MapsAreKept == AllSpec => MapsStayTheirOwn
<1>1. ScenesInv => (scene = "maps" => M!OverwritesNothing /\ M!ServesWhatIsThere)
  BY ImportsKeepFiles, TilesAreThere DEF ScenesInv
<1> QED BY <1>1, ScenesStay, PTL DEF MapsStayTheirOwn
=============================================================================
