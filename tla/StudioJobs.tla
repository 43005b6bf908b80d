----------------------------- MODULE StudioJobs -----------------------------
(***************************************************************************)
(* The studio's HTTP API (srv/studio.rs): rasters are uploaded into the    *)
(* data directory, and a request starts a job that makes tile maps of some *)
(* of them while clients poll its status and its log.  The handlers run on *)
(* several workers; an upload is written by a blocking thread after its    *)
(* destination has been chosen, and a job runs after its inputs have been  *)
(* looked up.                                                              *)
(*                                                                         *)
(* The data directory is [<<name, suffix>> -> the uploads whose bytes are  *)
(* in the file], {} while nothing has been written to it.                  *)
(***************************************************************************)
EXTENDS Naturals, Sequences, FiniteSets

CONSTANTS
  Uploads,
  Sanitized,  \* [names as sent -> a .tif name, or Refused]
  Refused,
  MaxLog,     \* 500 lines
  MaxJobs,
  MaxLines    \* bound: lines the tools of a job write

ASSUME LogAssumption == MaxLog \in Nat

VARIABLES
  dir,        \* the data directory
  upload,     \* [Uploads -> [at, dest, overlapped: history]]
  job         \* the jobs by number, each with its task

vars == <<dir, upload, job>>

Init ==
  /\ dir = [f \in {} |-> {}]
  /\ upload = [u \in Uploads |-> [at |-> "none", dest |-> <<>>, overlapped |-> FALSE]]
  /\ job = <<>>

Suffixes == 0..Cardinality(DOMAIN dir)

\* Mutant: only the name itself is tried.
NoSuffix(name) == <<name, 0>>

\* unique_dest: the name, or the name with the first number that is free.
UniqueDest(name) ==
  LET free == {i \in Suffixes : <<name, i>> \notin DOMAIN dir}
  IN <<name, CHOOSE i \in free : \A k \in free : i <= k>>

\* What browse shows: uploads are flat files of the data directory.
Browsed == DOMAIN dir

\* upload, up to the task that writes.  Empty and oversized bodies are refused.
Choose(u, raw, fits) ==
  /\ upload[u].at = "none"
  /\ IF Sanitized[raw] = Refused \/ ~fits
     THEN upload' = [upload EXCEPT ![u].at = "refused"]
     ELSE LET dest == UniqueDest(Sanitized[raw])
              rivals == {v \in Uploads : upload[v].at \in {"chosen", "open"} /\ upload[v].dest = dest}
          IN upload' = [v \in Uploads |->
               IF v = u THEN [at |-> "chosen", dest |-> dest, overlapped |-> rivals # {}]
               ELSE IF v \in rivals THEN [upload[v] EXCEPT !.overlapped = TRUE]
               ELSE upload[v]]
  /\ UNCHANGED <<dir, job>>

Goes(u, at) == upload' = [upload EXCEPT ![u].at = at]

\* fs::write truncates the file, and then writes it from its start.
Open(u) ==
  /\ upload[u].at = "chosen"
  /\ dir' = [f \in DOMAIN dir \cup {upload[u].dest} |-> IF f = upload[u].dest THEN {} ELSE dir[f]]
  /\ Goes(u, "open")
  /\ UNCHANGED job

\* A shorter body leaves the end of a longer one.
Write(u) ==
  /\ upload[u].at = "open"
  /\ \E left \in {{}, dir[upload[u].dest]} :
       dir' = [dir EXCEPT ![upload[u].dest] = left \cup {u}]
  /\ Goes(u, "created")
  /\ UNCHANGED job

\* The directory cannot be written, or the disk is full.
WriteFails(u) ==
  /\ upload[u].at \in {"chosen", "open"}
  /\ Goes(u, "failed")
  /\ UNCHANGED <<dir, job>>

-----------------------------------------------------------------------------

Stages(grids, cog) == 1 + 3 * grids + (IF cog THEN 1 ELSE 0)

\* start_generate: inputs are looked up now, and read by the task.  With nothing
\* asked for there is one grid.
StartGenerate(inputs, grids, cog) ==
  /\ Len(job) < MaxJobs
  /\ inputs # {} /\ inputs \subseteq Browsed
  /\ job' = Append(job,
       [status |-> "running", log |-> <<>>, index |-> 0, percent |-> "none",
        report |-> FALSE, error |-> FALSE,
        total |-> Stages(IF grids = 0 /\ ~cog THEN 1 ELSE grids, cog),
        inputs |-> inputs, lines |-> 0,
        given |-> {u \in Uploads : upload[u].at = "created" /\ ~upload[u].overlapped
                                    /\ upload[u].dest \in inputs},
        read |-> {}])
  /\ UNCHANGED <<dir, upload>>

Running(j) == job[j].status = "running"

\* A line at the end of the log.
Logged(j) == Append(job[j].log, job[j].lines + 1)

\* The last lines of a log that has become too long.
Bounded(log) == IF Len(log) > MaxLog THEN SubSeq(log, Len(log) - MaxLog + 1, Len(log)) ELSE log

\* ProgressEvent::Stage: the next stage, whose tools read the inputs.
Stage(j) ==
  /\ Running(j) /\ job[j].index < job[j].total
  /\ job' = [job EXCEPT ![j] = [job[j] EXCEPT
       !.index = @ + 1, !.percent = "none", !.log = Logged(j), !.lines = @ + 1,
       !.read = @ \cup {dir[f] : f \in job[j].inputs}]]
  /\ UNCHANGED <<dir, upload>>

\* A line a tool writes: ProgressEvent::Log, after Percent if it shows one.
ToolLine(j, percent) ==
  /\ Running(j) /\ job[j].index > 0 /\ job[j].lines < MaxLines
  /\ job' = [job EXCEPT ![j] = [job[j] EXCEPT
       !.percent = IF percent THEN "some" ELSE @, !.log = Bounded(Logged(j)), !.lines = @ + 1]]
  /\ UNCHANGED <<dir, upload>>

\* generate returns its report.
Finish(j) ==
  /\ Running(j) /\ job[j].index = job[j].total
  /\ job' = [job EXCEPT ![j] = [job[j] EXCEPT !.status = "done", !.report = TRUE]]
  /\ UNCHANGED <<dir, upload>>

\* generate returns an error, from any stage or from its checks.
FailJob(j) ==
  /\ Running(j)
  /\ job' = [job EXCEPT ![j] = [job[j] EXCEPT
       !.status = "failed", !.error = TRUE, !.log = Logged(j), !.lines = @ + 1]]
  /\ UNCHANGED <<dir, upload>>

Next ==
  \/ \E u \in Uploads :
       \/ \E raw \in DOMAIN Sanitized, fits \in BOOLEAN : Choose(u, raw, fits)
       \/ Open(u)
       \/ Write(u)
       \/ WriteFails(u)
  \/ \E inputs \in SUBSET Browsed, grids \in 0..1, cog \in BOOLEAN :
       StartGenerate(inputs, grids, cog)
  \/ \E j \in DOMAIN job :
       \/ Stage(j)
       \/ \E percent \in BOOLEAN : ToolLine(j, percent)
       \/ Finish(j)
       \/ FailJob(j)

Spec == Init /\ [][Next]_vars

-----------------------------------------------------------------------------
\* Properties

\* A file answered as created holds its upload and nothing else, and a job started
\* on such files reads them whole - unless the upload chose its destination while
\* another was about to create it.
UploadsWhole ==
  /\ \A u \in Uploads :
       upload[u].at = "created" /\ ~upload[u].overlapped => dir[upload[u].dest] = {u}
  /\ \A j \in DOMAIN job :
       {upload[u].dest : u \in job[j].given} = job[j].inputs =>
         job[j].read \subseteq {{u} : u \in job[j].given}

\* What a client polls: the log is the newest lines, at least MaxLog of them if
\* there were as many, and grows past MaxLog only by the stages announced since;
\* a job is done after its last stage with a report and no error, and has failed
\* with an error that is the last line.
JobToldRight ==
  \A j \in DOMAIN job :
    LET J == job[j]
        newest == [i \in 1..Len(J.log) |-> J.lines - Len(J.log) + i]
    IN /\ J.log = newest
       /\ Len(J.log) >= MaxLog \/ Len(J.log) = J.lines
       /\ Len(J.log) <= MaxLog + J.index + 1
       /\ J.report <=> J.status = "done"
       /\ J.error <=> J.status = "failed"
       /\ J.status = "done" => J.index = J.total
=============================================================================
