------------------------------ MODULE ToolRun ------------------------------
(***************************************************************************)
(* How martin-tiler runs a GDAL tool (gdal.rs, run_streaming): the tool    *)
(* writes lines to two pipes of limited size; a task per pipe sends them   *)
(* to one channel, and the caller reports each line, keeps the last ones   *)
(* for an error, and waits for the tool once both tasks have ended.  The   *)
(* tool is external: it writes lines, closes its pipes and exits, and dies *)
(* when it writes to a pipe nobody reads.                                  *)
(***************************************************************************)
EXTENDS Naturals, Sequences, FiniteSets

CONSTANTS
  Scripts,   \* what a tool may write: sequences of [pipe, good: in UTF-8]
  PipeSize,  \* lines a pipe holds
  TailSize   \* 40 lines

Pipes == {"stdout", "stderr"}

VARIABLES
  tool,      \* [state: "running", "ok" or "failed", script, next: line to write]
  pipe,      \* [Pipes -> line numbers in it]
  reader,    \* [Pipes -> is its task still reading]
  lines,     \* the channel
  reported,  \* the lines given to on_line
  tail,
  result     \* "none", "ok" or "error"

vars == <<tool, pipe, reader, lines, reported, tail, result>>

Init ==
  /\ tool \in [state: {"running"}, script: Scripts, next: {1}]
  /\ pipe = [p \in Pipes |-> <<>>]
  /\ reader = [p \in Pipes |-> TRUE]
  /\ lines = <<>> /\ reported = <<>> /\ tail = <<>>
  /\ result = "none"

Next1 == tool.script[tool.next]

\* The tool writes its next line, or is killed as it does.
WriteLine ==
  /\ tool.state = "running" /\ tool.next <= Len(tool.script)
  /\ IF reader[Next1.pipe]
     THEN /\ Len(pipe[Next1.pipe]) < PipeSize
          /\ pipe' = [pipe EXCEPT ![Next1.pipe] = Append(@, tool.next)]
          /\ tool' = [tool EXCEPT !.next = @ + 1]
     ELSE tool' = [tool EXCEPT !.state = "failed"] /\ UNCHANGED pipe
  /\ UNCHANGED <<reader, lines, reported, tail, result>>

Exit ==
  /\ tool.state = "running" /\ tool.next > Len(tool.script)
  /\ tool' \in {[tool EXCEPT !.state = s] : s \in {"ok", "failed"}}
  /\ UNCHANGED <<pipe, reader, lines, reported, tail, result>>

\* A reader ends at the end of its pipe, and at a line that is not UTF-8.
Read(p) ==
  /\ reader[p]
  /\ IF pipe[p] = <<>>
     THEN /\ tool.state # "running"
          /\ reader' = [reader EXCEPT ![p] = FALSE]
          /\ UNCHANGED <<pipe, lines>>
     ELSE IF tool.script[Head(pipe[p])].good
     THEN /\ lines' = Append(lines, Head(pipe[p]))
          /\ pipe' = [pipe EXCEPT ![p] = Tail(@)]
          /\ UNCHANGED reader
     ELSE /\ reader' = [reader EXCEPT ![p] = FALSE]
          /\ pipe' = [pipe EXCEPT ![p] = <<>>]
          /\ UNCHANGED lines
  /\ UNCHANGED <<tool, reported, tail, result>>

Kept(line) == Append(IF Len(tail) >= TailSize THEN Tail(tail) ELSE tail, line)

Receive ==
  /\ result = "none" /\ lines # <<>>
  /\ lines' = Tail(lines)
  /\ reported' = Append(reported, Head(lines))
  /\ tail' = Kept(Head(lines))
  /\ UNCHANGED <<tool, pipe, reader, result>>

\* recv returns None once both senders are gone; then child.wait.
Wait ==
  /\ result = "none" /\ lines = <<>> /\ \A p \in Pipes : ~reader[p]
  /\ tool.state # "running"
  /\ result' = IF tool.state = "ok" THEN "ok" ELSE "error"
  /\ UNCHANGED <<tool, pipe, reader, lines, reported, tail>>

Next == WriteLine \/ Exit \/ (\E p \in Pipes : Read(p)) \/ Receive \/ Wait

Spec == Init /\ [][Next]_vars /\ WF_vars(Next)

-----------------------------------------------------------------------------
\* Properties

SamePipe(i, k) == tool.script[i].pipe = tool.script[k].pipe

Written == 1..(tool.next - 1)

\* The lines of one pipe are reported in the order they were written, none left out
\* and none twice, though not in that of the two pipes together; when the run
\* has returned nothing is missing up to the first line of a pipe that is no text; an
\* error shows the last lines.
LinesReported ==
  /\ \A k \in DOMAIN reported :
       /\ reported[k] \in Written
       /\ \A i \in Written : SamePipe(i, reported[k]) =>
            (i < reported[k] <=> \E j \in 1..(k - 1) : reported[j] = i)
  /\ result # "none" =>
       \A i \in DOMAIN tool.script :
         i \in Written /\ (\A k \in 1..i : SamePipe(k, i) => tool.script[k].good)
           => \E k \in DOMAIN reported : reported[k] = i
  /\ tail = SubSeq(reported, IF Len(reported) > TailSize THEN Len(reported) - TailSize + 1 ELSE 1,
                   Len(reported))

\* A tool that writes more than its pipes hold does not wait for ever, and the
\* run returns.
ToolReturns == <>(result # "none")
=============================================================================
