------------------------------ MODULE RenderPool ------------------------------
(***************************************************************************)
(* The pool of threads that render map images (styles/render_pool.rs):     *)
(* requests wait in a bounded queue, each worker takes the next one and    *)
(* loads its style unless it is the one it has, a client may give up at    *)
(* any time, a style may be unreadable, the renderer may panic and end its *)
(* thread, and dropping the pool shuts every worker down.                  *)
(*                                                                         *)
(* The renderer is external: loading a style drops the one before it.      *)
(***************************************************************************)
EXTENDS Naturals, Sequences, FiniteSets

CONSTANTS
  Workers, Requests,
  ImageOf,     \* [Requests -> [style, size]]
  Broken,     \* styles that cannot be loaded
  QueueSize,  \* 512 for each worker
  MaxPanics   \* bound: threads that die

Shutdown == "shutdown"
Absent == "absent"

VARIABLES
  queue,      \* requests, and Shutdown
  worker,     \* [Workers -> [at, request, size, loaded, cached]]
  caller,     \* [Requests -> "new", "sending", "waiting", "image", "error", "gone"]
  pool        \* "open", how many Shutdowns are still to be sent, or "joined"

vars == <<queue, worker, caller, pool>>

\* A worker begins without a renderer; the renderer of tiles has one size.
Init ==
  /\ queue = <<>>
  /\ worker = [w \in Workers |->
       [at |-> "idle", request |-> Absent, size |-> Absent, loaded |-> Absent, cached |-> Absent]]
  /\ caller = [r \in Requests |-> "new"]
  /\ pool = [state |-> "open", unsent |-> 0]

WAt(w, at) == worker[w].at = at
Alive == {w \in Workers : worker[w].at \notin {"dead", "ended"}}
Becomes(r, what) == caller' = [caller EXCEPT ![r] = what]

\* A request is sent when there is room; without receivers sending fails.
Ask(r) ==
  /\ caller[r] = "new" /\ pool.state = "open"
  /\ Becomes(r, "sending")
  /\ UNCHANGED <<queue, worker, pool>>

Send(r) ==
  /\ caller[r] = "sending"
  /\ IF Alive = {} THEN Becomes(r, "error") /\ UNCHANGED queue
     ELSE /\ Len(queue) < QueueSize
          /\ queue' = Append(queue, r)
          /\ Becomes(r, "waiting")
  /\ UNCHANGED <<worker, pool>>

\* The client disconnects: what has been sent stays in the queue.
GiveUp(r) ==
  /\ caller[r] \in {"sending", "waiting"}
  /\ Becomes(r, "gone")
  /\ UNCHANGED <<queue, worker, pool>>

\* worker_loop; a renderer of another size is replaced, with the style it has.
Take(w) ==
  /\ WAt(w, "idle") /\ queue # <<>>
  /\ queue' = Tail(queue)
  /\ worker' = [worker EXCEPT ![w] =
       IF Head(queue) = Shutdown THEN [@ EXCEPT !.at = "ended"]
       ELSE IF @.size = ImageOf[Head(queue)].size THEN [@ EXCEPT !.at = "load", !.request = Head(queue)]
       ELSE [at |-> "load", request |-> Head(queue), size |-> ImageOf[Head(queue)].size,
             loaded |-> Absent, cached |-> Absent]]
  /\ UNCHANGED <<caller, pool>>

Style(w) == ImageOf[worker[w].request].style

\* Mutant: the style before is still taken for loaded.
CachedStill(w) == worker[w].cached

\* What the cache holds while another style is being loaded.
CachedWhileLoading(w) == Absent

\* load_style_cached
Load(w) ==
  /\ WAt(w, "load")
  /\ worker' = [worker EXCEPT ![w] =
       IF @.cached = Style(w) THEN [@ EXCEPT !.at = "render"]
       ELSE [@ EXCEPT !.at = "loading", !.cached = CachedWhileLoading(w), !.loaded = Absent]]
  /\ UNCHANGED <<queue, caller, pool>>

\* The answer, if anyone waits for it.
Answered(r, what) ==
  caller' = IF caller[r] = "waiting" THEN [caller EXCEPT ![r] = what] ELSE caller

Loaded(w) ==
  /\ WAt(w, "loading")
  /\ IF Style(w) \in Broken
     THEN /\ worker' = [worker EXCEPT ![w] = [@ EXCEPT !.at = "idle", !.request = Absent]]
          /\ Answered(worker[w].request, "error")
     ELSE /\ worker' = [worker EXCEPT ![w] = [@ EXCEPT !.at = "render", !.loaded = Style(w), !.cached = Style(w)]]
          /\ UNCHANGED caller
  /\ UNCHANGED <<queue, pool>>

Render(w) ==
  /\ WAt(w, "render")
  /\ \E what \in {"image", "error"} : Answered(worker[w].request, what)
  /\ worker' = [worker EXCEPT ![w] = [@ EXCEPT !.at = "idle", !.request = Absent]]
  /\ UNCHANGED <<queue, pool>>

\* The renderer panics: the thread ends, and the channel of the answer with it.
Panic(w) ==
  /\ worker[w].at \in {"loading", "render"}
  /\ Cardinality({v \in Workers : WAt(v, "dead")}) < MaxPanics
  /\ worker' = [worker EXCEPT ![w] = [@ EXCEPT !.at = "dead", !.request = Absent]]
  /\ Answered(worker[w].request, "error")
  /\ UNCHANGED <<queue, pool>>

Shutdowns == Cardinality(Workers)

\* The last clone is dropped once no request uses the pool.
DropPool ==
  /\ pool.state = "open"
  /\ \A r \in Requests : caller[r] \notin {"sending", "waiting"}
  /\ pool' = [state |-> "dropping", unsent |-> Shutdowns]
  /\ UNCHANGED <<queue, worker, caller>>

\* It sends a Shutdown for each worker, if need be waiting for room.
SendShutdown ==
  /\ pool.state = "dropping" /\ pool.unsent > 0
  /\ IF Alive = {} THEN UNCHANGED queue
     ELSE Len(queue) < QueueSize /\ queue' = Append(queue, Shutdown)
  /\ pool' = [pool EXCEPT !.unsent = @ - 1]
  /\ UNCHANGED <<worker, caller>>

Join ==
  /\ pool.state = "dropping" /\ pool.unsent = 0 /\ Alive = {}
  /\ pool' = [pool EXCEPT !.state = "joined"]
  /\ UNCHANGED <<queue, worker, caller>>

Work(w) == Take(w) \/ Load(w) \/ Loaded(w) \/ Render(w)

Next ==
  \/ \E r \in Requests : Ask(r) \/ Send(r) \/ GiveUp(r)
  \/ \E w \in Workers : Work(w) \/ Panic(w)
  \/ DropPool \/ SendShutdown \/ Join

\* The threads run, and so does whoever waits for room in the queue.
Progress ==
  \/ \E w \in Workers : Work(w)
  \/ \E r \in Requests : Send(r)
  \/ SendShutdown \/ Join

Spec == Init /\ [][Next]_vars /\ WF_vars(Progress)

-----------------------------------------------------------------------------
\* Properties

\* An image is rendered with the style and the size it was asked for: a style that
\* could not be loaded leaves none behind that would be taken for loaded.
RendersItsStyle ==
  \A w \in Workers :
    /\ WAt(w, "render") => worker[w].loaded = Style(w) /\ worker[w].size = ImageOf[worker[w].request].size
    /\ worker[w].cached \in {Absent, worker[w].loaded}

\* Whoever waits for an image is answered, unless the last worker died with the
\* request still in the queue; and a pool that is dropped ends, whatever clients
\* have left in its queue and however many of its workers have died.
RendersEnd ==
  /\ \A r \in Requests :
       []<>(caller[r] \notin {"sending", "waiting"} \/ (Alive = {} /\ \E i \in DOMAIN queue : queue[i] = r))
  /\ []<>(pool.state # "dropping")
=============================================================================
