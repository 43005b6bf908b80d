--------------------------- MODULE MCMbtilesTool ---------------------------
(* Small files for MbtilesTool.                                              *)
EXTENDS MbtilesTool, TLC

CONSTANTS c1, c2, d1, d2, t1, a, b, p, q

\* Coordinates, contents and the names of new files are interchangeable.
MCSymmetry == Permutations({c1, c2}) \cup Permutations({d1, d2}) \cup Permutations({p, q})

MCIds == d1 :> 1 @@ d2 :> 2

TileSets == UNION {[S -> Data] : S \in SUBSET Coords}

Titled(f, title) == [f EXCEPT !.title = title]

\* Two files of any content, one with a title the other lacks.  Copies of them
\* have the other schemas.
MCInitialFiles ==
  {a :> Titled(FileWith("normalized", old, {}, MCIds), {t1})
     @@ b :> FileWith("flat-with-hash", new, {}, MCIds)
     @@ p :> NoFile @@ q :> NoFile :
     old \in TileSets \ {Empty}, new \in TileSets}
=============================================================================
