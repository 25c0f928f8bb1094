--------------------------- MODULE MCSessionActor ---------------------------
(* Bounded instances of SessionActor.  The tickets are interchangeable, and  *)
(* so are the prompts as long as Permissions is all of them or none.         *)
EXTENDS SessionActor

CONSTANTS t1, t2, r1, r2

MCSymmetry == Permutations({t1, t2}) \cup Permutations({r1, r2})
=============================================================================
