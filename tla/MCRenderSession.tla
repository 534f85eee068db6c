--------------------------- MODULE MCRenderSession ---------------------------
(* RenderSession for TLC: textures are interchangeable.  The geometry of the  *)
(* plugin is checked along with it.                                           *)
EXTENDS RenderSession, Geometry, TLC

TextureSymmetry == Permutations(Textures)

(* Rays that are fresh or were used before, and hit or miss now.              *)
SomeRays == [geomID : {Invalid, 7}, length : {2}, ahead : {Invalid, 3, 7},
             distance : {1, 5}]

(* However many rays there are, up to two blocks and a rest, each one is      *)
(* answered once and as Intersect answers it, unless it was used before, is   *)
(* in a block of eight and misses: then it reports its old hit.  Nearly all   *)
(* rays are alike, so that one ray is told from its neighbours.  The rays do  *)
(* not depend on the session: one state is enough to check them in.           *)
BatchAnswersLikeIntersect == clicks = 0 =>
    \A n \in 0..19, r, s \in SomeRays : \A k \in 0..n :
        AnswersLikeIntersect(n, [i \in 0..(n - 1) |-> IF i = k THEN r ELSE s])
=============================================================================
