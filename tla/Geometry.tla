------------------------------ MODULE Geometry ------------------------------
(* Index arithmetic of the native plugin and of the terrain in Init: which    *)
(* ray, vertex, triangle or pixel a loop touches.                             *)
EXTENDS Integers

Invalid == -1  \* RTC_INVALID_GEOMETRY_ID

-----------------------------------------------------------------------------
(* BatchIntersect: rays 0..n-1 in blocks of eight, the rest one by one.       *)
Block(i) == {i * 8 + k : k \in 0..7}
InBlocks(n) == UNION {Block(i) : i \in 0..(n \div 8 - 1)}

(* Mutant: the rest is counted from the number of blocks.                     *)
RestFromBatchCount(n) == {n \div 8 + i : i \in 0..((n % 8) - 1)}

InRest(n) == {(n \div 8) * 8 + i : i \in 0..((n % 8) - 1)}

(* Embree: the nearest surface on the line of a ray is of geometry `ahead' at *)
(* `distance'; the ids of a ray are written only when something is hit.       *)
Hits(ray) == ray.ahead # Invalid /\ ray.distance <= ray.length
rtcIntersect(ray) ==
    IF Hits(ray) THEN [ray EXCEPT !.geomID = ray.ahead, !.length = ray.distance]
                 ELSE ray

Intersect(ray) == rtcIntersect([ray EXCEPT !.geomID = Invalid])

(* RayIntersect8 leaves the geometry id of the input in place.                *)
RayIntersect8(ray) == rtcIntersect(ray)

BatchIntersect(n, rays) ==
    [i \in 0..(n - 1) |-> IF i \in InBlocks(n) THEN RayIntersect8(rays[i])
                          ELSE IF i \in InRest(n) THEN Intersect(rays[i])
                          ELSE rays[i]]

-----------------------------------------------------------------------------
(* AddMesh exchanges two vertices of a triangle, a hit exchanges u and v.     *)
NativeTriangle(t) == [t EXCEPT ![2] = t[3], ![3] = t[2]]

(* Weights, in q-ths, of the vertices a triangle's corners stand for: at a    *)
(* hit as Embree defines u and v, and in RayTraceTool.Lerp.                   *)
Weights(t, u, v, q) ==
    [x \in {t[1], t[2], t[3]} |-> IF x = t[1] THEN q - u - v
                                  ELSE IF x = t[2] THEN u ELSE v]
HitWeights(t, u, v, q) == Weights(NativeTriangle(t), u, v, q)
LerpWeights(t, u, v, q) == Weights(t, v, u, q)

-----------------------------------------------------------------------------
(* Init: the six entries of triangles that belong to cell (i, j) of a terrain *)
(* with w by h heights, and where they are put.                               *)
CellVertices(i, j, w) ==
    << (i + 0) + (j + 0) * w, (i + 1) + (j + 1) * w, (i + 1) + (j + 0) * w,
       (i + 0) + (j + 0) * w, (i + 0) + (j + 1) * w, (i + 1) + (j + 1) * w >>
CellIndex(i, j, w) == (j * (w - 1) + i) * 6

-----------------------------------------------------------------------------
(* RenderToImage: C's division drops the fraction, -width / 2 is -(width / 2).*)
ImageColumns(width) ==
    {x + width \div 2 : x \in -(width \div 2)..(width \div 2 - 1)}
ImagePixels(width, height) == ImageColumns(width) \X ImageColumns(height)

-----------------------------------------------------------------------------
(* The rays that may answer differently from Intersect: a block's ray that    *)
(* was used before and misses now still carries the geometry it hit then.     *)
KeepsOldHit(n, rays, i) ==
    i \in InBlocks(n) /\ rays[i].geomID # Invalid /\ ~Hits(rays[i])

AnswersLikeIntersect(n, rays) ==
    \A i \in 0..(n - 1) :
        BatchIntersect(n, rays)[i] = Intersect(rays[i])
            <=> ~KeepsOldHit(n, rays, i)
=============================================================================
