------------------------- MODULE RenderSessionProofs -------------------------
(* Theorems about the presses of the Render button, for any set of textures,  *)
(* any number of parts and presses, and any size of the output; and about the *)
(* index arithmetic of the plugin and of the terrain, for every size.         *)
EXTENDS MCRenderSession, FiniteSetTheorems, SequenceTheorems, TLAPS

Busy == pc # "idle"

-----------------------------------------------------------------------------
(* Types.  That failures stays in its range needs the count of the presses.   *)

(* A press fails at most once.                                                *)
CountInv == failures + (IF Busy THEN 1 ELSE 0) <= clicks

(* The inductive invariant behind the types.                                  *)
TypeInv == TypeOK /\ CountInv

(* The first state is well-typed.                                             *)
LEMMA InitTyped == Init => TypeInv
<1> SUFFICES ASSUME Init PROVE TypeInv
    OBVIOUS
<1>1. CountInv
    BY DEF Init, CountInv, Busy
<1>2. NoImage \in [kind : {"none", "blank", "render"}, columns : 0..Width,
                   pixels : SUBSET Pixels]
    BY RenderAssumption DEF NoImage
<1>3. 1 \in 1..MaxVersion /\ EmptyCache \in [Textures -> 0..MaxVersion]
    BY RenderAssumption DEF EmptyCache
<1>4. parts \in Seq(Parts) /\ geoms \in Seq(Nat)
      /\ models \in Seq([part : Nat, seen : 0..MaxVersion])
    BY DEF Init
<1>5. 0 \in 0..MaxClicks /\ 0 \in 0..Width
    BY RenderAssumption
<1>6. version \in [Textures -> 1..MaxVersion]
      /\ cache \in [Textures -> 0..MaxVersion]
    BY <1>3 DEF Init
<1>7. image \in [kind : {"none", "blank", "render"}, columns : 0..Width,
                 pixels : SUBSET Pixels]
    BY <1>2 DEF Init
<1>. QED
    BY <1>1, <1>4, <1>5, <1>6, <1>7 DEF Init, TypeInv, TypeOK

(* What a part's texture is read as is a content the texture has had.         *)
LEMMA ReadTyped ==
    ASSUME TypeOK, NEW p \in Parts
    PROVE  Read(p) \in 0..MaxVersion
BY RenderAssumption DEF TypeOK, Read, Parts

(* A press of the button keeps the types.                                     *)
LEMMA BeginTyped == TypeInv /\ Begin => TypeInv'
<1> SUFFICES ASSUME TypeInv, Begin PROVE TypeInv'
    OBVIOUS
<1>1. PICK n \in 0..MaxParts : parts' \in [1..n -> Parts]
    BY DEF Begin, FindParts
<1>2. parts' \in Seq(Parts)
    BY <1>1, RenderAssumption
<1>3. clicks' \in 1..MaxClicks /\ failures' = failures
    BY RenderAssumption DEF Begin, TypeInv, TypeOK
<1>4. native' \in SUBSET (1..MaxClicks) /\ handle' \in 0..MaxClicks
    BY <1>3 DEF Begin, TypeInv, TypeOK
<1>5. cache' \in [Textures -> 0..MaxVersion]
    BY RenderAssumption DEF Begin, EmptyCache
<1>6. CountInv'
    BY RenderAssumption DEF Begin, TypeInv, TypeOK, CountInv, Busy
<1>7. /\ models' \in Seq([part : Nat, seen : 0..MaxVersion])
      /\ geoms' \in Seq(Nat)
    BY DEF Begin
<1>. QED
    BY <1>2, <1>3, <1>4, <1>5, <1>6, <1>7 DEF Begin, TypeInv, TypeOK

(* AddPart: the two lists grow by an element of their type.                   *)
LEMMA AddPartTyped ==
    ASSUME TypeInv, AddPart \/ AddPartThrows
    PROVE  TypeInv'
<1> DEFINE k == Len(geoms) + 1
<1>1. parts[k] \in Parts /\ k \in Nat
    BY ElementOfSeq DEF TypeInv, TypeOK, AddPart, AddPartThrows
<1>2. Read(parts[k]) \in 0..MaxVersion
    BY <1>1, ReadTyped DEF TypeInv
<1>3. AddMesh(k) => geoms' \in Seq(Nat)
    BY <1>1, AppendProperties DEF AddMesh, TypeInv, TypeOK
<1>4. ReadIntoCache(parts[k]) => cache' \in [Textures -> 0..MaxVersion]
    BY <1>2 DEF ReadIntoCache, TypeInv, TypeOK
<1>5. CASE AddPart
    <2>1. models' \in Seq([part : Nat, seen : 0..MaxVersion])
        <3>1. [part |-> k, seen |-> Read(parts[k])]
                  \in [part : Nat, seen : 0..MaxVersion]
            BY <1>1, <1>2
        <3>. QED
            BY <1>5, <3>1 DEF AddPart, TypeInv, TypeOK
    <2>. QED
        BY <1>3, <1>4, <1>5, <2>1 DEF AddPart, TypeInv, TypeOK, CountInv, Busy
<1>6. CASE AddPartThrows
    <2>1. geoms' \in Seq(Nat) /\ cache' \in [Textures -> 0..MaxVersion]
        BY <1>3, <1>4, <1>6 DEF AddPartThrows, TypeInv, TypeOK
    <2>2. failures' \in 0..MaxClicks
        BY <1>6, RenderAssumption
           DEF AddPartThrows, TypeInv, TypeOK, CountInv, Busy
    <2>3. CountInv'
        BY <1>6 DEF AddPartThrows, TypeInv, TypeOK, CountInv, Busy
    <2>. QED
        BY <1>6, <2>1, <2>2, <2>3 DEF AddPartThrows, TypeInv, TypeOK
<1>. QED
    BY <1>5, <1>6

(* A column that is traced sets pixels of the output only.                    *)
LEMMA ColumnTyped ==
    ASSUME NEW i \in 0..(Width - 1) PROVE ColumnPixels(i) \subseteq Pixels
BY RenderAssumption DEF ColumnPixels, Pixels

(* The other steps keep the types.                                            *)
LEMMA RestTyped ==
    ASSUME TypeInv,
           \/ Commit \/ TraceColumn \/ TraceThrows \/ Finish
           \/ Clear \/ Reselect \/ \E t \in Textures : EditTexture(t)
    PROVE  TypeInv'
<1> USE RenderAssumption DEF TypeInv, TypeOK, CountInv, Busy
<1>1. Blank \in [kind : {"none", "blank", "render"}, columns : 0..Width,
                 pixels : SUBSET Pixels]
    BY DEF Blank
<1>2. CASE Commit
    BY <1>1, <1>2 DEF Commit
<1>3. CASE TraceColumn
    <2>1. column \in 0..(Width - 1) /\ column' = column + 1
        BY <1>3 DEF TraceColumn
    <2>2. painted' \in SUBSET Pixels
        BY <1>3, <2>1, ColumnTyped DEF TraceColumn
    <2>3. column' \in 0..Width
        BY <2>1
    <2>. QED
        BY <1>3, <2>2, <2>3 DEF TraceColumn
<1>4. CASE TraceThrows
    BY <1>4 DEF TraceThrows
<1>5. CASE Finish
    <2>1. image' \in [kind : {"none", "blank", "render"}, columns : 0..Width,
                      pixels : SUBSET Pixels]
        BY <1>5 DEF Finish
    <2>2. models' \in Seq([part : Nat, seen : 0..MaxVersion])
        BY <1>5 DEF Finish
    <2>3. cache' \in [Textures -> 0..MaxVersion]
        BY <1>5 DEF Finish, EmptyCache
    <2>4. CountInv'
        BY <1>5 DEF Finish
    <2>. QED
        BY <1>5, <2>1, <2>2, <2>3, <2>4 DEF Finish
<1>6. CASE Clear
    BY <1>1, <1>6 DEF Clear
<1>7. CASE Reselect
    BY <1>7 DEF Reselect
<1>8. ASSUME NEW t \in Textures, EditTexture(t) PROVE TypeInv'
    BY <1>8 DEF EditTexture
<1>. QED
    BY <1>2, <1>3, <1>4, <1>5, <1>6, <1>7, <1>8

(* Every step keeps the types.                                                *)
LEMMA NextTyped == TypeInv /\ [Next]_vars => TypeInv'
<1> SUFFICES ASSUME TypeInv, [Next]_vars PROVE TypeInv'
    OBVIOUS
<1>1. CASE UNCHANGED vars
    BY <1>1 DEF vars, TypeInv, TypeOK, CountInv, Busy
<1>2. CASE Next
    BY <1>2, BeginTyped, AddPartTyped, RestTyped DEF Next
<1>. QED
    BY <1>1, <1>2

(* The types hold in every reachable state.                                   *)
THEOREM RenderTyped == Spec => []TypeOK
<1>1. TypeInv => TypeOK
    BY DEF TypeInv
<1>. QED
    BY <1>1, InitTyped, NextTyped, PTL DEF Spec

-----------------------------------------------------------------------------
(* Geometry ids and models.  Native geometry ids count the calls of AddMesh,  *)
(* the list of models is filled next to them: what keeps the two in step is   *)
(* that a press that fails between the two appends never renders.             *)

(* During a press both lists grow together, one entry for each part.          *)
MatchInv ==
    Busy => /\ handle \in native /\ hasScene
            /\ pc = "render" => committed
            /\ Len(geoms) = Len(models)
            /\ Len(geoms) <= Len(parts)
            /\ \A g \in 1..Len(geoms) : geoms[g] = g /\ models[g].part = g

(* A content in the cache is the present one: Begin has emptied the cache and *)
(* no texture is edited while the handler runs.                               *)
CacheInv ==
    Busy => /\ \A t \in Textures : cache[t] # 0 => cache[t] = version[t]
            /\ \A g \in 1..Len(models) :
                   parts[g].texture # NoTexture =>
                       models[g].seen = version[parts[g].texture]

(* The inductive invariant behind the matching and the freshness.             *)
SceneInv == TypeInv /\ MatchInv /\ CacheInv

(* Nothing is traced at first.                                                *)
LEMMA InitScene == Init => SceneInv
BY InitTyped DEF Init, SceneInv, MatchInv, CacheInv, Busy

(* A press starts with empty lists and an empty cache.                        *)
LEMMA BeginScene == SceneInv /\ Begin => MatchInv' /\ CacheInv'
<1> SUFFICES ASSUME SceneInv, Begin PROVE MatchInv' /\ CacheInv'
    OBVIOUS
<1>1. parts' \in Seq(Parts)
    BY BeginTyped DEF SceneInv, TypeInv, TypeOK
<1>2. /\ geoms' = <<>> /\ models' = <<>> /\ pc' = "init"
      /\ handle' \in native' /\ hasScene'
      /\ \A t \in Textures : cache'[t] = 0
    BY DEF Begin, EmptyCache
<1>. QED
    BY <1>1, <1>2 DEF MatchInv, CacheInv, Busy

(* An index of a list that grew is an old one or the new one.                 *)
LEMMA LastIndex ==
    ASSUME NEW n \in Nat, NEW g \in 1..(n + 1)
    PROVE  g \in 1..n \/ g = n + 1
OBVIOUS

(* The new geometry and the new model get the same index.                     *)
LEMMA AddPartScene == SceneInv /\ AddPart => MatchInv' /\ CacheInv'
<1> SUFFICES ASSUME SceneInv, AddPart PROVE MatchInv' /\ CacheInv'
    OBVIOUS
<1> DEFINE k == Len(geoms) + 1
           m == [part |-> k, seen |-> Read(parts[k])]
<1> USE DEF SceneInv, TypeInv, TypeOK
<1>1. /\ Len(geoms) \in Nat /\ Len(geoms) < Len(parts) /\ Len(parts) \in Nat
      /\ Len(models) = Len(geoms)
      /\ parts[k] \in Parts
    BY ElementOfSeq, LenProperties DEF AddPart, MatchInv, Busy
<1>2. /\ geoms' = Append(geoms, k) /\ models' = Append(models, m)
      /\ UNCHANGED <<parts, version, pc, handle, native, hasScene>>
    BY DEF AddPart, AddMesh
<1>3. Read(parts[k]) \in 0..MaxVersion
    BY <1>1, ReadTyped
<1>4. m \in [part : Nat, seen : 0..MaxVersion]
    BY <1>1, <1>3
<1>5. /\ Len(geoms') = k
      /\ \A i \in 1..Len(geoms) : geoms'[i] = geoms[i]
      /\ geoms'[k] = k
    BY <1>1, <1>2, AppendProperties
<1>6. /\ Len(models') = k
      /\ \A i \in 1..Len(geoms) : models'[i] = models[i]
      /\ models'[k] = m
    BY <1>1, <1>2, <1>4, AppendProperties
<1>7. \A g \in 1..k : g \in 1..Len(geoms) \/ g = k
    BY <1>1, LastIndex
<1>8. MatchInv'
    <2>1. \A g \in 1..Len(geoms) : geoms[g] = g /\ models[g].part = g
        BY DEF AddPart, MatchInv, Busy
    <2>2. \A g \in 1..Len(geoms') : geoms'[g] = g /\ models'[g].part = g
        <3>1. ASSUME NEW g \in 1..k PROVE geoms'[g] = g /\ models'[g].part = g
            <4>1. CASE g \in 1..Len(geoms)
                BY <1>5, <1>6, <2>1, <4>1
            <4>2. CASE g = k
                BY <1>5, <1>6, <4>2
            <4>. QED
                BY <1>7, <4>1, <4>2
        <3>. QED
            BY <1>5, <3>1
    <2>3. pc = "init" /\ handle \in native /\ hasScene
        BY DEF AddPart, MatchInv, Busy
    <2>. QED
        BY <1>1, <1>2, <1>5, <1>6, <2>2, <2>3 DEF MatchInv
<1>9. CacheInv'
    <2>1. \A t \in Textures : cache[t] # 0 => cache[t] = version[t]
        BY DEF AddPart, CacheInv, Busy
    <2>2. parts[k].texture # NoTexture =>
              Read(parts[k]) = version[parts[k].texture]
        BY <1>1, <2>1 DEF Read, Parts
    <2>3. \A t \in Textures : cache'[t] # 0 => cache'[t] = version[t]
        BY <1>1, <2>1, <2>2, RenderAssumption DEF AddPart, ReadIntoCache, Parts
    <2>4. \A g \in 1..Len(geoms) : parts[g].texture # NoTexture =>
              models[g].seen = version[parts[g].texture]
        BY <1>1 DEF AddPart, CacheInv, Busy
    <2>5. \A g \in 1..Len(models') : parts[g].texture # NoTexture =>
              models'[g].seen = version[parts[g].texture]
        <3>1. ASSUME NEW g \in 1..k, parts[g].texture # NoTexture
              PROVE  models'[g].seen = version[parts[g].texture]
            <4>1. CASE g \in 1..Len(geoms)
                BY <1>6, <2>4, <3>1, <4>1
            <4>2. CASE g = k
                BY <1>6, <2>2, <3>1, <4>2
            <4>. QED
                BY <1>7, <4>1, <4>2
        <3>. QED
            BY <1>6, <3>1
    <2>. QED
        BY <1>2, <2>3, <2>5 DEF CacheInv
<1>. QED
    BY <1>8, <1>9

(* The other steps leave the lists and the cache, or end the press.           *)
LEMMA RestScene ==
    ASSUME SceneInv,
           \/ AddPartThrows \/ Commit \/ TraceColumn \/ TraceThrows \/ Finish
           \/ Clear \/ Reselect \/ \E t \in Textures : EditTexture(t)
    PROVE  MatchInv' /\ CacheInv'
<1> USE DEF SceneInv, MatchInv, CacheInv, Busy
<1>1. CASE AddPartThrows
    BY <1>1 DEF AddPartThrows
<1>2. CASE Commit
    BY <1>2 DEF Commit
<1>3. CASE TraceColumn
    BY <1>3 DEF TraceColumn
<1>4. CASE TraceThrows
    BY <1>4 DEF TraceThrows
<1>5. CASE Finish
    BY <1>5 DEF Finish
<1>6. CASE Clear
    BY <1>6 DEF Clear
<1>7. CASE Reselect
    BY <1>7 DEF Reselect
<1>8. ASSUME NEW t \in Textures, EditTexture(t) PROVE MatchInv' /\ CacheInv'
    BY <1>8 DEF EditTexture
<1>. QED
    BY <1>1, <1>2, <1>3, <1>4, <1>5, <1>6, <1>7, <1>8

(* Every step keeps the matching and the freshness.                           *)
LEMMA NextScene == SceneInv /\ [Next]_vars => SceneInv'
<1> SUFFICES ASSUME SceneInv, [Next]_vars PROVE SceneInv'
    OBVIOUS
<1>1. TypeInv'
    BY NextTyped DEF SceneInv
<1>2. CASE UNCHANGED vars
    BY <1>1, <1>2 DEF SceneInv, MatchInv, CacheInv, Busy, vars
<1>3. CASE Next
    BY <1>1, <1>3, BeginScene, AddPartScene, RestScene DEF Next, SceneInv
<1>. QED
    BY <1>2, <1>3

(* Whatever a press that failed has left behind, an id that Intersect returns *)
(* to Render is the index of the model made from the part that was hit.       *)
THEOREM HitsAreMatched == Spec => []HitsFindTheirModel
<1>1. SceneInv => HitsFindTheirModel
    BY LenProperties
       DEF SceneInv, TypeInv, TypeOK, MatchInv, HitsFindTheirModel, Busy
<1>. QED
    BY <1>1, InitScene, NextScene, PTL DEF Spec

(* ... and Render samples the present contents of the textures.               *)
THEOREM TexturesAreRead == Spec => []TexturesAreFresh
<1>1. SceneInv => TexturesAreFresh
    BY LenProperties
       DEF SceneInv, TypeInv, TypeOK, MatchInv, CacheInv, TexturesAreFresh, Busy
<1>. QED
    BY <1>1, InitScene, NextScene, PTL DEF Spec

-----------------------------------------------------------------------------
(* Native scenes.  The presses are numbered, so a new scene is new.           *)

(* Native scenes are numbered by their presses; the handle names one of them. *)
NativeInv ==
    /\ IsFiniteSet(native)
    /\ native \subseteq 1..clicks
    /\ Busy => handle \in native
    /\ Cardinality(native) = failures + (IF Busy THEN 1 ELSE 0)

(* The inductive invariant behind the number of native scenes.                *)
LeakInv == TypeInv /\ NativeInv

(* There is no native scene at first.                                         *)
LEMMA InitLeak == Init => LeakInv
BY InitTyped, FS_EmptySet DEF Init, LeakInv, NativeInv, Busy

(* Every step keeps the count of the native scenes.                           *)
LEMMA NextLeak == LeakInv /\ [Next]_vars => LeakInv'
<1> SUFFICES ASSUME LeakInv, [Next]_vars PROVE LeakInv'
    OBVIOUS
<1> USE DEF LeakInv
<1>1. TypeInv'
    BY NextTyped
<1>2. clicks \in Nat /\ failures \in Nat /\ Cardinality(native) \in Nat
    BY FS_CardinalityType DEF TypeInv, TypeOK, NativeInv
<1>3. ASSUME UNCHANGED <<native, handle, clicks>>,
             failures' + (IF Busy' THEN 1 ELSE 0) =
                 failures + (IF Busy THEN 1 ELSE 0),
             Busy' => Busy
      PROVE  NativeInv'
    BY <1>3 DEF NativeInv
<1>4. CASE Begin
    <2>1. native' = native \cup {clicks + 1} /\ clicks' = clicks + 1
          /\ handle' = clicks + 1 /\ failures' = failures /\ Busy' /\ ~Busy
        BY <1>4 DEF Begin, Busy
    <2>2. clicks + 1 \notin native
        BY <1>2 DEF NativeInv
    <2>3. IsFiniteSet(native') /\ Cardinality(native') = Cardinality(native) + 1
        BY <2>1, <2>2, FS_AddElement DEF NativeInv
    <2>4. native' \subseteq 1..clicks'
        BY <1>2, <2>1 DEF NativeInv
    <2>5. Cardinality(native) = failures
        BY <1>2, <2>1 DEF NativeInv
    <2>. QED
        BY <1>1, <1>2, <2>1, <2>3, <2>4, <2>5 DEF NativeInv
<1>5. CASE Finish
    <2>1. native' = native \ {handle} /\ clicks' = clicks
          /\ failures' = failures /\ ~Busy' /\ Busy
        BY <1>5 DEF Finish, Busy
    <2>2. IsFiniteSet(native') /\ Cardinality(native') = Cardinality(native) - 1
        BY <2>1, FS_RemoveElement DEF NativeInv
    <2>3. Cardinality(native) = failures + 1
        BY <2>1 DEF NativeInv
    <2>4. native' \subseteq 1..clicks'
        BY <2>1 DEF NativeInv
    <2>. QED
        BY <1>1, <1>2, <2>1, <2>2, <2>3, <2>4 DEF NativeInv
<1>6. CASE AddPartThrows \/ TraceThrows
    <2>1. UNCHANGED <<native, handle, clicks>> /\ Busy /\ ~Busy'
          /\ failures' = failures + 1
        BY <1>6 DEF AddPartThrows, TraceThrows, Busy
    <2>. QED
        BY <1>1, <1>2, <1>3, <2>1
<1>7. CASE \/ AddPart \/ Commit \/ TraceColumn \/ Clear \/ Reselect
           \/ (\E t \in Textures : EditTexture(t)) \/ UNCHANGED vars
    <2>1. UNCHANGED <<native, handle, clicks, failures>> /\ Busy' = Busy
        BY <1>7 DEF AddPart, Commit, TraceColumn, Clear, Reselect, EditTexture,
                    vars, Busy
    <2>. QED
        BY <1>1, <1>3, <2>1
<1>. QED
    BY <1>4, <1>5, <1>6, <1>7 DEF Next

(* Every press that ends as it should deletes its native scene; every press   *)
(* that fails leaves one behind.                                              *)
THEOREM ScenesAreDeleted == Spec => []ScenesLeakOnlyByFailure
<1>1. LeakInv => ScenesLeakOnlyByFailure
    BY DEF LeakInv, NativeInv, ScenesLeakOnlyByFailure, Busy, TypeInv, TypeOK
<1>. QED
    BY <1>1, InitLeak, NextLeak, PTL DEF Spec

-----------------------------------------------------------------------------
(* The image.  Render turns the columns around, so after column columns the   *)
(* painted pixels are the last column columns of the texture.                 *)

Last(n) == {q \in Pixels : q[1] >= Width - n}

(* While Render runs, exactly the columns traced are painted.                 *)
PaintInv == pc = "render" => painted = Last(column)

(* The inductive invariant behind the completeness of the image.              *)
ImageInv == TypeInv /\ PaintInv /\ ImageIsWhatWasTraced

(* Tracing one more column paints one more column from the right.             *)
LEMMA LastColumn ==
    ASSUME NEW n \in 0..(Width - 1)
    PROVE  Last(n) \cup ColumnPixels(n) = Last(n + 1)
<1> USE RenderAssumption
<1>1. ASSUME NEW q \in ColumnPixels(n) PROVE q \in Last(n + 1)
    BY <1>1 DEF ColumnPixels, Last, Pixels
<1>2. ASSUME NEW q \in Last(n) PROVE q \in Last(n + 1)
    BY <1>2 DEF Last, Pixels
<1>3. ASSUME NEW q \in Last(n + 1), q \notin Last(n) PROVE q \in ColumnPixels(n)
    <2>1. PICK x \in 0..(Width - 1), y \in 0..(Height - 1) : q = <<x, y>>
        BY <1>3 DEF Last, Pixels
    <2>2. x >= Width - (n + 1) /\ ~(x >= Width - n)
        BY <1>3, <2>1 DEF Last
    <2>3. x = Width - n - 1
        BY <2>2
    <2>4. Height - y - 1 \in 0..(Height - 1)
          /\ y = Height - (Height - y - 1) - 1
        BY <2>1
    <2>. QED
        BY <2>1, <2>3, <2>4 DEF ColumnPixels
<1>. QED
    BY <1>1, <1>2, <1>3

(* No column is nothing, all columns are the image.                           *)
LEMMA LastBounds == Last(0) = {} /\ Last(Width) = Pixels
BY RenderAssumption DEF Last, Pixels

(* There is no image at first.                                                *)
LEMMA InitImage == Init => ImageInv
BY InitTyped DEF Init, ImageInv, PaintInv, ImageIsWhatWasTraced, NoImage

(* Every step keeps the image complete.                                       *)
LEMMA NextImage == ImageInv /\ [Next]_vars => ImageInv'
<1> SUFFICES ASSUME ImageInv, [Next]_vars PROVE ImageInv'
    OBVIOUS
<1> USE DEF ImageInv
<1>1. TypeInv'
    BY NextTyped
<1>2. CASE Begin \/ AddPartThrows \/ TraceThrows
    <2>1. pc' # "render" /\ UNCHANGED image
        BY <1>2 DEF Begin, AddPartThrows, TraceThrows
    <2>. QED
        BY <1>1, <2>1 DEF PaintInv, ImageIsWhatWasTraced
<1>3. CASE Commit
    <2>1. painted' = {} /\ column' = 0 /\ image' = Blank
        BY <1>3 DEF Commit
    <2>. QED
        BY <1>1, <2>1, LastBounds DEF PaintInv, ImageIsWhatWasTraced, Blank
<1>4. CASE TraceColumn
    <2>1. /\ column \in 0..(Width - 1)
          /\ painted = Last(column)
          /\ painted' = painted \cup ColumnPixels(column)
          /\ column' = column + 1
          /\ UNCHANGED image
        BY <1>4, RenderAssumption
           DEF TraceColumn, PaintInv, TypeInv, TypeOK
    <2>2. painted' = Last(column')
        BY <2>1, LastColumn
    <2>. QED
        BY <1>1, <2>1, <2>2 DEF PaintInv, ImageIsWhatWasTraced
<1>5. CASE Finish
    <2>1. /\ image'.kind = "render"
          /\ image'.columns = column
          /\ image'.pixels = Last(column)
          /\ pc' = "idle"
        BY <1>5 DEF Finish, PaintInv
    <2>2. ImageIsWhatWasTraced'
        BY <2>1, LastBounds DEF ImageIsWhatWasTraced, Last
    <2>. QED
        BY <1>1, <2>1, <2>2 DEF PaintInv
<1>6. CASE Clear
    <2>1. image' = Blank /\ UNCHANGED <<pc, column, painted>>
        BY <1>6 DEF Clear
    <2>. QED
        BY <1>1, <2>1 DEF PaintInv, ImageIsWhatWasTraced, Blank
<1>7. CASE AddPart \/ Reselect \/ (\E t \in Textures : EditTexture(t))
           \/ UNCHANGED vars
    <2>1. UNCHANGED <<pc, column, painted, image>>
        BY <1>7 DEF AddPart, Reselect, EditTexture, vars
    <2>. QED
        BY <1>1, <2>1 DEF PaintInv, ImageIsWhatWasTraced
<1>. QED
    BY <1>2, <1>3, <1>4, <1>5, <1>6, <1>7 DEF Next

(* The output texture holds the traced columns, for every size of the output. *)
THEOREM ImageIsComplete == Spec => []ImageIsWhatWasTraced
<1>1. ImageInv => ImageIsWhatWasTraced
    BY DEF ImageInv
<1>. QED
    BY <1>1, InitImage, NextImage, PTL DEF Spec


-----------------------------------------------------------------------------
(* The scene object lives from Begin to Finish, and so does the bar.          *)
BarInv == TypeInv /\ (Busy => hasScene) /\ BarStaysOnlyByFailure

(* Every step keeps BarInv.                                                   *)
LEMMA NextBar == BarInv /\ [Next]_vars => BarInv'
<1> SUFFICES ASSUME BarInv, [Next]_vars PROVE BarInv'
    OBVIOUS
<1> USE DEF BarInv, Busy, BarStaysOnlyByFailure
<1>1. TypeInv'
    BY NextTyped
<1>2. CASE UNCHANGED vars
    BY <1>1, <1>2 DEF vars
<1>3. CASE Begin \/ AddPart \/ Commit \/ TraceColumn
    BY <1>1, <1>3 DEF Begin, AddPart, Commit, TraceColumn
<1>4. CASE AddPartThrows \/ TraceThrows
    <2>1. hasScene' /\ failures' = failures + 1 /\ pc' = "idle"
        BY <1>4 DEF AddPartThrows, TraceThrows
    <2>2. failures \in Nat
        BY DEF TypeInv, TypeOK
    <2>. QED
        BY <1>1, <2>1, <2>2
<1>5. CASE Finish
    BY <1>1, <1>5 DEF Finish
<1>6. CASE Clear \/ Reselect \/ \E t \in Textures : EditTexture(t)
    BY <1>1, <1>6 DEF Clear, Reselect, EditTexture
<1>. QED
    BY <1>2, <1>3, <1>4, <1>5, <1>6 DEF Next

(* The progress bar stays on the screen only after a press that failed, the   *)
(* one that left the scene object behind (RayTraceRendererEditor.cs:26-35).   *)
THEOREM BarIsCleared == Spec => []BarStaysOnlyByFailure
<1>1. Init => BarInv
    BY InitTyped DEF Init, BarInv, Busy, BarStaysOnlyByFailure
<1>2. BarInv => BarStaysOnlyByFailure
    BY DEF BarInv
<1>. QED
    BY <1>1, <1>2, NextBar, PTL DEF Spec

-----------------------------------------------------------------------------
(* Geometry: arithmetic.                                                      *)
LEMMA Products ==
    ASSUME NEW a \in Int, NEW b \in Int, NEW c \in Int
    PROVE  /\ a * b \in Int
           /\ (a + b) * c = a * c + b * c
           /\ (a - b) * c = a * c - b * c
           /\ a * b = b * a
           /\ a >= 0 /\ b >= 0 => a * b >= 0
  OBVIOUS

(* A product does not shrink when a factor grows.                             *)
LEMMA ProductGrows ==
    ASSUME NEW a \in Int, NEW b \in Int, NEW c \in Nat, a <= b
    PROVE  a * c <= b * c
  <1>1. (b - a) * c >= 0
    BY Products
  <1>2. (b - a) * c = b * c - a * c /\ a * c \in Int /\ b * c \in Int
    BY Products
  <1> QED BY <1>1, <1>2

(* Element x of row y of an array with h rows of w elements.                  *)
LEMMA RowIsInside ==
    ASSUME NEW w \in Nat, NEW h \in Nat,
           NEW x \in 0..(w - 1), NEW y \in 0..(h - 1)
    PROVE  x + y * w \in 0..(w * h - 1)
  <1>1. y * w >= 0 /\ y * w \in Int
    BY Products
  <1>2. y * w <= (h - 1) * w
    BY ProductGrows
  <1>3. (h - 1) * w = h * w - w /\ h * w = w * h /\ w * h \in Int
    BY Products
  <1> QED BY <1>1, <1>2, <1>3

-----------------------------------------------------------------------------
(* BatchIntersect takes every ray once: the blocks and the rest are disjoint  *)
(* and make up all rays, for any number of rays.                              *)
THEOREM EachRayOnce ==
    ASSUME NEW n \in Nat
    PROVE  /\ InBlocks(n) \cup InRest(n) = 0..(n - 1)
           /\ InBlocks(n) \cap InRest(n) = {}
           /\ \A i, j \in 0..(n \div 8 - 1) : i # j => Block(i) \cap Block(j) = {}
  <1> DEFINE m == n \div 8
  <1>1. m \in Nat /\ n = 8 * m + (n % 8) /\ (n % 8) \in 0..7
    OBVIOUS
  <1>2. InBlocks(n) = 0..(8 * m - 1)
    <2>1. ASSUME NEW x \in InBlocks(n) PROVE x \in 0..(8 * m - 1)
      <3>1. PICK i \in 0..(m - 1), k \in 0..7 : x = i * 8 + k
        BY DEF InBlocks, Block
      <3> QED BY <1>1, <3>1
    <2>2. ASSUME NEW x \in 0..(8 * m - 1) PROVE x \in InBlocks(n)
      <3>1. /\ x \div 8 \in 0..(m - 1)
            /\ x % 8 \in 0..7 /\ x = (x \div 8) * 8 + (x % 8)
        BY <1>1
      <3>2. x \in Block(x \div 8)
        BY <3>1 DEF Block
      <3> QED BY <3>1, <3>2 DEF InBlocks
    <2> QED BY <2>1, <2>2
  <1>3. InRest(n) = (8 * m)..(n - 1)
    <2>1. ASSUME NEW x \in InRest(n) PROVE x \in (8 * m)..(n - 1)
      <3>1. PICK i \in 0..((n % 8) - 1) : x = m * 8 + i
        BY DEF InRest
      <3> QED BY <1>1, <3>1
    <2>2. ASSUME NEW x \in (8 * m)..(n - 1) PROVE x \in InRest(n)
      <3>1. x - 8 * m \in 0..((n % 8) - 1) /\ x = m * 8 + (x - 8 * m)
        BY <1>1
      <3> QED BY <3>1 DEF InRest
    <2> QED BY <2>1, <2>2
  <1>4. \A i, j \in 0..(m - 1) : i # j => Block(i) \cap Block(j) = {}
    BY <1>1 DEF Block
  <1> HIDE DEF m
  <1>5. InBlocks(n) \cup InRest(n) = 0..(n - 1)
    BY <1>1, <1>2, <1>3
  <1>6. InBlocks(n) \cap InRest(n) = {}
    BY <1>1, <1>2, <1>3
  <1> QED BY <1>4, <1>5, <1>6 DEF m

(* BatchIntersect answers as Intersect does, for any rays and number of rays, *)
(* except for a used ray of a block that misses: it reports its old hit.      *)
THEOREM BatchIsIntersect ==
    ASSUME NEW n \in Nat,
           NEW rays \in [0..(n - 1) -> [geomID : Int, length : Int,
                                        ahead : Int, distance : Int]]
    PROVE  AnswersLikeIntersect(n, rays)
  <1> SUFFICES ASSUME NEW i \in 0..(n - 1)
               PROVE  BatchIntersect(n, rays)[i] = Intersect(rays[i])
                        <=> ~KeepsOldHit(n, rays, i)
    BY DEF AnswersLikeIntersect
  <1> DEFINE r == rays[i]
  <1>1. r \in [geomID : Int, length : Int, ahead : Int, distance : Int]
    OBVIOUS
  <1>2. i \in InBlocks(n) \/ i \in InRest(n)
    BY EachRayOnce
  <1>3. Intersect(r) = IF Hits(r)
                       THEN [r EXCEPT !.geomID = r.ahead, !.length = r.distance]
                       ELSE [r EXCEPT !.geomID = Invalid]
    BY <1>1 DEF Intersect, rtcIntersect, Hits
  <1>4. BatchIntersect(n, rays)[i] =
            IF i \in InBlocks(n) THEN RayIntersect8(r) ELSE Intersect(r)
    BY <1>2 DEF BatchIntersect
  <1>5. CASE i \notin InBlocks(n)
    BY <1>4, <1>5 DEF KeepsOldHit
  <1>6. CASE i \in InBlocks(n) /\ Hits(r)
    BY <1>3, <1>4, <1>6 DEF KeepsOldHit, RayIntersect8, rtcIntersect
  <1>7. CASE i \in InBlocks(n) /\ ~Hits(r)
    <2>1. BatchIntersect(n, rays)[i] = r
      BY <1>4, <1>7 DEF RayIntersect8, rtcIntersect
    <2>2. Intersect(r) = [r EXCEPT !.geomID = Invalid]
      BY <1>3, <1>7
    <2>3. r = [r EXCEPT !.geomID = Invalid] <=> r.geomID = Invalid
      BY <1>1
    <2> QED BY <1>7, <2>1, <2>2, <2>3 DEF KeepsOldHit
  <1> QED BY <1>5, <1>6, <1>7

(* So BatchAnswersLikeIntersect holds, for any number of rays.                *)
THEOREM BatchIsRight == Spec => []BatchAnswersLikeIntersect
  <1>1. BatchAnswersLikeIntersect
    <2> SUFFICES ASSUME NEW n \in 0..19, NEW r \in SomeRays, NEW s \in SomeRays,
                        NEW k \in 0..n
                 PROVE  AnswersLikeIntersect(n,
                            [i \in 0..(n - 1) |-> IF i = k THEN r ELSE s])
      BY DEF BatchAnswersLikeIntersect
    <2> DEFINE rays == [i \in 0..(n - 1) |-> IF i = k THEN r ELSE s]
               Ray == [geomID : Int, length : Int, ahead : Int, distance : Int]
    <2>1. SomeRays \subseteq Ray
      BY DEF SomeRays, Invalid
    <2>2. rays \in [0..(n - 1) -> Ray]
      BY <2>1
    <2> HIDE DEF rays
    <2>3. AnswersLikeIntersect(n, rays)
      BY <2>2, BatchIsIntersect
    <2> QED BY <2>3 DEF rays
  <1> QED BY <1>1, PTL

-----------------------------------------------------------------------------
(* The weights with which TraceColor interpolates at a hit are those of the   *)
(* hit, although the vertices and u and v are exchanged on different sides.   *)
THEOREM WeightsAgree ==
    ASSUME NEW t \in [1..3 -> Int],
           NEW u \in Int, NEW v \in Int, NEW q \in Int,
           t[1] # t[2], t[1] # t[3], t[2] # t[3]
    PROVE  HitWeights(t, u, v, q) = LerpWeights(t, u, v, q)
  <1>1. /\ NativeTriangle(t)[1] = t[1]
        /\ NativeTriangle(t)[2] = t[3]
        /\ NativeTriangle(t)[3] = t[2]
    BY DEF NativeTriangle
  <1>2. HitWeights(t, u, v, q)
            = [x \in {t[1], t[3], t[2]} |-> IF x = t[1] THEN q - u - v
                                            ELSE IF x = t[3] THEN u ELSE v]
    BY <1>1 DEF HitWeights, Weights
  <1>3. LerpWeights(t, u, v, q)
            = [x \in {t[1], t[2], t[3]} |-> IF x = t[1] THEN q - v - u
                                            ELSE IF x = t[2] THEN v ELSE u]
    BY DEF LerpWeights, Weights
  <1> QED BY <1>2, <1>3

(* The triangles of a terrain use only vertices that exist, and every cell    *)
(* writes its own six entries of the array, for every height map.             *)
THEOREM TerrainFits ==
    ASSUME NEW w \in Nat, NEW h \in Nat,
           NEW i \in 0..(w - 2), NEW j \in 0..(h - 2)
    PROVE  /\ \A k \in 1..6 : CellVertices(i, j, w)[k] \in 0..(w * h - 1)
           /\ CellIndex(i, j, w) >= 0
           /\ CellIndex(i, j, w) + 6 <= (w - 1) * (h - 1) * 2 * 3
           /\ \A a \in 0..(w - 2), b \in 0..(h - 2) :
                <<a, b>> # <<i, j>> =>
                    \/ CellIndex(a, b, w) + 6 <= CellIndex(i, j, w)
                    \/ CellIndex(i, j, w) + 6 <= CellIndex(a, b, w)
  <1>0. w > 1 /\ h > 1 /\ i \in Nat /\ j \in Nat
    OBVIOUS
  <1>1. ASSUME NEW x \in 0..(w - 1), NEW y \in 0..(h - 1)
        PROVE  x + y * w \in 0..(w * h - 1)
    BY RowIsInside
  <1>2. \A k \in 1..6 : CellVertices(i, j, w)[k] \in 0..(w * h - 1)
    <2>1. /\ i + 0 \in 0..(w - 1) /\ i + 1 \in 0..(w - 1)
          /\ j + 0 \in 0..(h - 1) /\ j + 1 \in 0..(h - 1)
      OBVIOUS
    <2>2. /\ (i + 0) + (j + 0) * w \in 0..(w * h - 1)
          /\ (i + 1) + (j + 0) * w \in 0..(w * h - 1)
          /\ (i + 0) + (j + 1) * w \in 0..(w * h - 1)
          /\ (i + 1) + (j + 1) * w \in 0..(w * h - 1)
      BY <1>1, <2>1
    <2> QED BY <2>2 DEF CellVertices
  <1> DEFINE n(x, y) == y * (w - 1) + x
  <1>3. ASSUME NEW x \in 0..(w - 2), NEW y \in Int, NEW z \in Int, y < z
        PROVE  n(x, y) + 1 <= z * (w - 1)
    <2>1. (y + 1) * (w - 1) <= z * (w - 1)
      BY <1>0, <1>3, ProductGrows
    <2>2. (y + 1) * (w - 1) = y * (w - 1) + (w - 1)
      BY Products
    <2>3. y * (w - 1) \in Int /\ z * (w - 1) \in Int
      BY Products
    <2> QED BY <2>1, <2>2, <2>3
  <1>4. ASSUME NEW y \in Nat PROVE y * (w - 1) \in Nat
    BY <1>0, Products
  <1>5. n(i, j) \in Nat /\ n(i, j) + 1 <= (h - 1) * (w - 1)
    <2>1. j < h - 1
      OBVIOUS
    <2> QED BY <2>1, <1>0, <1>3, <1>4
  <1>6. ASSUME NEW a \in 0..(w - 2), NEW b \in 0..(h - 2), <<a, b>> # <<i, j>>
        PROVE  n(a, b) + 1 <= n(i, j) \/ n(i, j) + 1 <= n(a, b)
    <2>1. b * (w - 1) \in Nat /\ j * (w - 1) \in Nat
      BY <1>0, <1>4
    <2>2. CASE b < j
      <3>1. n(a, b) + 1 <= j * (w - 1)
        BY <1>3, <2>2
      <3> QED BY <1>0, <2>1, <3>1
    <2>3. CASE j < b
      <3>1. n(i, j) + 1 <= b * (w - 1)
        BY <1>3, <2>3
      <3> QED BY <2>1, <3>1
    <2>4. CASE b = j
      <3>1. a < i \/ i < a
        BY <1>6, <2>4
      <3> QED BY <2>1, <2>4, <3>1
    <2> QED BY <2>2, <2>3, <2>4
  <1>7. \A x, y : CellIndex(x, y, w) = n(x, y) * 6
    BY DEF CellIndex
  <1>8. (w - 1) * (h - 1) * 2 * 3 = (h - 1) * (w - 1) * 6
    BY Products
  <1>9. CellIndex(i, j, w) >= 0
    BY <1>5, <1>7
  <1>10. CellIndex(i, j, w) + 6 <= (w - 1) * (h - 1) * 2 * 3
    <2> DEFINE p == (h - 1) * (w - 1)
    <2>1. p \in Int
      BY Products
    <2>2. n(i, j) + 1 <= p /\ n(i, j) \in Nat
      BY <1>5
    <2>3. CellIndex(i, j, w) = n(i, j) * 6 /\ (w - 1) * (h - 1) * 2 * 3 = p * 6
      BY <1>7, <1>8
    <2> HIDE DEF n, p
    <2> QED BY <2>1, <2>2, <2>3
  <1>11. ASSUME NEW a \in 0..(w - 2), NEW b \in 0..(h - 2), <<a, b>> # <<i, j>>
         PROVE  \/ CellIndex(a, b, w) + 6 <= CellIndex(i, j, w)
                \/ CellIndex(i, j, w) + 6 <= CellIndex(a, b, w)
    <2>1. n(a, b) + 1 <= n(i, j) \/ n(i, j) + 1 <= n(a, b)
      BY <1>6, <1>11
    <2>2. n(a, b) \in Int /\ n(i, j) \in Int
      BY <1>4, <1>5
    <2>3. CellIndex(a, b, w) = n(a, b) * 6 /\ CellIndex(i, j, w) = n(i, j) * 6
      BY <1>7
    <2> HIDE DEF n
    <2> QED BY <2>1, <2>2, <2>3
  <1> QED BY <1>2, <1>9, <1>10, <1>11

(* RenderToImage writes inside the image, and writes all of it exactly when   *)
(* both sides are even: an odd one leaves its last column or row unwritten.   *)
THEOREM ImageCoverage ==
    ASSUME NEW width \in Nat \ {0}, NEW height \in Nat \ {0}
    PROVE  /\ ImagePixels(width, height)
                \subseteq (0..(width - 1)) \X (0..(height - 1))
           /\ width % 2 = 0 /\ height % 2 = 0 =>
                ImagePixels(width, height)
                    = (0..(width - 1)) \X (0..(height - 1))
           /\ width % 2 = 1 => \A y : <<width - 1, y>> \notin ImagePixels(width, height)
           /\ height % 2 = 1 => \A x : <<x, height - 1>> \notin ImagePixels(width, height)
  <1>1. ASSUME NEW n \in Nat \ {0}
        PROVE  ImageColumns(n) = 0..(2 * (n \div 2) - 1)
    <2> DEFINE m == n \div 2
    <2>1. m \in Nat
      OBVIOUS
    <2>2. ImageColumns(n) = {x + m : x \in (-m)..(m - 1)}
      BY DEF ImageColumns
    <2> HIDE DEF m
    <2>3. \A y \in 0..(2 * m - 1) : y - m \in (-m)..(m - 1) /\ y = (y - m) + m
      BY <2>1
    <2>4. \A x \in (-m)..(m - 1) : x + m \in 0..(2 * m - 1)
      BY <2>1
    <2>5. ImageColumns(n) = 0..(2 * m - 1)
      BY <2>2, <2>3, <2>4
    <2> QED BY <2>5 DEF m
  <1>2. ASSUME NEW n \in Nat \ {0}
        PROVE  /\ 2 * (n \div 2) <= n /\ 2 * (n \div 2) \in Nat
               /\ n % 2 = 0 => 2 * (n \div 2) = n
               /\ n % 2 = 1 => 2 * (n \div 2) = n - 1
    OBVIOUS
  <1>3. ImagePixels(width, height) =
            (0..(2 * (width \div 2) - 1)) \X (0..(2 * (height \div 2) - 1))
    BY <1>1 DEF ImagePixels
  <1>4. ImagePixels(width, height) \subseteq (0..(width - 1)) \X (0..(height - 1))
    BY <1>2, <1>3
  <1>5. width % 2 = 0 /\ height % 2 = 0 =>
            ImagePixels(width, height) = (0..(width - 1)) \X (0..(height - 1))
    BY <1>2, <1>3
  <1>6. width % 2 = 1 => \A y : <<width - 1, y>> \notin ImagePixels(width, height)
    BY <1>2, <1>3
  <1>7. height % 2 = 1 => \A x : <<x, height - 1>> \notin ImagePixels(width, height)
    BY <1>2, <1>3
  <1> QED BY <1>4, <1>5, <1>6, <1>7
=============================================================================
