---------------------------- MODULE RenderSession ----------------------------
(* One press of the Render button (RayTraceRendererEditor.cs) after another:  *)
(* Init, Render and Release of RayTraceRenderer.cs and the native scene that  *)
(* interface.cpp keeps in static variables.  Everything runs on Unity's main  *)
(* thread; an exception leaves the button's handler where it is thrown, so    *)
(* what it has begun stays as it is until the button is pressed again.        *)
EXTENDS Integers, Sequences, FiniteSets

CONSTANTS Textures,    \* the textures of the project
          NoTexture,   \* the texture of a material that has none
          MaxParts,    \* bound: submeshes and terrains of the Unity scene
          MaxVersion,  \* bound: states a texture goes through by editing
          MaxClicks,   \* bound: presses of the button
          Width, Height

ASSUME RenderAssumption ==
    /\ NoTexture \notin Textures
    /\ MaxParts \in Nat
    /\ MaxVersion \in Nat \ {0}
    /\ MaxClicks \in Nat
    /\ Width \in Nat \ {0}
    /\ Height \in Nat \ {0}

VARIABLES
    pc,        \* what the button's handler is doing
    clicks,
    parts,     \* the visible submeshes, then the visible terrains
    version,   \* texture -> its present content
    native,    \* the native scenes that exist, by number
    handle,    \* the static variable scene: the number of a native scene
    committed, \* rtcCommit ran on the native scene
    geoms,     \* geometry id (from 1) -> the part it was made from
    hasScene,  \* the field scene is not null
    models,    \* scene.models: the part and the texture content it was read from
    cache,     \* SimpleMaterial.textures: texture -> content read, 0 if absent
    column,    \* Render's i: columns traced so far
    painted,   \* pixels of targetTexture that were set
    image,     \* the field texture
    bar,       \* the progress bar is on the screen
    failures   \* history: presses that ended with an exception

vars == <<pc, clicks, parts, version, native, handle, committed, geoms,
          hasScene, models, cache, column, painted, image, bar, failures>>

Parts == [terrain : BOOLEAN, texture : Textures \cup {NoTexture}]
NoImage == [kind |-> "none", columns |-> 0, pixels |-> {}]
Blank == [kind |-> "blank", columns |-> 0, pixels |-> {}]
EmptyCache == [t \in Textures |-> 0]

Init ==
    /\ pc = "idle"
    /\ clicks = 0
    /\ parts = <<>>
    /\ version = [t \in Textures |-> 1]
    /\ native = {}
    /\ handle = 0
    /\ committed = FALSE
    /\ geoms = <<>>
    /\ hasScene = FALSE
    /\ models = <<>>
    /\ cache = EmptyCache
    /\ column = 0
    /\ painted = {}
    /\ image = NoImage
    /\ bar = FALSE
    /\ failures = 0

-----------------------------------------------------------------------------
(* Init up to the loop over the renderers.  Native Init overwrites its static *)
(* variables, whatever they hold.                                             *)

FindParts ==
    \E n \in 0..MaxParts :
        /\ parts' \in [1..n -> Parts]
        /\ \A i, j \in 1..n : i < j /\ parts'[i].terrain => parts'[j].terrain

(* Mutant: the texture cache is left to Release.                              *)
BeginKeepsCache ==
    /\ pc = "idle"
    /\ clicks < MaxClicks
    /\ clicks' = clicks + 1
    /\ bar' = TRUE
    /\ hasScene' = TRUE
    /\ models' = <<>>
    /\ handle' = clicks + 1
    /\ native' = native \cup {clicks + 1}
    /\ geoms' = <<>>
    /\ committed' = FALSE
    /\ FindParts
    /\ pc' = "init"
    /\ UNCHANGED <<version, cache, column, painted, image, failures>>

Begin ==
    /\ pc = "idle"
    /\ clicks < MaxClicks
    /\ clicks' = clicks + 1
    /\ bar' = TRUE
    /\ hasScene' = TRUE
    /\ models' = <<>>
    /\ handle' = clicks + 1
    /\ native' = native \cup {clicks + 1}
    /\ geoms' = <<>>
    /\ committed' = FALSE
    /\ cache' = EmptyCache
    /\ FindParts
    /\ pc' = "init"
    /\ UNCHANGED <<version, column, painted, image, failures>>

(* rtcNewTriangleMesh numbers the geometries of a scene in order.             *)
AddMesh(part) == geoms' = Append(geoms, part)

(* SimpleMaterial takes a texture from the cache or reads it into the cache;  *)
(* SimpleTerrainMaterial always reads.                                        *)
Read(p) == IF p.texture = NoTexture THEN 0
           ELSE IF ~p.terrain /\ cache[p.texture] # 0 THEN cache[p.texture]
           ELSE version[p.texture]

ReadIntoCache(p) ==
    cache' = [t \in Textures |-> IF ~p.terrain /\ t = p.texture THEN Read(p)
                                                              ELSE cache[t]]

(* The next submesh or terrain becomes a geometry, then a model.              *)
AddPart ==
    /\ pc = "init"
    /\ Len(geoms) < Len(parts)
    /\ LET k == Len(geoms) + 1
       IN  /\ AddMesh(k)
           /\ models' = Append(models, [part |-> k, seen |-> Read(parts[k])])
           /\ ReadIntoCache(parts[k])
    /\ UNCHANGED <<pc, clicks, parts, version, native, handle, committed,
                   hasScene, column, painted, image, bar, failures>>

(* Mutant: a part that cannot be read is skipped.                             *)
AddPartSkips ==
    /\ pc = "init"
    /\ Len(geoms) < Len(parts)
    /\ AddMesh(Len(geoms) + 1)
    /\ UNCHANGED <<pc, clicks, parts, version, native, handle, committed,
                   hasScene, models, cache, column, painted, image, bar,
                   failures>>

(* Reading the part throws, before AddMesh (its triangles) or after it (a     *)
(* submesh without a material, a texture that cannot be read, its lights):    *)
(* the geometry has no model, and neither Render nor Release runs.            *)
AddPartThrows ==
    /\ pc = "init"
    /\ Len(geoms) < Len(parts)
    /\ LET k == Len(geoms) + 1
       IN  \/ UNCHANGED <<geoms, cache>>
           \/ AddMesh(k) /\ UNCHANGED cache
           \/ AddMesh(k) /\ ReadIntoCache(parts[k])
    /\ pc' = "idle"
    /\ failures' = failures + 1
    /\ UNCHANGED <<clicks, parts, version, native, handle, committed, hasScene,
                   models, column, painted, image, bar>>

(* Commit, the new output texture, and the first lines of Render.             *)
Commit ==
    /\ pc = "init"
    /\ Len(geoms) = Len(parts)
    /\ committed' = TRUE
    /\ image' = Blank
    /\ column' = 0
    /\ painted' = {}
    /\ pc' = "render"
    /\ UNCHANGED <<clicks, parts, version, native, handle, geoms, hasScene,
                   models, cache, bar, failures>>

-----------------------------------------------------------------------------
(* Render traces one column; SetColor turns both axes around.                 *)

Pixels == (0..(Width - 1)) \X (0..(Height - 1))

(* Mutant: the columns are counted from Width.                                *)
ColumnPixelsOffByOne(i) ==
    {<<Width - i, Height - j - 1>> : j \in 0..(Height - 1)}

ColumnPixels(i) == {<<Width - i - 1, Height - j - 1>> : j \in 0..(Height - 1)}

TraceColumn ==
    /\ pc = "render"
    /\ column < Width
    /\ painted' = painted \cup ColumnPixels(column)
    /\ column' = column + 1
    /\ UNCHANGED <<pc, clicks, parts, version, native, handle, committed,
                   geoms, hasScene, models, cache, image, bar, failures>>

(* TraceColor throws, for instance on a mesh without uv or normals.           *)
TraceThrows ==
    /\ pc = "render"
    /\ column < Width
    /\ models # <<>>
    /\ pc' = "idle"
    /\ failures' = failures + 1
    /\ UNCHANGED <<clicks, parts, version, native, handle, committed, geoms,
                   hasScene, models, cache, column, painted, image, bar>>

(* Mutant: Release forgets the scene but does not delete it.                  *)
FinishNoDelete ==
    /\ pc = "render"
    /\ column = Width \/ column > 0
    /\ image' = [kind |-> "render", columns |-> column, pixels |-> painted]
    /\ cache' = EmptyCache
    /\ hasScene' = FALSE
    /\ models' = <<>>
    /\ bar' = FALSE
    /\ pc' = "idle"
    /\ UNCHANGED <<clicks, parts, version, native, handle, committed, geoms,
                   column, painted, failures>>

(* Mutant: the handler returns right after a cancelled Render.                *)
FinishCancelled ==
    /\ pc = "render"
    /\ column = Width \/ column > 0
    /\ image' = [kind |-> "render", columns |-> column, pixels |-> painted]
    /\ hasScene' = (column < Width)
    /\ bar' = (column < Width)
    /\ native' = IF column < Width THEN native ELSE native \ {handle}
    /\ cache' = IF column < Width THEN cache ELSE EmptyCache
    /\ models' = <<>>
    /\ pc' = "idle"
    /\ UNCHANGED <<clicks, parts, version, handle, committed, geoms, column,
                   painted, failures>>

(* The loop is over, or the user cancelled it after a column: the output      *)
(* texture gets what was traced; then Release and ClearProgressBar.           *)
Finish ==
    /\ pc = "render"
    /\ column = Width \/ column > 0
    /\ image' = [kind |-> "render", columns |-> column, pixels |-> painted]
    /\ native' = native \ {handle}
    /\ cache' = EmptyCache
    /\ hasScene' = FALSE
    /\ models' = <<>>
    /\ bar' = FALSE
    /\ pc' = "idle"
    /\ UNCHANGED <<clicks, parts, version, handle, committed, geoms, column,
                   painted, failures>>

-----------------------------------------------------------------------------
(* Between two presses.                                                       *)

(* The Clear button; without a texture it throws and changes nothing.         *)
Clear ==
    /\ pc = "idle"
    /\ image # NoImage
    /\ image' = Blank
    /\ UNCHANGED <<pc, clicks, parts, version, native, handle, committed,
                   geoms, hasScene, models, cache, column, painted, bar,
                   failures>>

(* Selecting the object again runs OnEnable, which removes the progress bar.  *)
Reselect ==
    /\ pc = "idle"
    /\ bar' = FALSE
    /\ UNCHANGED <<pc, clicks, parts, version, native, handle, committed,
                   geoms, hasScene, models, cache, column, painted, image,
                   failures>>

EditTexture(t) ==
    /\ pc = "idle"
    /\ version[t] < MaxVersion
    /\ version' = [version EXCEPT ![t] = @ + 1]
    /\ UNCHANGED <<pc, clicks, parts, native, handle, committed, geoms,
                   hasScene, models, cache, column, painted, image, bar,
                   failures>>

Next == \/ Begin \/ AddPart \/ AddPartThrows \/ Commit
        \/ TraceColumn \/ TraceThrows \/ Finish
        \/ Clear \/ Reselect
        \/ \E t \in Textures : EditTexture(t)

Spec == Init /\ [][Next]_vars

-----------------------------------------------------------------------------
(* Every variable has its type.                                               *)
TypeOK ==
    /\ pc \in {"idle", "init", "render"}
    /\ clicks \in 0..MaxClicks
    /\ parts \in Seq(Parts)
    /\ version \in [Textures -> 1..MaxVersion]
    /\ native \in SUBSET (1..MaxClicks)
    /\ handle \in 0..MaxClicks
    /\ committed \in BOOLEAN
    /\ geoms \in Seq(Nat)
    /\ hasScene \in BOOLEAN
    /\ models \in Seq([part : Nat, seen : 0..MaxVersion])
    /\ cache \in [Textures -> 0..MaxVersion]
    /\ column \in 0..Width
    /\ painted \in SUBSET Pixels
    /\ image \in [kind : {"none", "blank", "render"}, columns : 0..Width,
                  pixels : SUBSET Pixels]
    /\ bar \in BOOLEAN
    /\ failures \in 0..MaxClicks

(* While Render traces, a geometry id that native Intersect may return is the *)
(* index of the model made from the same part, although AddMesh's return      *)
(* value is dropped and the two lists are filled by two separate calls; the   *)
(* native scene exists and is committed.                                      *)
HitsFindTheirModel ==
    pc = "render" =>
        /\ handle \in native /\ committed /\ hasScene
        /\ Len(geoms) = Len(models)
        /\ \A g \in DOMAIN geoms : models[g].part = geoms[g]

(* Render never uses a texture content older than this press of the button,   *)
(* whatever an earlier press that failed has left in the static cache.        *)
TexturesAreFresh ==
    pc = "render" =>
        \A g \in DOMAIN models :
            LET t == parts[models[g].part].texture
            IN  t # NoTexture => models[g].seen = version[t]

(* A native scene outlives its press of the button only if that press failed, *)
(* and then for good: the handle is overwritten by the next press.            *)
ScenesLeakOnlyByFailure ==
    Cardinality(native) = failures + (IF pc = "idle" THEN 0 ELSE 1)

(* The output texture holds exactly the columns that were traced, all of them *)
(* unless the user cancelled, each pixel in its place.                        *)
ImageIsWhatWasTraced ==
    image.kind = "render" =>
        /\ image.pixels =
             {q \in Pixels : q[1] >= Width - image.columns}
        /\ image.columns = Width => image.pixels = Pixels

(* The progress bar stays on the screen only after a press that failed, the   *)
(* same one that left the scene object behind.                                *)
BarStaysOnlyByFailure == pc = "idle" /\ bar => hasScene /\ failures > 0
=============================================================================
