------------------------------ MODULE TraceColor ------------------------------
(* The recursions of RayTraceRenderer.TraceColor and GetLightPathColor for    *)
(* one pixel of Render after another: how the samples are split at a hit,     *)
(* which calls follow in which order, how deep they nest and how many rays    *)
(* they cast.  A colour is kept only as far as it is a number: every partial  *)
(* colour is added or multiplied into the pixel, so one undefined colour      *)
(* (0/0) makes the pixel undefined.  Factors are counted in Unit-ths.         *)
EXTENDS Integers, Sequences, Samplers

CONSTANTS SampleNum,  \* the field sampleNum
          MaxDepth,   \* the depth Render calls TraceColor with
          Layers,     \* bound: surfaces on one straight line of the scene
          Unit,       \* bound: the resolution of the factors
          MaxReflect, \* bound: reflectFactor; above Unit only on back faces
          Beyond,     \* bound: how far LinearSample leaves the texels' range
          MaxShadow   \* nested light paths until dir * 0.01 * ... * 0.01 is 0

ASSUME TraceAssumption ==
    /\ SampleNum \in Nat
    /\ MaxDepth \in Nat
    /\ Layers \in Nat
    /\ Unit \in Nat \ {0}
    /\ MaxReflect \in Nat /\ MaxReflect >= Unit
    /\ Beyond \in Nat
    /\ MaxShadow \in Nat \ {0}

VARIABLES
    extrapolated, \* a mesh has negative texture coordinates
    antiAliasing,
    lights,  \* scene.lights.Length
    sub,     \* sub-pixels begun
    stack,   \* the running calls, the innermost one last
    rays,    \* history: rays cast for this sub-pixel, not if extrapolated
    nan      \* the colour of the pixel is undefined

vars == <<extrapolated, antiAliasing, lights, sub, stack, rays, nan>>
scene == <<extrapolated, antiAliasing, lights>>

(* The most rays a call casts on its line, towards the lights and by its      *)
(* reflected and diffuse samples; each of these is a call with one sample.    *)
MaxSamples(n) == (n * MaxReflect) \div Unit
LineRays(l) == Layers + 1 + Layers * l * MaxShadow
RaysOfOne(l) ==
    LET f[d \in 0..MaxDepth] == IF d = 0 THEN 0
            ELSE LineRays(l) + Layers * MaxSamples(1) * f[d - 1]
    IN  f
Budget(n) ==
    IF MaxDepth = 0 THEN 0
    ELSE LineRays(lights) + Layers * MaxSamples(n) * RaysOfOne(lights)[MaxDepth - 1]

splitPixel == IF antiAliasing THEN 3 ELSE 1
subSampleNum == SampleNum \div (splitPixel * splitPixel)

(* A call that has not cast its ray: layer counts the surfaces its line has   *)
(* passed already.  After the hit the other fields count what is left to do.  *)
(* shadow is 0 for a call of TraceColor and n for the n-th nested call of     *)
(* GetLightPathColor.                                                         *)
Call(sample, depth, layer, shadow) ==
    [sample |-> sample, depth |-> depth, layer |-> layer, shadow |-> shadow,
     hit |-> FALSE, reflect |-> 0, lit |-> 0, diffuse |-> 0, trans |-> 0,
     through |-> FALSE]

Frames == [sample : Int, depth : 0..MaxDepth, layer : 0..Layers,
           shadow : 0..MaxShadow, hit : BOOLEAN, reflect : Int, lit : Nat,
           diffuse : Int, trans : Int, through : BOOLEAN]

Counted(f) == /\ f.sample >= 0 /\ f.reflect >= 0
              /\ f.diffuse >= 0 /\ f.trans >= 0

Init ==
    /\ extrapolated \in BOOLEAN
    /\ antiAliasing \in BOOLEAN
    /\ lights \in 0..1
    /\ sub = 0
    /\ stack = <<>>
    /\ rays = 0
    /\ nan = FALSE

-----------------------------------------------------------------------------
(* Render: the sub-pixels of a pixel, then the next pixel.                    *)
SubPixel ==
    /\ stack = <<>>
    /\ sub < splitPixel * splitPixel
    /\ sub' = sub + 1
    /\ stack' = <<Call(subSampleNum, MaxDepth, 0, 0)>>
    /\ rays' = 0
    /\ UNCHANGED <<scene, nan>>

NextPixel ==
    /\ stack = <<>>
    /\ sub = splitPixel * splitPixel
    /\ sub' = 0
    /\ nan' = FALSE
    /\ UNCHANGED <<scene, stack, rays>>

-----------------------------------------------------------------------------
(* Calls of either function.                                                  *)
top == stack[Len(stack)]
Running == stack # <<>>
Return == stack' = SubSeq(stack, 1, Len(stack) - 1)
Waits == Running /\ top.hit /\ top.shadow = 0
CastRay == rays' = IF extrapolated \/ rays > Budget(subSampleNum) THEN rays
                                                             ELSE rays + 1

(* The innermost call goes on as f and calls TraceColor as c.                 *)
Recurse(f, c) == stack' = Append([stack EXCEPT ![Len(stack)] = f], c)

(* The call for a reflected or a diffuse sample.                              *)
Secondary(f) == Call(1, f.depth - 1, 0, 0)

(* Mutant: the ray starts on the surface it has just hit.                     *)
BehindAtHit(f) == Call(f.trans, f.depth, f.layer, 0)

(* The call for what is behind a transparent surface.                         *)
Behind(f) == Call(f.trans, f.depth, f.layer + 1, 0)

(* Mutant: the direction of the next light path is not scaled down.           *)
FurtherUnscaled(f) == Call(0, f.depth, f.layer, IF f.shadow = 0 THEN 1
                                                             ELSE f.shadow)

(* The call for a light, and the one behind a surface on the way to it.       *)
Further(f) == Call(0, f.depth, f.layer, f.shadow + 1)

(* Mutant: the factor is not clamped.                                         *)
DiffuseUnclamped(t, r) == Unit - t - r

DiffuseFactor(t, r) ==
    IF t + r > Unit THEN 0 ELSE IF t + r < 0 THEN Unit ELSE Unit - t - r

(* Mutant: the lights are not counted.                                        *)
DivisorOfSamples(diffuseSample) == diffuseSample

(* What the light of a surface is divided by.                                 *)
Divisor(diffuseSample) == diffuseSample + lights

-----------------------------------------------------------------------------
(* TraceColor.                                                                *)
TooDeep ==
    /\ Running /\ ~top.hit
    /\ top.shadow = 0 /\ top.depth = 0
    /\ Return
    /\ UNCHANGED <<scene, sub, rays, nan>>

Miss ==
    /\ Running /\ ~top.hit
    /\ top.shadow = 0 /\ top.depth > 0
    /\ CastRay
    /\ Return
    /\ UNCHANGED <<scene, sub, nan>>

(* transFactor t, grayscale g and reflectFactor r of the surface that is hit; *)
(* it faces m of the lights, and these are bright enough.                     *)
Hit(t, g, r, m) ==
    /\ Running /\ ~top.hit
    /\ top.shadow = 0 /\ top.depth > 0
    /\ top.layer < Layers
    /\ CastRay
    /\ LET diffuse == Truncated(top.sample * g * DiffuseFactor(t, r), Unit * Unit)
           f == [top EXCEPT
                   !.hit = TRUE,
                   !.reflect = Truncated(top.sample * r, Unit),
                   !.lit = m,
                   !.diffuse = diffuse,
                   !.trans = Truncated(top.sample * g * t, Unit * Unit),
                   !.through = 100 * t > Unit]
       IN  /\ stack' = [stack EXCEPT ![Len(stack)] = f]
           /\ nan' = (nan \/ Divisor(diffuse) = 0)
    /\ UNCHANGED <<scene, sub>>

(* Mutant: the loop does not count.                                           *)
ReflectForever ==
    /\ Waits
    /\ top.reflect > 0
    /\ Recurse(top, Secondary(top))
    /\ UNCHANGED <<scene, sub, rays, nan>>

Reflect ==
    /\ Waits
    /\ top.reflect > 0
    /\ Recurse([top EXCEPT !.reflect = @ - 1], Secondary(top))
    /\ UNCHANGED <<scene, sub, rays, nan>>

(* GetAllLightsColor: one light after another.                                *)
Light ==
    /\ Waits
    /\ top.reflect <= 0 /\ top.lit > 0
    /\ Recurse([top EXCEPT !.lit = @ - 1], Further(top))
    /\ UNCHANGED <<scene, sub, rays, nan>>

Diffuse ==
    /\ Waits
    /\ top.reflect <= 0 /\ top.lit = 0 /\ top.diffuse > 0
    /\ Recurse([top EXCEPT !.diffuse = @ - 1], Secondary(top))
    /\ UNCHANGED <<scene, sub, rays, nan>>

(* The ray goes on in the same direction, at the same depth.                  *)
Through ==
    /\ Waits
    /\ top.reflect <= 0 /\ top.lit = 0 /\ top.diffuse <= 0 /\ top.through
    /\ Recurse([top EXCEPT !.through = FALSE], Behind(top))
    /\ UNCHANGED <<scene, sub, rays, nan>>

Shaded ==
    /\ Waits
    /\ top.reflect <= 0 /\ top.lit = 0 /\ top.diffuse <= 0 /\ ~top.through
    /\ Return
    /\ UNCHANGED <<scene, sub, rays, nan>>

-----------------------------------------------------------------------------
(* GetLightPathColor.  The path behind a transparent surface starts on that   *)
(* surface and may hit it again, so no number of surfaces bounds the nesting; *)
(* its direction shrinks by a hundred until it is zero and nothing is hit.    *)
LightPathEnds ==
    /\ Running /\ ~top.hit
    /\ top.shadow > 0
    /\ CastRay
    /\ Return
    /\ UNCHANGED <<scene, sub, nan>>

LightPathThrough ==
    /\ Running /\ ~top.hit
    /\ top.shadow > 0 /\ top.shadow < MaxShadow
    /\ CastRay
    /\ Recurse([top EXCEPT !.hit = TRUE], Further(top))
    /\ UNCHANGED <<scene, sub, nan>>

LightPathReturns ==
    /\ Running /\ top.hit
    /\ top.shadow > 0
    /\ Return
    /\ UNCHANGED <<scene, sub, rays, nan>>

-----------------------------------------------------------------------------
(* LinearSample interpolates between texels, but extrapolates at negative     *)
(* coordinates, where (int) rounds up and the weights are negative.           *)
Factors == IF extrapolated THEN -Beyond..(Unit + Beyond) ELSE 0..Unit

Next ==
    \/ SubPixel \/ NextPixel
    \/ TooDeep \/ Miss \/ Reflect \/ Light \/ Diffuse \/ Through \/ Shaded
    \/ LightPathEnds \/ LightPathThrough \/ LightPathReturns
    \/ \E t, g \in Factors, r \in 0..MaxReflect, m \in 0..lights :
         Hit(t, g, r, m)

Spec == Init /\ [][Next]_vars

(* The main thread runs on.                                                   *)
FairSpec == Spec /\ WF_vars(Next)

-----------------------------------------------------------------------------
(* Every variable has its type, and without extrapolated texels no number of  *)
(* samples is ever negative, although the factors of a surface may add up to  *)
(* more than one.                                                             *)
TypeOK ==
    /\ extrapolated \in BOOLEAN
    /\ antiAliasing \in BOOLEAN
    /\ lights \in 0..1
    /\ sub \in 0..9
    /\ stack \in Seq(Frames)
    /\ rays \in Nat
    /\ nan \in BOOLEAN
    /\ ~extrapolated => \A i \in DOMAIN stack : Counted(stack[i])

(* The nesting of the calls is bounded, although the call for what is behind  *)
(* a transparent surface keeps its depth (each depth runs along one line) and *)
(* a light path may hit the surface it has just passed again and again.       *)
StackBounded ==
    \A i \in DOMAIN stack :
        i <= (MaxDepth - stack[i].depth) * (Layers + 1) + stack[i].layer
                + stack[i].shadow + 1

(* The number of rays of a sub-pixel, light paths included, grows linearly    *)
(* with its samples, not with their power: only the first surfaces of the     *)
(* line from the camera are sampled more than once, however the factors of    *)
(* the surfaces add up.  Extrapolated texels multiply samples: no such bound. *)
RaysWithinBudget == ~extrapolated => rays <= Budget(subSampleNum)

(* The colour of a pixel is undefined only without a light, where a surface   *)
(* that gets no diffuse sample divides its light by zero, or where texels are *)
(* extrapolated: a negative number of samples may cancel the lights.          *)
UndefinedOnlyInTheDark == nan => lights = 0 \/ extrapolated

(* Every pixel is finished.                                                   *)
PixelsAreDone == []<>(stack = <<>> /\ sub = splitPixel * splitPixel)
=============================================================================
