SPECIFICATION Spec
CONSTANTS
    Textures = {t1, t2}
    NoTexture = NoTexture
    MaxParts = 3
    MaxVersion = 2
    MaxClicks = 3
    Width = 3
    Height = 2
SYMMETRY TextureSymmetry
INVARIANTS
    TypeOK
    HitsFindTheirModel
    TexturesAreFresh
    ScenesLeakOnlyByFailure
    ImageIsWhatWasTraced
    BarStaysOnlyByFailure
    BatchAnswersLikeIntersect
CHECK_DEADLOCK FALSE
