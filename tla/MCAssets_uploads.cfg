SPECIFICATION AssetsSpec
CONSTANTS
    World = {w1, w2}
    Content = {c1, c2, c3}
    Uploader = {r1, r2}
    ImageBytes = 2
    ThumbBytes = 1
    WorldQuota = 3
SYMMETRY Symmetric
INVARIANTS
    RowHasBlobs
    OvershootBounded
