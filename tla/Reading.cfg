SPECIFICATION Spec
CONSTANTS
    Depth <- DepthOf
    Lexical <- Order
    Positions <- PositionNames
    Length <- LengthOf
    Shape <- ShapeOf
    Namespace <- SpaceOf
    NoisyFields = {"ts"}
    NoisySegments = {"_meta"}
    MaxCells = 6
    MaxChanges = 2
    MinLinkLength = 3
    Catalogue <- CatalogueOf
    Contents <- ContentsOf
    Manifest <- ManifestOf
    Sanitized <- SanitizedAs
    Casts <- Casts0
INVARIANT AlignmentIsComplete
INVARIANT NothingHidden
 
 
INVARIANT OneVerdict
INVARIANT CrossingsKeepReceipts
PROPERTY SlotsAreTrue
