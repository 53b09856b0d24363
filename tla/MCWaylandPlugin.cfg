CONSTANTS
  Windows = {1, 2}
  MaxSurfaces = 3
  Blurs = {"whole", "part"}
  Contrasts = {"contrast"}
  Slides = {"left"}
  Slots = {"left"}
  Tiles = {"tile"}
  Images = {"image"}
  Paddings = {0, 1}
  Handles = {"h1", "h2"}
  Tags = {"t1", "t2"}
  MaxTokens = 2
  MaxImports = 4
  Topics <- MCTopics
SPECIFICATION Spec
INVARIANTS
  EffectsShown
  ShadowShown
  ExportsSettle
  ToplevelsTold
  TokenUsedOnce
  ShowingDesktopKnown
