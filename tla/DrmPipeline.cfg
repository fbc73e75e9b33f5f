SPECIFICATION Spec
CONSTANTS
  argb = argb
  xrgb = xrgb
  nv12 = nv12
  None = None
  NumCrtcs = 2
  Count = 2
  Encoders <- Masks
  Connectors <- AnyConnectors
  Planes <- AnyPlanes
  Formats <- AllFormats
  XVariant <- AlphaToX
  Pictures = {1, 5, 6, 7, 16}
  Width = 6
INVARIANTS
  PipelineWorks
  FindsPipeline
  ConnectorAsDocumented
  PictureCentred
