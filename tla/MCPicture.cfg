SPECIFICATION Spec
CONSTANTS
    Width = 4
    Height = 3
    PpsChoices <- MCPps
    HeaderFlags <- MCFlags
    MaxSegments = 3
INVARIANTS TypeOK ScanOrder SliceNamed ContextsSynchronised EngineInSync PictureComplete FiltersAgree
PROPERTIES KeepsFilterOrder
