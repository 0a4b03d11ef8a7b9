SPECIFICATION Spec
CONSTANTS
    Charts <- MCCharts
    MaxTicks = {3, 4, 7}
    None = None
INVARIANTS
    AnnouncedIsDrawn
    SecondEscapePasses
    PointedIsNearest
