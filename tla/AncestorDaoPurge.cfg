SPECIFICATION Spec
CONSTANTS
    Name = {x, y}
    Content = {c1}
    Directory = dir
    MaxId = 4
    MaxHandle = 3
    MaxCondemned = 2
    None = None
SYMMETRY Symmetry
PROPERTY PurgesOnlyCondemned
