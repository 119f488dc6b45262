SPECIFICATION Spec
CONSTANTS
    p1 = p1
    p2 = p2
    p3 = p3
    p4 = p4
    p5 = p5
    Places <- MCPlaces
    ChunkSizes = {256, 272, 288, 320, 336, 448, 16777216, 33554432}
SYMMETRY PlaceSymmetry
INVARIANTS
    TreesAreSound
    SearchesAreBestFit
