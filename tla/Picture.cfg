SPECIFICATION MCSpec
CONSTANTS
    NumObjs = 3
    MaxFound = 2
    Ys <- MCYs
    Xs <- MCXs
    Colours <- MCColours
    Lines <- MCLines
    Columns <- MCColumns
    tile_data <- MCTileData
    tile_map1 <- MCTileMap1
    tile_map2 <- MCTileMap2
    Positions <- MCPositions
    LcdcSet <- MCLcdcSet
    Tiles <- MCTiles
    LineSet <- MCLineSet
    PixelSet <- MCPixelSet
INVARIANTS
    HashInv
    RowsEnd
    LookupIsExact
    FrontmostWins
    LayersShowPictures
    ObjectsOnlyAdd
