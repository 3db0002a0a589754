------------------------------ MODULE MCPicture -----------------------------
(* Three objects on and between rows, for TLC, and a video memory in which no
   two neighbours are alike.  The program writes either to the objects or to
   the registers of the layers: the two have no state in common. *)
EXTENDS ObjectTable, Scanline

MCInit == Init /\ VideoInit
MCNext ==
    \/ Next /\ lcdc = {} /\ wy + wx + scy + scx = 0 /\ UNCHANGED videoVars
    \/ WriteVideo /\ \A b \in Rows : oam_hash[b] = <<>>
                  /\ \A o \in Objects : oam[o] = [y |-> 0, x |-> 0, colour |-> 0]
                  /\ ~tall
                  /\ UNCHANGED vars
MCSpec == MCInit /\ [][MCNext]_<<vars, videoVars>>

MCYs == {0, 8, 23, 32}
MCXs == {0, 8, 12}
MCColours == {0, 1}
\* First and last lines of objects and rows, and lines beside them.
MCLines == {0, 6, 7, 8, 14, 15, 16, 23, 255}
MCColumns == {0, 3, 4}

MCTileData == [a \in 0..6143 |-> (a * 57 + (a \div 16) * 31 + (a \div 256) * 11) % 256]
MCTileMap1 == [n \in 0..1023 |-> (n * 37 + (n \div 32) * 5) % 256]
MCTileMap2 == [n \in 0..1023 |-> (n * 91 + (n \div 32) * 17 + 3) % 256]
\* Within and between tiles, where the window ends, and where sums pass 255.
MCPositions == {5, 8, 142, 165, 250}
MCLcdcSet ==
    {{}, {"BG_ENABLE"}, {"OBJ_ENABLE"}, {"WIN_ENABLE", "OBJ_ENABLE"},
     {"BG_ENABLE", "WIN_ENABLE", "WIN_TILE_MAP", "OBJ_ENABLE", "BGWIN_TILE_DATA"},
     {"BG_ENABLE", "WIN_ENABLE", "BG_TILE_MAP", "OBJ_ENABLE"}}
MCTiles == {0, 127, 255}
MCLineSet == {0, 8, 143, 255}
MCPixelSet == {1, 7, 100, 159}
=============================================================================
