------------------------------ MODULE Scanline ------------------------------
(***************************************************************************)
(* A line of the picture (ppu_render_line in src/emu/ppu.c): where each    *)
(* layer finds a pixel in the video memory, and which layer is seen.  A    *)
(* line is drawn in one go, from the memory and the registers as they      *)
(* stand, so it is an operator; the state is the registers, which the      *)
(* program may have written between any two lines.                         *)
(*                                                                         *)
(* Of the objects this module needs what ObjectTable computes: the index   *)
(* that the frontmost one has in a pixel, 0 for none, and its attributes.  *)
(* LCDC is the set of its bits that are 1, by their names in               *)
(* ppu_lcdc_bitmask (the size of objects is `tall' in ObjectTable); what   *)
(* is drawn is a palette register and an index, since no colour of         *)
(* color_pal is 0 and the code tells shades no further apart.              *)
(*                                                                         *)
(* A definition named <definition>_<slip> is not part of the model: it is  *)
(* the definition after a plausible slip in the code.                      *)
(***************************************************************************)
EXTENDS Integers

CONSTANTS
    tile_data, tile_map1, tile_map2,    \* what the program has written there
    Positions,                          \* the bytes it gives to registers and objects
    LcdcSet, Tiles,                     \* the values of LCDC, the tiles of objects
    LineSet, PixelSet                   \* the lines and pixels looked at

LcdcBits ==
    {"BG_ENABLE", "OBJ_ENABLE", "BG_TILE_MAP", "BGWIN_TILE_DATA", "WIN_ENABLE",
     "WIN_TILE_MAP"}

\* 384 tiles of 16 bytes, maps of 32 by 32 tiles.
Bytes == 0..255
TileData == 0..6143
TileMap == 0..1023

ASSUME ScanlineAssumption ==
    /\ tile_data \in [TileData -> Bytes]
    /\ tile_map1 \in [TileMap -> Bytes] /\ tile_map2 \in [TileMap -> Bytes]
    /\ Positions \subseteq 0..255 /\ Tiles \subseteq 0..255
    /\ LcdcSet \subseteq SUBSET LcdcBits
    /\ LineSet \subseteq 0..255 /\ PixelSet \subseteq 0..159

VARIABLES lcdc, scy, scx, wy, wx

videoVars == <<lcdc, scy, scx, wy, wx>>

\* The registers of static storage.
VideoInit == lcdc = {} /\ scy = 0 /\ scx = 0 /\ wy = 0 /\ wx = 0

\* wr_reg of each.
WriteLayers == lcdc' \in LcdcSet /\ UNCHANGED <<scy, scx, wy, wx>>
WriteScy == scy' \in Positions /\ UNCHANGED <<lcdc, scx, wy, wx>>
WriteScx == scx' \in Positions /\ UNCHANGED <<lcdc, scy, wy, wx>>
WriteWy == wy' \in Positions /\ UNCHANGED <<lcdc, scy, scx, wx>>
WriteWx == wx' \in Positions /\ UNCHANGED <<lcdc, scy, scx, wy>>
WriteVideo == WriteLayers \/ WriteScy \/ WriteScx \/ WriteWy \/ WriteWx

VideoSpec == VideoInit /\ [][WriteVideo]_videoVars

-----------------------------------------------------------------------------
(* The layers                                                               *)

\* Pixel n from the left of the line of a tile that has two bytes at address.
Bit(byte, n) == (byte \div 2^(7 - n)) % 2
Index(address, n) == 2 * Bit(tile_data[address + 1], n) + Bit(tile_data[address], n)

Signed(byte) == IF byte < 128 THEN byte ELSE byte - 256

\* The signed numbers start 2 kB too early.
get_tile_line_FromFirst(tile, line) ==
    2 * line + (IF "BGWIN_TILE_DATA" \in lcdc THEN 16 * tile
                ELSE 2048 + 16 * Signed(tile))
\* The address of a line of a tile; in the second half of the tile data the
\* number of a tile is a signed byte.
get_tile_line(tile, line) ==
    2 * line + (IF "BGWIN_TILE_DATA" \in lcdc THEN 16 * tile
                ELSE 4096 + 16 * Signed(tile))

bg_tilemap == IF "BG_TILE_MAP" \in lcdc THEN tile_map2 ELSE tile_map1
win_tilemap == IF "WIN_TILE_MAP" \in lcdc THEN tile_map2 ELSE tile_map1

\* The entry for the tile in row and column of a map with 32 tiles in a row.
Entry(map, row, column) == map[((32 * row) % 1024) + column]

\* The background, scrolled: rows and columns wrap around, each at its place.
bg_indx(ly, x) ==
    LET tile == Entry(bg_tilemap, (ly + scy) \div 8, ((x + scx) % 256) \div 8)
    IN Index(get_tile_line(tile, (ly + scy) % 8), ((x % 8) + (scx % 8)) % 8)

\* The window, from its own first row and column on.
InWindow(ly, x) ==
    "WIN_ENABLE" \in lcdc /\ wy <= ly /\ x + 7 >= wx /\ wx < 166 /\ wy < 143
win_indx(ly, x) ==
    LET tile == Entry(win_tilemap, (ly - wy) \div 8, (x + 7 - wx) \div 8)
    IN Index(get_tile_line(tile, (ly - wy) % 8), (x + 7 - wx) % 8)

\* An object of 8 or 16 lines, which may be shown upside down or mirrored.
get_tile_line_from_object(size, obj, line) ==
    16 * obj.tile + 2 * (IF obj.flip_y THEN size - 1 - line ELSE line)
obj_indx(size, obj, ly, x) ==
    Index(get_tile_line_from_object(size, obj, ly + 16 - obj.y),
          (IF obj.flip_x THEN 7 - (x - obj.x) ELSE x - obj.x) % 8)

-----------------------------------------------------------------------------
(* Which layer is seen                                                      *)

\* final_pixel if nothing is assigned to it: whatever the stack holds.
Unset == <<"stack", 0>>

\* What the objects make of a pixel.
ObjectPixels == [index : 0..3, behind : BOOLEAN, palette : {"OBP0", "OBP1"}]
NoObject == [index |-> 0, behind |-> FALSE, palette |-> "OBP0"]

Shown(obj) == "OBJ_ENABLE" \in lcdc /\ obj.index # 0

\* The background and the objects.
BelowWindow(obj, ly, x) ==
    IF /\ "BG_ENABLE" \in lcdc
       /\ ~Shown(obj) \/ (obj.behind /\ bg_indx(ly, x) # 0)
      THEN <<"BGP", bg_indx(ly, x)>>
      ELSE IF Shown(obj) THEN <<obj.palette, obj.index>> ELSE Unset

\* The window is drawn in front of any object.
ppu_render_line_WindowLast(obj, ly, x) ==
    IF InWindow(ly, x) /\ (~Shown(obj) \/ win_indx(ly, x) # 0)
      THEN <<"BGP", win_indx(ly, x)>>
      ELSE BelowWindow(obj, ly, x)
\* And the window, each over what was drawn before unless an object forbids it.
ppu_render_line(obj, ly, x) ==
    IF /\ InWindow(ly, x)
       /\ ~Shown(obj) \/ (obj.behind /\ win_indx(ly, x) # 0)
      THEN <<"BGP", win_indx(ly, x)>>
      ELSE BelowWindow(obj, ly, x)

-----------------------------------------------------------------------------
(* What a line shows                                                        *)

VideoTypeOK ==
    /\ lcdc \subseteq LcdcBits
    /\ scy \in 0..255 /\ scx \in 0..255 /\ wy \in 0..255 /\ wx \in 0..255

\* The pixel in column and row of a tile: the numbers of the other half go on
\* in the data from its 128th tile, and then around.
TilePixel(tile, column, row) ==
    Index(2 * row + (IF "BGWIN_TILE_DATA" \in lcdc THEN 16 * tile
                     ELSE 2048 + 16 * ((tile + 128) % 256)),
          column)

\* The picture of 256 by 256 pixels that a map stands for.
Picture(map, column, row) ==
    TilePixel(map[32 * (row \div 8) + (column \div 8)], column % 8, row % 8)

\* An object is its tile, or for a tall one its tile and the next, as it stands
\* or mirrored either way, over the 8 columns and 8 or 16 lines that it covers.
Mirrored(flip, n, size) == IF flip THEN size - 1 - n ELSE n
ObjectsAreTiles ==
    \A size \in {8, 16}, ly \in LineSet, x \in PixelSet,
       obj \in [y : Positions, x : Positions, tile : Tiles,
                flip_x : BOOLEAN, flip_y : BOOLEAN] :
        LET column == x + 8 - obj.x
            row == ly + 16 - obj.y
        IN column \in 0..7 /\ row \in 0..(size - 1) =>
             obj_indx(size, obj, ly, x) =
               Index(16 * obj.tile + 2 * Mirrored(obj.flip_y, row, size),
                     Mirrored(obj.flip_x, column, 8))

\* Wherever it is scrolled to, and around every edge, the background is its
\* picture; wherever the window is put, beyond the left edge of the screen as
\* well, it is its picture from the first row and column on.  And objects are
\* their tiles.
LayersShowPictures ==
    /\ ObjectsAreTiles
    /\ \A ly \in LineSet, x \in PixelSet :
          /\ bg_indx(ly, x) = Picture(bg_tilemap, (x + scx) % 256, (ly + scy) % 256)
          /\ InWindow(ly, x) =>
                win_indx(ly, x) = Picture(win_tilemap, x + 7 - wx, ly - wy)

\* An object is seen in front of the other layers, or behind them where they
\* have the index 0, and changes nothing else.  (But for this: where such an
\* object is behind a window of index 0, the background comes to light.)  Only a
\* pixel that no layer draws is left unset.
ObjectsOnlyAdd ==
    \A ly \in LineSet, x \in PixelSet, obj \in ObjectPixels :
        LET without == ppu_render_line(NoObject, ly, x)
            with == ppu_render_line(obj, ly, x)
            own == <<obj.palette, obj.index>>
            through == /\ "BG_ENABLE" \in lcdc /\ bg_indx(ly, x) # 0
                       /\ InWindow(ly, x) /\ win_indx(ly, x) = 0
        IN /\ with # without => Shown(obj) /\ (with = own \/ (obj.behind /\ through))
           /\ Shown(obj) /\ ~obj.behind => with = own
           /\ Shown(obj) /\ without[2] = 0 => (with = own \/ through)
           /\ with = Unset =>
                 "BG_ENABLE" \notin lcdc /\ ~InWindow(ly, x) /\ ~Shown(obj)
=============================================================================
