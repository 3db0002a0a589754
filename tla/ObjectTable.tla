----------------------------- MODULE ObjectTable ----------------------------
(***************************************************************************)
(* The objects of the picture unit (src/emu/ppu.c): the table OAM, the     *)
(* index that finds the objects of a line without looking at all of them   *)
(* (oam_hash, kept by oam_rehash), and what a pixel shows of the objects   *)
(* that meet in it (get_objs_at_xy, get_pixel_priority_from_objs).         *)
(*                                                                         *)
(* A row of oam_hash is the sequence of its pointers up to the first NULL. *)
(* The pixels of a tile are left out: an object has one colour all over,   *)
(* 0 if it is transparent.  A transfer by DMA is a series of ppu_wr.       *)
(*                                                                         *)
(* A definition named <definition>_<slip> is not part of the model: it is  *)
(* the definition after a plausible slip in the code.                      *)
(***************************************************************************)
EXTENDS Integers, Sequences, FiniteSets

CONSTANTS
    NumObjs,            \* 40 objects, and as many cells in a row of oam_hash
    MaxFound,           \* 10 objects are considered in a pixel
    Ys, Xs, Colours,    \* the bytes the program writes to OAM
    Lines, Columns      \* the pixels looked at

ASSUME ObjectsAssumption ==
    /\ NumObjs \in Nat \ {0}
    /\ MaxFound \in Nat \ {0}
    /\ Ys \subseteq 0..255 /\ 0 \in Ys
    /\ Xs \subseteq 0..255 /\ 0 \in Xs
    /\ Colours \subseteq 0..3 /\ 0 \in Colours
    /\ Lines \subseteq 0..255 /\ Columns \subseteq 0..159

VARIABLES
    oam,                \* the table
    oam_hash,           \* the objects by the upper half of their y
    tall                \* LCDC_BITMASK_OBJ_SIZE

vars == <<oam, oam_hash, tall>>

Objects == 0..(NumObjs - 1)
Rows == 0..16
Row(y) == y \div 16

\* All in static storage: the objects are in row 0 by their y, but on no row.
Init ==
    /\ oam = [o \in Objects |-> [y |-> 0, x |-> 0, colour |-> 0]]
    /\ oam_hash = [b \in Rows |-> << >>]
    /\ tall = FALSE

-----------------------------------------------------------------------------
(* Writes                                                                   *)

OnRow(row, o) == \E i \in DOMAIN row : row[i] = o

\* From the first pointer to o on, each cell takes over the next one.
Removed(row, o) ==
    IF OnRow(row, o)
      THEN LET at == CHOOSE i \in DOMAIN row : row[i] = o
           IN [i \in 1..(Len(row) - 1) |-> IF i < at THEN row[i] ELSE row[i + 1]]
      ELSE row

\* From the row of the old y to the end of the row of the new one.
oam_rehash_LeavesOld(o, new) ==
    oam_hash' = [oam_hash EXCEPT ![Row(new)] = Append(@, o)]
oam_rehash(o, new) ==
    LET old == Row(oam[o].y)
    IN oam_hash' = [oam_hash EXCEPT ![old] = Removed(@, o),
                                    ![Row(new)] = Append(@, o)]

\* The first byte of an object: its place in the index follows it.
WriteY(o, new) ==
    /\ IF Row(oam[o].y) # Row(new) THEN oam_rehash(o, new) ELSE UNCHANGED oam_hash
    /\ oam' = [oam EXCEPT ![o].y = new]
    /\ UNCHANGED tall

WriteX(o, new) ==
    /\ oam' = [oam EXCEPT ![o].x = new]
    /\ UNCHANGED <<oam_hash, tall>>

\* The last two: the tile and how it is drawn.
WriteTile(o, new) ==
    /\ oam' = [oam EXCEPT ![o].colour = new]
    /\ UNCHANGED <<oam_hash, tall>>

WriteSize ==
    /\ tall' = ~tall
    /\ UNCHANGED <<oam, oam_hash>>

Next ==
    \/ \E o \in Objects :
          \/ \E y \in Ys : WriteY(o, y)
          \/ \E x \in Xs : WriteX(o, x)
          \/ \E c \in Colours : WriteTile(o, c)
    \/ WriteSize

Spec == Init /\ [][Next]_vars

-----------------------------------------------------------------------------
(* Reading: a line is drawn from the table as it stands                     *)

Size == IF tall THEN 16 ELSE 8

OnLine(o, y) == y + 16 - oam[o].y \in 0..(Size - 1)
InColumn(o, x) == x + 8 - oam[o].x \in 0..7
Covers(o, x, y) == OnLine(o, y) /\ InColumn(o, x)

\* The two rows an object that covers line y may be on.
RowsOf_Next(y) == oam_hash[Row(y + 16)]
RowsOf(y) == oam_hash[Row(y)] \o oam_hash[Row(y + 16)]

\* Along the two rows, the objects that cover the pixel, MaxFound at most.
get_objs_at_xy(x, y) ==
    LET rows == RowsOf(y)
        objs[i \in 0..Len(rows)] ==
            IF i = 0 THEN << >>
            ELSE IF Len(objs[i - 1]) < MaxFound /\ Covers(rows[i], x, y)
                   THEN Append(objs[i - 1], rows[i])
                   ELSE objs[i - 1]
    IN objs[Len(rows)]

\* Whether obj takes the pixel over from the object that has it so far.
TakesOver_IfOpaque(best, obj) == oam[obj].colour # 0
TakesOver(best, obj) ==
    IF oam[best].colour # 0 /\ oam[obj].x = oam[best].x
      THEN obj < best
      ELSE /\ oam[best].colour = 0 \/ oam[obj].x < oam[best].x
           /\ oam[obj].colour # 0

get_pixel_priority_from_objs(objs) ==
    LET best[i \in DOMAIN objs] ==
            IF i = 1 THEN objs[1]
            ELSE IF TakesOver(best[i - 1], objs[i]) THEN objs[i] ELSE best[i - 1]
    IN best[Len(objs)]

-----------------------------------------------------------------------------
(* Properties                                                               *)

TypeOK ==
    /\ oam \in [Objects -> [y : 0..255, x : 0..255, colour : 0..3]]
    /\ oam_hash \in [Rows -> Seq(Objects)]
    /\ tall \in BOOLEAN

\* An object that is on a row is on the row of its y, and there once.
RowsAgree ==
    \A b \in Rows : \A i \in DOMAIN oam_hash[b] :
        /\ Row(oam[oam_hash[b][i]].y) = b
        /\ \A j \in DOMAIN oam_hash[b] : oam_hash[b][i] = oam_hash[b][j] => i = j

\* An object is on a row once its y has been 16 or more.
Indexed == \A o \in Objects : Row(oam[o].y) # 0 => OnRow(oam_hash[Row(oam[o].y)], o)

HashInv == TypeOK /\ RowsAgree /\ Indexed

\* A row that is full has no NULL of its own: the code that walks it goes on
\* with the next row, which is harmless only while that row is empty.
RowsEnd ==
    \A b \in Rows :
        /\ Len(oam_hash[b]) <= NumObjs
        /\ Len(oam_hash[b]) = NumObjs => b < 16 /\ oam_hash[b + 1] = << >>

Covering(x, y) == {o \in Objects : Covers(o, x, y)}
Found(x, y) == {get_objs_at_xy(x, y)[i] : i \in DOMAIN get_objs_at_xy(x, y)}

\* Every object that covers a pixel is found, up to the number considered, and
\* none that does not.  Objects with a y below 16, partly above the screen, may
\* never have been put on a row and are then not found (oam_rehash is called
\* only when a y changes its row).
LookupIsExact ==
    \A x \in Columns, y \in Lines :
        LET found == Found(x, y) IN
        /\ found \subseteq Covering(x, y)
        /\ Cardinality(found) = Len(get_objs_at_xy(x, y))
        /\ Cardinality(found) <= MaxFound
        /\ \/ Cardinality(found) = MaxFound
           \/ {o \in Covering(x, y) : Row(oam[o].y) # 0} \subseteq found

\* Of the opaque objects in a pixel the leftmost is seen, and the first in the
\* table of those, in whatever order the rows hold them.  (Where a transparent
\* object comes before an opaque one of the same x in the table, it may hide
\* it: the code does not look at its colour then.)
Before(o, p) ==
    \/ oam[o].x < oam[p].x
    \/ oam[o].x = oam[p].x /\ o < p
Orders(S) ==
    {objs \in [1..Cardinality(S) -> S] :
        \A i, j \in DOMAIN objs : objs[i] = objs[j] => i = j}
FrontmostWins ==
    \A x \in Columns, y \in Lines :
        LET met == Covering(x, y)
            opaque == {o \in met : oam[o].colour # 0}
        IN opaque # {} /\ (\A o \in met \ opaque, p \in opaque :
                              oam[o].x = oam[p].x => p < o) =>
             \A objs \in Orders(met) :
                LET seen == get_pixel_priority_from_objs(objs)
                IN seen \in opaque /\ \A o \in opaque \ {seen} : Before(seen, o)
=============================================================================
