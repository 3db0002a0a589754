---------------------------- MODULE PictureProofs ---------------------------
(***************************************************************************)
(* Proofs about what a line of the picture is made of.                     *)
(*                                                                         *)
(* ObjectTable: the index of the objects agrees with the table, for any    *)
(* number of objects; get_objs_at_xy finds by it what covers a pixel, and  *)
(* of that get_pixel_priority_from_objs chooses the frontmost object.      *)
(*                                                                         *)
(* Scanline: each layer shows its picture, for any content of the video    *)
(* memory, any values of the registers, and any lines and pixels.          *)
(***************************************************************************)
EXTENDS ObjectTable, Scanline, FiniteSetTheorems, WellFoundedInduction, TLAPS

-----------------------------------------------------------------------------
(* Loops: what holds at the start of one and is kept by every turn.         *)

\* Induction, on the set of the numbers for which a fact holds.
LEMMA Induction ==
    ASSUME NEW T, NEW first \in Nat, NEW last \in Nat, first \in T,
           \A n \in first..last : n \in T /\ n + 1 <= last => n + 1 \in T
    PROVE  first..last \subseteq T
<1> SUFFICES ASSUME first..last \ T # {} PROVE FALSE
  OBVIOUS
<1> DEFINE Missing == first..last \ T
<1>1. PICK m \in Missing : \A k \in Missing : <<k, m>> \notin OpToRel(<, Nat)
  <2>1. Missing \subseteq Nat /\ Missing # {}
    OBVIOUS
  <2> HIDE DEF Missing
  <2> QED BY <2>1, WFMin, NatLessThanWellFounded
<1>2. m \in Nat /\ m # first /\ m - 1 \in first..last /\ m - 1 \in Nat /\ m - 1 < m
  OBVIOUS
<1>3. m - 1 \notin Missing
  BY <1>1, <1>2 DEF OpToRel
<1>4. m - 1 \in T /\ (m - 1) + 1 = m
  BY <1>2, <1>3
<1> QED BY <1>2, <1>4

\* f holds the value of the variable of a loop after each turn: turn is what one
\* turn does to it.
Runs(f, first, last, start, turn) ==
    /\ f[first] = start
    /\ \A i \in (first + 1)..last : f[i] = turn[i][f[i - 1]]

\* A loop computes something.
LEMMA LoopExists ==
    ASSUME NEW S, NEW first \in Nat, NEW last \in Nat, first <= last,
           NEW start \in S, NEW turn \in [(first + 1)..last -> [S -> S]]
    PROVE  \E f \in [first..last -> S] : Runs(f, first, last, start, turn)
<1> DEFINE Is(n, f) == Runs(f, first, n, start, turn)
           T == {n \in first..last : \E f \in [first..n -> S] : Is(n, f)}
<1>1. first \in T
  <2> DEFINE g == [i \in first..first |-> start]
  <2>1. g \in [first..first -> S] /\ g[first] = start
    OBVIOUS
  <2>2. (first + 1)..first = {} /\ first \in first..last
    OBVIOUS
  <2> HIDE DEF g
  <2>3. Is(first, g)
    BY <2>1, <2>2 DEF Runs
  <2> HIDE DEF Runs
  <2> QED BY <2>1, <2>2, <2>3
<1>2. ASSUME NEW n \in first..last, n \in T, n + 1 <= last
      PROVE  n + 1 \in T
  <2> HIDE DEF Runs
  <2>1. PICK f \in [first..n -> S] : Is(n, f)
    BY <1>2
  <2> HIDE DEF T
  <2> DEFINE v == turn[n + 1][f[n]]
             g == [i \in first..(n + 1) |-> IF i <= n THEN f[i] ELSE v]
  <2>2. /\ n + 1 \in (first + 1)..last /\ n \in first..n
        /\ n + 1 \in first..last /\ n + 1 \in first..(n + 1)
        /\ first \in first..n /\ n \in Nat /\ ~(n + 1 <= n)
        /\ first..n \subseteq first..(n + 1)
    BY <1>2
  <2>3. v \in S
    BY <2>2
  <2> HIDE DEF v
  <2>4. g \in [first..(n + 1) -> S]
    <3>1. \A i \in first..(n + 1) : i <= n => f[i] \in S
      OBVIOUS
    <3> QED BY <2>3, <3>1
  <2>5. (\A i \in first..n : g[i] = f[i]) /\ g[n + 1] = v
    BY <2>2
  <2> HIDE DEF g
  <2>6. Is(n + 1, g)
    <3>1. g[first] = start
      BY <2>1, <2>2, <2>5 DEF Runs
    <3>2. ASSUME NEW i \in (first + 1)..(n + 1)
          PROVE  g[i] = turn[i][g[i - 1]]
      <4>1. CASE i \in (first + 1)..n
        <5>1. i \in first..n /\ i - 1 \in first..n
          BY <4>1
        <5> QED BY <2>1, <2>5, <4>1, <5>1 DEF Runs
      <4>2. CASE i = n + 1
        <5>1. i - 1 = n
          BY <2>2, <4>2
        <5> QED BY <2>2, <2>5, <4>2, <5>1 DEF v
      <4> QED BY <2>2, <3>2, <4>1, <4>2
    <3> QED BY <3>1, <3>2 DEF Runs
  <2> QED BY <2>2, <2>4, <2>6 DEF T
<1>3. last \in T
  <2>1. \A n \in first..last : n \in T /\ n + 1 <= last => n + 1 \in T
    BY <1>2
  <2>2. last \in first..last
    OBVIOUS
  <2> HIDE DEF T
  <2>3. first..last \subseteq T
    BY <1>1, <2>1, Induction
  <2> QED BY <2>2, <2>3
<1> QED BY <1>3
-----------------------------------------------------------------------------
(* The rows, and what oam_rehash does to them.                              *)

\* No object is on a row twice.
Once(row) == \A i, j \in DOMAIN row : row[i] = row[j] => i = j

\* What oam_rehash does to the row of the old y: the object leaves it, nobody
\* else does.
LEMMA RemovedRow ==
    ASSUME NEW row \in Seq(Objects), Once(row), NEW o \in Objects
    PROVE  /\ Removed(row, o) \in Seq(Objects)
           /\ Once(Removed(row, o))
           /\ \A p : OnRow(Removed(row, o), p) <=> OnRow(row, p) /\ p # o
<1>1. CASE ~OnRow(row, o)
  BY <1>1 DEF Removed, OnRow
<1>2. CASE OnRow(row, o)
  <2> DEFINE at == CHOOSE i \in DOMAIN row : row[i] = o
             new == [i \in 1..(Len(row) - 1) |->
                        IF i < at THEN row[i] ELSE row[i + 1]]
  <2>1. at \in DOMAIN row /\ row[at] = o
    BY <1>2 DEF OnRow
  <2>2. Removed(row, o) = new
    BY <1>2 DEF Removed
  <2>3. Len(row) \in Nat /\ DOMAIN row = 1..Len(row) /\ at \in 1..Len(row)
    BY <2>1
  <2> HIDE DEF at
  <2>4. \A i \in 1..(Len(row) - 1) :
           IF i < at THEN i \in 1..Len(row) /\ new[i] = row[i]
                     ELSE i + 1 \in 1..Len(row) /\ new[i] = row[i + 1]
    BY <2>3
  <2>5. \A i \in 1..Len(row) : row[i] \in Objects
    BY <2>3
  <2>6. Len(row) - 1 \in Nat
    BY <2>3
  <2>7. new \in Seq(Objects)
    BY <2>4, <2>5, <2>6
  <2>8. DOMAIN new = 1..(Len(row) - 1)
    OBVIOUS
  <2> HIDE DEF new
  <2>9. Once(new)
    BY <2>3, <2>4, <2>8 DEF Once
  <2>10. ASSUME NEW p, OnRow(new, p)
         PROVE  OnRow(row, p) /\ p # o
    <3>1. PICK i \in 1..(Len(row) - 1) : new[i] = p
      BY <2>8, <2>10 DEF OnRow
    <3> QED BY <2>1, <2>3, <2>4, <3>1 DEF OnRow, Once
  <2>11. ASSUME NEW p, OnRow(row, p), p # o
         PROVE  OnRow(new, p)
    <3>1. PICK i \in 1..Len(row) : row[i] = p
      BY <2>3, <2>11 DEF OnRow
    <3>2. CASE i < at
      <4>1. i \in 1..(Len(row) - 1) /\ new[i] = p
        BY <2>3, <2>4, <3>1, <3>2
      <4> QED BY <2>8, <4>1 DEF OnRow
    <3>3. CASE ~(i < at)
      <4>1. i # at
        BY <2>1, <2>11, <3>1
      <4>2. i - 1 \in 1..(Len(row) - 1) /\ ~(i - 1 < at) /\ (i - 1) + 1 = i
        BY <2>3, <3>3, <4>1
      <4>3. new[i - 1] = p
        BY <2>4, <3>1, <4>2
      <4> QED BY <2>8, <4>2, <4>3 DEF OnRow
    <3> QED BY <3>2, <3>3
  <2> QED BY <2>2, <2>7, <2>9, <2>10, <2>11
<1> QED BY <1>1, <1>2

\* ... and to the row of the new one: the object comes to its end.
LEMMA AppendedRow ==
    ASSUME NEW row \in Seq(Objects), Once(row), NEW o \in Objects, ~OnRow(row, o)
    PROVE  /\ Append(row, o) \in Seq(Objects)
           /\ Once(Append(row, o))
           /\ \A p : OnRow(Append(row, o), p) <=> OnRow(row, p) \/ p = o
<1> DEFINE new == Append(row, o)
<1>1. /\ new \in Seq(Objects) /\ Len(row) \in Nat
      /\ DOMAIN row = 1..Len(row) /\ DOMAIN new = 1..(Len(row) + 1)
      /\ new[Len(row) + 1] = o
      /\ \A i \in 1..Len(row) : new[i] = row[i]
  OBVIOUS
<1> HIDE DEF new
<1>2. Once(new)
  BY <1>1 DEF Once, OnRow
<1>3. \A p : OnRow(new, p) => OnRow(row, p) \/ p = o
  BY <1>1 DEF OnRow
<1>4. \A p : OnRow(row, p) => OnRow(new, p)
  BY <1>1 DEF OnRow
<1>5. OnRow(new, o)
  BY <1>1 DEF OnRow
<1> QED BY <1>1, <1>2, <1>3, <1>4, <1>5 DEF new

-----------------------------------------------------------------------------
(* The index agrees with the table.                                         *)

\* The rows of bytes; row 16 is none of them.
LEMMA RowType == \A y \in 0..255 : Row(y) \in Rows \ {16}
  BY DEF Row, Rows

Table == [Objects -> [y : 0..255, x : 0..255, colour : 0..3]]

\* At the start nothing is on a row, and every y is 0.
LEMMA HashInit == Init => HashInv
<1> SUFFICES ASSUME Init PROVE HashInv
  OBVIOUS
<1>1. oam \in Table /\ \A o \in Objects : oam[o].y = 0
  BY DEF Init, Table
<1>2. oam_hash \in [Rows -> Seq(Objects)] /\ \A b \in Rows : oam_hash[b] = << >>
  BY DEF Init
<1>3. TypeOK
  BY <1>1, <1>2 DEF Init, TypeOK, Table
<1>4. RowsAgree
  BY <1>2 DEF RowsAgree
<1>5. Indexed
  BY <1>1 DEF Indexed, Row
<1> QED BY <1>3, <1>4, <1>5 DEF HashInv

\* An object that is not on the row of the new y comes there from a row it is
\* on once, or from none.
LEMMA HashRehash ==
    ASSUME HashInv, NEW o \in Objects, NEW new \in Ys, Row(oam[o].y) # Row(new),
           WriteY(o, new)
    PROVE  HashInv'
<1> DEFINE old == Row(oam[o].y)
           to == Row(new)
<1>1. /\ old \in Rows /\ to \in Rows /\ old # to /\ new \in 0..255
      /\ oam[o].y \in 0..255
  <2>1. oam[o].y \in 0..255
    BY DEF HashInv, TypeOK
  <2>2. new \in 0..255
    BY ObjectsAssumption
  <2>3. old \in Rows /\ to \in Rows
    BY <2>1, <2>2, RowType
  <2> QED BY <2>1, <2>2, <2>3
<1>2. /\ oam' = [oam EXCEPT ![o].y = new] /\ tall' = tall
      /\ oam_hash' = [oam_hash EXCEPT ![old] = Removed(@, o), ![to] = Append(@, o)]
  BY DEF WriteY, oam_rehash
<1>3. /\ \A b \in Rows : oam_hash[b] \in Seq(Objects)
      /\ \A b \in Rows : Once(oam_hash[b])
      /\ \A b \in Rows : \A p : OnRow(oam_hash[b], p) => Row(oam[p].y) = b
  BY DEF HashInv, TypeOK, RowsAgree, Once, OnRow
<1>4. ~OnRow(oam_hash[to], o)
  BY <1>1, <1>3
<1>5. /\ oam_hash'[old] = Removed(oam_hash[old], o)
      /\ oam_hash'[to] = Append(oam_hash[to], o)
      /\ \A b \in Rows \ {old, to} : oam_hash'[b] = oam_hash[b]
  BY <1>1, <1>2 DEF HashInv, TypeOK
<1>6. /\ oam_hash'[old] \in Seq(Objects) /\ Once(oam_hash'[old])
      /\ \A p : OnRow(oam_hash'[old], p) <=> OnRow(oam_hash[old], p) /\ p # o
  <2> DEFINE row == oam_hash[old]
  <2>1. row \in Seq(Objects) /\ Once(row)
    BY <1>1, <1>3
  <2>2. oam_hash'[old] = Removed(row, o)
    BY <1>5
  <2> HIDE DEF row, old
  <2>3. /\ Removed(row, o) \in Seq(Objects)
        /\ Once(Removed(row, o))
        /\ \A p : OnRow(Removed(row, o), p) <=> OnRow(row, p) /\ p # o
    BY <2>1, RemovedRow
  <2> QED BY <2>2, <2>3, Zenon DEF row
<1>7. /\ oam_hash'[to] \in Seq(Objects) /\ Once(oam_hash'[to])
      /\ \A p : OnRow(oam_hash'[to], p) <=> OnRow(oam_hash[to], p) \/ p = o
  BY <1>1, <1>3, <1>4, <1>5, AppendedRow
<1>8. \A b \in Rows : oam_hash'[b] \in Seq(Objects) /\ Once(oam_hash'[b])
  BY <1>3, <1>5, <1>6, <1>7
<1>9. /\ oam' \in Table
      /\ oam'[o].y = new
      /\ \A p \in Objects \ {o} : oam'[p] = oam[p]
  <2>1. oam \in Table
    BY DEF HashInv, TypeOK, Table
  <2>2. oam' = [oam EXCEPT ![o] = [oam[o] EXCEPT !.y = new]]
    BY <1>2
  <2>3. [oam[o] EXCEPT !.y = new] \in [y : 0..255, x : 0..255, colour : 0..3]
    BY <1>1, <2>1 DEF Table
  <2>4. [oam[o] EXCEPT !.y = new].y = new
    BY <2>1 DEF Table
  <2> QED BY <2>1, <2>2, <2>3, <2>4 DEF Table
<1>10. oam_hash' \in [Rows -> Seq(Objects)]
  <2>1. oam_hash' = [b \in Rows |-> oam_hash'[b]]
    BY <1>2 DEF HashInv, TypeOK
  <2> QED BY <1>8, <2>1
<1>11. TypeOK'
  BY <1>2, <1>9, <1>10 DEF HashInv, TypeOK, Table
<1>12. ASSUME NEW b \in Rows, NEW p \in Objects, OnRow(oam_hash'[b], p)
       PROVE  Row(oam'[p].y) = b
  <2>1. CASE p = o
    <3>1. b # old
      BY <1>6, <1>12, <2>1
    <3>2. CASE b = to
      BY <1>9, <2>1, <3>2
    <3>3. CASE b # to
      <4>1. OnRow(oam_hash[b], o)
        BY <1>5, <1>12, <2>1, <3>1, <3>3
      <4> QED BY <1>3, <3>1, <4>1
    <3> QED BY <3>2, <3>3
  <2>2. CASE p # o
    <3>1. OnRow(oam_hash[b], p)
      BY <1>5, <1>6, <1>7, <1>12, <2>2
    <3> QED BY <1>3, <1>9, <2>2, <3>1
  <2> QED BY <2>1, <2>2
<1>13. RowsAgree'
  <2>1. \A b \in Rows : \A i \in DOMAIN oam_hash'[b] :
           oam_hash'[b][i] \in Objects /\ OnRow(oam_hash'[b], oam_hash'[b][i])
    BY <1>8 DEF OnRow
  <2> QED BY <1>8, <1>12, <2>1 DEF RowsAgree, Once
<1>14. Indexed'
  <2> SUFFICES ASSUME NEW p \in Objects, Row(oam'[p].y) # 0
               PROVE  OnRow(oam_hash'[Row(oam'[p].y)], p)
    BY DEF Indexed
  <2>1. CASE p = o
    BY <1>7, <1>9, <2>1
  <2>2. CASE p # o
    <3>1. oam'[p] = oam[p] /\ oam[p].y \in 0..255
      BY <1>9, <2>2 DEF HashInv, TypeOK
    <3>2. Row(oam[p].y) \in Rows
      BY <3>1 DEF Row, Rows
    <3>3. OnRow(oam_hash[Row(oam[p].y)], p)
      BY <3>1 DEF HashInv, Indexed
    <3> QED BY <1>5, <1>6, <1>7, <2>2, <3>1, <3>2, <3>3
  <2> QED BY <2>1, <2>2
<1> QED BY <1>11, <1>13, <1>14 DEF HashInv

\* Every other write leaves the rows and the upper halves of the y alone.
LEMMA HashKept ==
    ASSUME HashInv, oam_hash' = oam_hash, tall' \in BOOLEAN,
           oam' \in Table,
           \A p \in Objects : Row(oam'[p].y) = Row(oam[p].y)
    PROVE  HashInv'
<1>1. TypeOK'
  BY DEF HashInv, TypeOK, Table
<1>2. RowsAgree'
  <2>1. \A b \in Rows : \A i \in DOMAIN oam_hash[b] : oam_hash[b][i] \in Objects
    BY DEF HashInv, TypeOK
  <2> QED BY <2>1 DEF HashInv, RowsAgree
<1>3. Indexed'
  BY DEF HashInv, Indexed
<1> QED BY <1>1, <1>2, <1>3 DEF HashInv

LEMMA HashStep == HashInv /\ [Next]_vars => HashInv'
<1> SUFFICES ASSUME HashInv, [Next]_vars PROVE HashInv'
  OBVIOUS
<1> USE ObjectsAssumption
<1>0. oam \in Table /\ tall \in BOOLEAN
  BY DEF HashInv, TypeOK, Table
<1>1. ASSUME NEW o \in Objects, NEW y \in Ys, WriteY(o, y)
      PROVE  HashInv'
  <2>1. CASE Row(oam[o].y) # Row(y)
    BY <1>1, <2>1, HashRehash
  <2>2. CASE Row(oam[o].y) = Row(y)
    <3>1. /\ oam_hash' = oam_hash /\ tall' = tall
          /\ oam' = [oam EXCEPT ![o].y = y] /\ y \in 0..255
      BY <1>1, <2>2 DEF WriteY
    <3>2. oam' \in Table
      BY <1>0, <3>1 DEF Table
    <3>3. oam'[o].y = y /\ \A p \in Objects \ {o} : oam'[p] = oam[p]
      BY <1>0, <3>1 DEF Table
    <3>4. \A p \in Objects : Row(oam'[p].y) = Row(oam[p].y)
      BY <2>2, <3>3
    <3> QED BY <1>0, <3>1, <3>2, <3>4, HashKept
  <2> QED BY <2>1, <2>2
<1>2. ASSUME NEW o \in Objects, NEW x \in Xs, WriteX(o, x)
      PROVE  HashInv'
  <2>1. /\ oam_hash' = oam_hash /\ tall' = tall
        /\ oam' = [oam EXCEPT ![o].x = x]
    BY <1>2 DEF WriteX
  <2>2. oam' \in Table
    BY <1>0, <2>1 DEF Table
  <2>3. \A p \in Objects : oam'[p].y = oam[p].y
    BY <1>0, <2>1 DEF Table
  <2> QED BY <1>0, <2>1, <2>2, <2>3, HashKept
<1>3. ASSUME NEW o \in Objects, NEW c \in Colours, WriteTile(o, c)
      PROVE  HashInv'
  <2>1. /\ oam_hash' = oam_hash /\ tall' = tall
        /\ oam' = [oam EXCEPT ![o].colour = c]
    BY <1>3 DEF WriteTile
  <2>2. oam' \in Table
    BY <1>0, <2>1 DEF Table
  <2>3. \A p \in Objects : oam'[p].y = oam[p].y
    BY <1>0, <2>1 DEF Table
  <2> QED BY <1>0, <2>1, <2>2, <2>3, HashKept
<1>4. CASE WriteSize
  BY <1>0, <1>4, HashKept DEF WriteSize
<1>5. CASE UNCHANGED vars
  BY <1>5 DEF vars, HashInv, TypeOK, RowsAgree, Indexed
<1> QED BY <1>1, <1>2, <1>3, <1>4, <1>5 DEF Next

\* However the program moves its objects (ppu_wr, oam_rehash), each is on the
\* row of its y, and there once.
THEOREM HashCorrect == Spec => []HashInv
  BY HashInit, HashStep, PTL DEF Spec

-----------------------------------------------------------------------------
(* What the index is good for.                                              *)

\* A row holds no object twice, so no more objects than there are; one that
\* holds them all leaves none for the next.
LEMMA RowsEndHere == HashInv => RowsEnd
<1> SUFFICES ASSUME HashInv, NEW b \in Rows
             PROVE  /\ Len(oam_hash[b]) <= NumObjs
                    /\ Len(oam_hash[b]) = NumObjs =>
                           b < 16 /\ oam_hash[b + 1] = << >>
  BY DEF RowsEnd
<1> DEFINE row == oam_hash[b]
<1>1. row \in Seq(Objects) /\ Len(row) \in Nat /\ DOMAIN row = 1..Len(row)
  BY DEF HashInv, TypeOK
<1>2. row \in Injection(1..Len(row), Objects)
  <2>1. row \in [1..Len(row) -> Objects]
    BY <1>1
  <2>2. \A i, j \in 1..Len(row) : row[i] = row[j] => i = j
    BY <1>1 DEF HashInv, RowsAgree
  <2> QED BY <2>1, <2>2 DEF Injection, IsInjective
<1>3. IsFiniteSet(Objects) /\ Cardinality(Objects) = NumObjs
  BY FS_Interval, ObjectsAssumption DEF Objects
<1>4. Cardinality(1..Len(row)) = Len(row)
  <2>1. 1 \in Int /\ Len(row) \in Int
    BY <1>1
  <2>2. Cardinality(1..Len(row)) = IF 1 > Len(row) THEN 0 ELSE Len(row) - 1 + 1
    BY <2>1, FS_Interval
  <2> QED BY <1>1, <2>2
<1>5. /\ Len(row) <= NumObjs
      /\ Len(row) = NumObjs => row \in Surjection(1..Len(row), Objects)
  <2> HIDE DEF row
  <2> QED BY <1>2, <1>3, <1>4, FS_Injection
<1>6. ASSUME Len(row) = NumObjs
      PROVE  b < 16 /\ oam_hash[b + 1] = << >>
  <2>1. \A o \in Objects : Row(oam[o].y) = b
    <3>1. \A o \in Objects : \E i \in 1..Len(row) : row[i] = o
      BY <1>5, <1>6 DEF Surjection
    <3> QED BY <1>1, <3>1 DEF HashInv, RowsAgree
  <2>2. b < 16
    <3>1. 0 \in Objects
      BY ObjectsAssumption DEF Objects
    <3>2. oam[0].y \in 0..255
      BY <3>1 DEF HashInv, TypeOK
    <3> QED BY <2>1, <3>1, <3>2 DEF Row
  <2>3. b + 1 \in Rows /\ b + 1 # b
    BY <2>2 DEF Rows
  <2>4. oam_hash[b + 1] \in Seq(Objects)
    BY <2>3 DEF HashInv, TypeOK
  <2>5. \A i \in DOMAIN oam_hash[b + 1] : FALSE
    BY <2>1, <2>3, <2>4 DEF HashInv, RowsAgree
  <2>6. oam_hash[b + 1] = << >>
    <3> DEFINE next == oam_hash[b + 1]
    <3>1. next \in Seq(Objects) /\ Len(next) \in Nat /\ DOMAIN next = 1..Len(next)
      BY <2>4
    <3>2. Len(next) = 0
      BY <2>5, <3>1
    <3> HIDE DEF next
    <3>3. next = << >>
      BY <3>1, <3>2
    <3> QED BY <3>3 DEF next
  <2> QED BY <2>2, <2>6
<1> QED BY <1>5, <1>6

\* The code that walks a row comes to a NULL before it meets the pointers of
\* another row (oam_hash has no cell for the NULL of a full row).
THEOREM RowsNeverOverrun == Spec => []RowsEnd
  BY HashCorrect, RowsEndHere, PTL

\* Two rows, one after the other.
LEMMA JoinedRows ==
    ASSUME NEW first \in Seq(Objects), NEW second \in Seq(Objects), NEW o,
           OnRow(first, o) \/ OnRow(second, o)
    PROVE  OnRow(first \o second, o)
<1>1. /\ Len(first) \in Nat /\ DOMAIN first = 1..Len(first)
      /\ Len(second) \in Nat /\ DOMAIN second = 1..Len(second)
      /\ DOMAIN (first \o second) = 1..(Len(first) + Len(second))
      /\ \A i \in 1..Len(first) : (first \o second)[i] = first[i]
      /\ \A i \in (Len(first) + 1)..(Len(first) + Len(second)) :
            (first \o second)[i] = second[i - Len(first)]
  OBVIOUS
<1>2. CASE OnRow(first, o)
  BY <1>1, <1>2 DEF OnRow
<1>3. CASE OnRow(second, o)
  <2>1. PICK i \in 1..Len(second) : second[i] = o
    BY <1>1, <1>3 DEF OnRow
  <2>2. /\ Len(first) + i \in (Len(first) + 1)..(Len(first) + Len(second))
        /\ Len(first) + i \in 1..(Len(first) + Len(second))
        /\ (Len(first) + i) - Len(first) = i
    BY <1>1
  <2> QED BY <1>1, <2>1, <2>2 DEF OnRow
<1> QED BY <1>2, <1>3

\* An object that covers a line is on one of the two rows that get_objs_at_xy
\* walks for the line, if it is on a row at all.
THEOREM TwoRowsAreEnough ==
    ASSUME HashInv, NEW o \in Objects, NEW y \in 0..255,
           OnLine(o, y), Row(oam[o].y) # 0
    PROVE  OnRow(RowsOf(y), o)
<1>1. oam[o].y \in 0..255 /\ Size \in {8, 16}
  BY DEF HashInv, TypeOK, Size
<1>2. Row(oam[o].y) \in {Row(y), Row(y + 16)}
  <2>1. oam[o].y \in (y + 1)..(y + 16)
    <3> DEFINE at == oam[o].y
    <3>1. at \in 0..255 /\ y + 16 - at \in 0..(Size - 1)
      BY <1>1 DEF OnLine
    <3>2. Size - 1 \in {7, 15}
      BY <1>1
    <3> HIDE DEF at
    <3>3. y + 16 - at \in 0..15
      BY <3>1, <3>2
    <3>4. at \in (y + 1)..(y + 16)
      BY <3>1, <3>3
    <3> QED BY <3>4 DEF at
  <2>2. Row(y + 16) = Row(y) + 1
    BY DEF Row
  <2>3. \A n \in (y + 1)..(y + 16) : Row(n) \in {Row(y), Row(y) + 1}
    BY DEF Row
  <2> QED BY <2>1, <2>2, <2>3
<1>3. OnRow(oam_hash[Row(oam[o].y)], o)
  BY DEF HashInv, Indexed
<1>4. Row(y) \in Rows /\ Row(y + 16) \in Rows
  BY DEF Row, Rows
<1>5. oam_hash[Row(y)] \in Seq(Objects) /\ oam_hash[Row(y + 16)] \in Seq(Objects)
  BY <1>4 DEF HashInv, TypeOK
<1> QED BY <1>2, <1>3, <1>5, JoinedRows DEF RowsOf

-----------------------------------------------------------------------------
(* The lookup is exact.                                                     *)

\* The loop of get_objs_at_xy, turn by turn.
LEMMA LookupLoop ==
    ASSUME NEW x, NEW y, RowsOf(y) \in Seq(Objects)
    PROVE  LET rows == RowsOf(y) IN
           \E objs \in [0..Len(rows) -> Seq(Objects)] :
              /\ objs[0] = << >>
              /\ \A i \in 1..Len(rows) :
                    objs[i] = IF Len(objs[i - 1]) < MaxFound /\ Covers(rows[i], x, y)
                                THEN Append(objs[i - 1], rows[i])
                                ELSE objs[i - 1]
              /\ get_objs_at_xy(x, y) = objs[Len(rows)]
<1> DEFINE rows == RowsOf(y)
           n == Len(rows)
           covered(i) == Covers(rows[i], x, y)
           Turn(i, found) == IF Len(found) < MaxFound /\ covered(i)
                               THEN Append(found, rows[i]) ELSE found
           Is(f) == f = [i \in 0..n |-> IF i = 0 THEN << >> ELSE Turn(i, f[i - 1])]
           turn == [i \in 1..n |-> [found \in Seq(Objects) |-> Turn(i, found)]]
           objs == CHOOSE f : Is(f)
<1>1. n \in Nat /\ \A i \in 1..n : rows[i] \in Objects
  OBVIOUS
<1>2. get_objs_at_xy(x, y) = objs[n]
  BY DEF get_objs_at_xy
<1> HIDE DEF rows, n, covered
<1>3. \A i \in 1..n : \A found \in Seq(Objects) : Turn(i, found) \in Seq(Objects)
  <2> SUFFICES ASSUME NEW i \in 1..n, NEW found \in Seq(Objects)
               PROVE  Turn(i, found) \in Seq(Objects)
    OBVIOUS
  <2>1. Append(found, rows[i]) \in Seq(Objects)
    BY <1>1
  <2> QED BY <2>1
<1> HIDE DEF Turn
<1>4. turn \in [1..n -> [Seq(Objects) -> Seq(Objects)]]
  BY <1>3
<1>5. PICK f \in [0..n -> Seq(Objects)] :
         /\ f[0] = << >>
         /\ \A i \in 1..n : f[i] = turn[i][f[i - 1]]
  <2>1. 0 \in Nat /\ 0 <= n /\ 0 + 1 = 1 /\ << >> \in Seq(Objects)
    BY <1>1
  <2>2. turn \in [(0 + 1)..n -> [Seq(Objects) -> Seq(Objects)]]
    BY <1>4
  <2> HIDE DEF turn
  <2>3. PICK f \in [0..n -> Seq(Objects)] : Runs(f, 0, n, << >>, turn)
    BY <1>1, <2>1, <2>2, LoopExists, Zenon
  <2> QED BY <2>1, <2>3 DEF Runs
<1>6. \A i \in 1..n : f[i] = Turn(i, f[i - 1])
  <2>1. \A i \in 1..n : f[i - 1] \in Seq(Objects)
    BY <1>1
  <2> QED BY <1>5, <2>1
<1>7. Is(f)
  <2>1. f = [i \in 0..n |-> f[i]]
    OBVIOUS
  <2>2. \A i \in 0..n : f[i] = IF i = 0 THEN << >> ELSE Turn(i, f[i - 1])
    BY <1>1, <1>5, <1>6
  <2> QED BY <2>1, <2>2
<1>8. Is(objs)
  BY <1>7
<1> HIDE DEF objs
<1>9. 0..n \subseteq {i \in 0..n : objs[i] = f[i]}
  <2> DEFINE T == {i \in 0..n : objs[i] = f[i]}
  <2>1. 0 \in T
    BY <1>1, <1>5, <1>8
  <2>2. ASSUME NEW i \in 0..n, i \in T, i + 1 <= n
        PROVE  i + 1 \in T
    <3>1. i + 1 \in 1..n /\ i + 1 \in 0..n /\ (i + 1) - 1 = i /\ i + 1 # 0
      BY <1>1, <2>2
    <3>2. objs[i + 1] = Turn(i + 1, objs[i])
      BY <1>8, <3>1
    <3>3. f[i + 1] = Turn(i + 1, f[i])
      BY <1>6, <3>1
    <3> QED BY <2>2, <3>1, <3>2, <3>3
  <2> HIDE DEF T
  <2>3. 0..n \subseteq T
    BY <1>1, <2>1, <2>2, Induction
  <2> QED BY <2>3 DEF T
<1>10. get_objs_at_xy(x, y) = f[n]
  BY <1>1, <1>2, <1>9
<1> QED BY <1>5, <1>6, <1>10 DEF rows, n, Turn, covered

\* The two rows of a line are two, so no object is on them twice.
LEMMA RowsOfLine ==
    ASSUME HashInv, NEW y \in 0..255
    PROVE  /\ RowsOf(y) \in Seq(Objects)
           /\ Once(RowsOf(y))
<1> DEFINE a == Row(y)
           b == Row(y + 16)
           first == oam_hash[a]
           second == oam_hash[b]
<1>1. a \in Rows /\ b \in Rows /\ a # b
  BY DEF Row, Rows
<1>2. first \in Seq(Objects) /\ second \in Seq(Objects)
  BY <1>1 DEF HashInv, TypeOK
<1>3. RowsOf(y) = first \o second
  BY DEF RowsOf
<1>4. /\ \A i \in DOMAIN first : Row(oam[first[i]].y) = a
      /\ \A i \in DOMAIN second : Row(oam[second[i]].y) = b
      /\ Once(first) /\ Once(second)
  BY <1>1 DEF HashInv, RowsAgree, Once
<1> HIDE DEF a, b, first, second
<1>5. /\ first \o second \in Seq(Objects)
      /\ Len(first) \in Nat /\ DOMAIN first = 1..Len(first)
      /\ Len(second) \in Nat /\ DOMAIN second = 1..Len(second)
      /\ DOMAIN (first \o second) = 1..(Len(first) + Len(second))
      /\ \A i \in 1..Len(first) : (first \o second)[i] = first[i]
      /\ \A i \in (Len(first) + 1)..(Len(first) + Len(second)) :
            (first \o second)[i] = second[i - Len(first)]
  BY <1>2
<1>6. ASSUME NEW i \in DOMAIN (first \o second), NEW j \in DOMAIN (first \o second),
             (first \o second)[i] = (first \o second)[j]
      PROVE  i = j
  <2>1. CASE i \in 1..Len(first) /\ j \in 1..Len(first)
    BY <1>4, <1>5, <1>6, <2>1 DEF Once
  <2>2. CASE i \notin 1..Len(first) /\ j \notin 1..Len(first)
    <3>1. /\ i - Len(first) \in 1..Len(second) /\ j - Len(first) \in 1..Len(second)
          /\ i \in (Len(first) + 1)..(Len(first) + Len(second))
          /\ j \in (Len(first) + 1)..(Len(first) + Len(second))
      BY <1>5, <2>2
    <3>2. second[i - Len(first)] = second[j - Len(first)]
      BY <1>5, <1>6, <3>1
    <3>3. i - Len(first) = j - Len(first)
      BY <1>4, <1>5, <3>1, <3>2 DEF Once
    <3> QED BY <1>5, <3>1, <3>3
  <2>3. ASSUME NEW k \in DOMAIN (first \o second), k \notin 1..Len(first)
        PROVE  Row(oam[(first \o second)[k]].y) = b
    <3>1. /\ k - Len(first) \in 1..Len(second)
          /\ k \in (Len(first) + 1)..(Len(first) + Len(second))
      BY <1>5, <2>3
    <3> QED BY <1>4, <1>5, <3>1
  <2>4. \A k \in 1..Len(first) : Row(oam[(first \o second)[k]].y) = a
    BY <1>4, <1>5
  <2> QED BY <1>1, <1>6, <2>1, <2>2, <2>3, <2>4
<1> QED BY <1>3, <1>5, <1>6 DEF Once

\* What get_objs_at_xy has after looking at the first i objects of its rows.
Looked(rows, i, found, x, y) ==
    /\ Len(found) <= MaxFound
    /\ Once(found)
    /\ \A o : OnRow(found, o) => \E j \in 1..i : rows[j] = o /\ Covers(o, x, y)
    /\ \/ Len(found) = MaxFound
       \/ \A j \in 1..i : Covers(rows[j], x, y) => OnRow(found, rows[j])

\* One turn of its loop.
LEMMA LookedOn ==
    ASSUME NEW x, NEW y, NEW rows \in Seq(Objects), Once(rows),
           NEW i \in 1..Len(rows), NEW found \in Seq(Objects),
           Looked(rows, i - 1, found, x, y)
    PROVE  LET next == IF Len(found) < MaxFound /\ Covers(rows[i], x, y)
                         THEN Append(found, rows[i]) ELSE found
           IN Looked(rows, i, next, x, y)
<1> DEFINE o == rows[i]
<1>1. /\ i \in Nat /\ i - 1 \in Nat /\ Len(rows) \in Nat /\ DOMAIN rows = 1..Len(rows)
      /\ o \in Objects /\ Len(found) \in Nat /\ MaxFound \in Nat
      /\ 1..(i - 1) \subseteq 1..i /\ i \in 1..i
      /\ \A j \in 1..i : j \in 1..(i - 1) \/ j = i
      /\ i \notin 1..(i - 1) /\ 1..i \subseteq 1..Len(rows)
  BY ObjectsAssumption
<1>2. CASE Len(found) < MaxFound /\ Covers(o, x, y)
  <2>1. ~OnRow(found, o)
    <3>1. \A j \in 1..(i - 1) : rows[j] # o
      BY <1>1 DEF Once
    <3> QED BY <3>1 DEF Looked
  <2> DEFINE next == Append(found, o)
  <2>2. /\ Once(next)
        /\ \A p : OnRow(next, p) <=> OnRow(found, p) \/ p = o
    BY <1>1, <2>1, AppendedRow DEF Looked
  <2>3. Len(next) = Len(found) + 1
    BY <1>1
  <2> HIDE DEF next, o
  <2>4. Len(next) <= MaxFound
    BY <1>1, <1>2, <2>3
  <2>5. \A p : OnRow(next, p) => \E j \in 1..i : rows[j] = p /\ Covers(p, x, y)
    <3> SUFFICES ASSUME NEW p, OnRow(next, p)
                 PROVE  \E j \in 1..i : rows[j] = p /\ Covers(p, x, y)
      OBVIOUS
    <3>1. CASE OnRow(found, p)
      BY <1>1, <3>1 DEF Looked
    <3>2. CASE p = o
      BY <1>1, <1>2, <3>2 DEF o
    <3> QED BY <2>2, <3>1, <3>2
  <2>6. \A j \in 1..i : Covers(rows[j], x, y) => OnRow(next, rows[j])
    <3> SUFFICES ASSUME NEW j \in 1..i, Covers(rows[j], x, y)
                 PROVE  OnRow(next, rows[j])
      OBVIOUS
    <3>1. CASE j = i
      BY <2>2, <3>1 DEF o
    <3>2. CASE j \in 1..(i - 1)
      <4>1. Len(found) # MaxFound
        BY <1>1, <1>2
      <4> QED BY <2>2, <3>2, <4>1 DEF Looked
    <3> QED BY <1>1, <3>1, <3>2
  <2>7. Looked(rows, i, next, x, y)
    BY <2>2, <2>4, <2>5, <2>6 DEF Looked
  <2> QED BY <1>2, <2>7 DEF next, o
<1>3. CASE ~(Len(found) < MaxFound /\ Covers(o, x, y))
  <2> HIDE DEF o
  <2>1. \A p : OnRow(found, p) => \E j \in 1..i : rows[j] = p /\ Covers(p, x, y)
    BY <1>1 DEF Looked
  <2>2. \/ Len(found) = MaxFound
        \/ \A j \in 1..i : Covers(rows[j], x, y) => OnRow(found, rows[j])
    <3>1. CASE Len(found) < MaxFound
      BY <1>1, <1>3, <3>1 DEF Looked, o
    <3>2. CASE ~(Len(found) < MaxFound)
      BY <1>1, <3>2 DEF Looked
    <3> QED BY <3>1, <3>2
  <2>3. Looked(rows, i, found, x, y)
    BY <2>1, <2>2 DEF Looked
  <2> QED BY <1>3, <2>3 DEF o
<1> QED BY <1>2, <1>3

\* The whole of it.
LEMMA Lookup ==
    ASSUME NEW x, NEW y, RowsOf(y) \in Seq(Objects), Once(RowsOf(y))
    PROVE  /\ get_objs_at_xy(x, y) \in Seq(Objects)
           /\ Looked(RowsOf(y), Len(RowsOf(y)), get_objs_at_xy(x, y), x, y)
<1> DEFINE rows == RowsOf(y)
           n == Len(rows)
           next(i, found) == IF Len(found) < MaxFound /\ Covers(rows[i], x, y)
                               THEN Append(found, rows[i]) ELSE found
<1>1. PICK objs \in [0..n -> Seq(Objects)] :
         /\ objs[0] = << >>
         /\ \A i \in 1..n : objs[i] = next(i, objs[i - 1])
         /\ get_objs_at_xy(x, y) = objs[n]
  BY LookupLoop
<1>2. n \in Nat /\ rows \in Seq(Objects) /\ Once(rows)
  OBVIOUS
<1> HIDE DEF rows, n
<1> DEFINE T == {i \in 0..n : Looked(rows, i, objs[i], x, y)}
<1>3. 0 \in T
  <2>1. Looked(rows, 0, << >>, x, y)
    <3>1. Len(<< >>) = 0 /\ DOMAIN << >> = {} /\ 1..0 = {} /\ 0 <= MaxFound
      BY ObjectsAssumption
    <3> QED BY <3>1 DEF Looked, Once, OnRow
  <2> QED BY <1>1, <1>2, <2>1
<1>4. ASSUME NEW i \in 0..n, i \in T, i + 1 <= n
      PROVE  i + 1 \in T
  <2>1. i + 1 \in 1..n /\ i + 1 \in 0..n /\ (i + 1) - 1 = i /\ i \in 0..n
    BY <1>2, <1>4
  <2>2. objs[i] \in Seq(Objects) /\ Looked(rows, (i + 1) - 1, objs[i], x, y)
    BY <1>4, <2>1
  <2>3. i + 1 \in 1..Len(rows)
    BY <2>1 DEF n
  <2>4. Looked(rows, i + 1, next(i + 1, objs[i]), x, y)
    BY <1>2, <2>2, <2>3, LookedOn
  <2>5. objs[i + 1] = next(i + 1, objs[i])
    BY <1>1, <2>1
  <2> HIDE DEF next
  <2> QED BY <2>1, <2>4, <2>5
<1>5. n \in T
  <2> HIDE DEF T
  <2>1. 0..n \subseteq T
    BY <1>2, <1>3, <1>4, Induction
  <2> QED BY <1>2, <2>1
<1> QED BY <1>1, <1>2, <1>5 DEF rows, n

\* What is found are as many objects as pointers.
LEMMA FoundOnce ==
    ASSUME NEW found \in Seq(Objects), Once(found)
    PROVE  Cardinality({found[i] : i \in DOMAIN found}) = Len(found)
<1> DEFINE F == {found[i] : i \in DOMAIN found}
           D == 1..Len(found)
<1>1. Len(found) \in Nat /\ DOMAIN found = D
  OBVIOUS
<1>2. found \in Bijection(D, F)
  <2>1. found \in [D -> F]
    OBVIOUS
  <2>2. \A i, j \in D : found[i] = found[j] => i = j
    BY <1>1 DEF Once
  <2>3. \A o \in F : \E i \in D : found[i] = o
    BY <1>1
  <2> QED BY <2>1, <2>2, <2>3 DEF Bijection, Injection, IsInjective, Surjection
<1>3. IsFiniteSet(D) /\ Cardinality(D) = Len(found)
  BY <1>1, FS_Interval
<1> QED BY <1>2, <1>3, FS_Bijection DEF ExistsBijection

LEMMA LookupExact == HashInv => LookupIsExact
<1> SUFFICES ASSUME HashInv, NEW x \in Columns, NEW y \in Lines
             PROVE  /\ Found(x, y) \subseteq Covering(x, y)
                    /\ Cardinality(Found(x, y)) = Len(get_objs_at_xy(x, y))
                    /\ Cardinality(Found(x, y)) <= MaxFound
                    /\ \/ Cardinality(Found(x, y)) = MaxFound
                       \/ {o \in Covering(x, y) : Row(oam[o].y) # 0}
                            \subseteq Found(x, y)
  BY Zenon DEF LookupIsExact
<1> DEFINE found == get_objs_at_xy(x, y)
           rows == RowsOf(y)
<1>1. y \in 0..255
  BY ObjectsAssumption
<1>2. rows \in Seq(Objects) /\ Once(rows)
  BY <1>1, RowsOfLine
<1>3. found \in Seq(Objects) /\ Looked(rows, Len(rows), found, x, y)
  BY <1>2, Lookup
<1>4. \A o : o \in Found(x, y) <=> OnRow(found, o)
  BY DEF Found, OnRow
<1>5. /\ Len(rows) \in Nat /\ DOMAIN rows = 1..Len(rows)
      /\ \A j \in 1..Len(rows) : rows[j] \in Objects
  BY <1>2
<1>6. Cardinality(Found(x, y)) = Len(found)
  BY <1>3, FoundOnce DEF Found, Looked
<1> HIDE DEF found, rows
<1>7. Found(x, y) \subseteq Covering(x, y)
  BY <1>3, <1>4, <1>5 DEF Looked, Covering
<1>8. \/ Len(found) = MaxFound
      \/ {o \in Covering(x, y) : Row(oam[o].y) # 0} \subseteq Found(x, y)
  <2> SUFFICES ASSUME Len(found) # MaxFound,
                      NEW o \in Covering(x, y), Row(oam[o].y) # 0
               PROVE  o \in Found(x, y)
    OBVIOUS
  <2>1. o \in Objects /\ Covers(o, x, y) /\ OnLine(o, y)
    BY DEF Covering, Covers
  <2>2. OnRow(rows, o)
    BY <1>1, <2>1, TwoRowsAreEnough DEF rows
  <2>3. PICK j \in 1..Len(rows) : rows[j] = o
    BY <1>5, <2>2 DEF OnRow
  <2> QED BY <1>3, <1>4, <2>1, <2>3 DEF Looked
<1> QED BY <1>3, <1>6, <1>7, <1>8 DEF Looked, found

\* get_objs_at_xy finds what covers a pixel, as far as it is on a row, and nothing
\* else: up to as many objects as it considers, and none twice.
THEOREM LookupCorrect == Spec => []LookupIsExact
  BY HashCorrect, LookupExact, PTL

-----------------------------------------------------------------------------
(* The frontmost object is seen.                                            *)

\* The loop of get_pixel_priority_from_objs, turn by turn.
LEMMA PriorityLoop ==
    ASSUME NEW n \in Nat, n >= 1, NEW objs \in [1..n -> Objects], Len(objs) = n
    PROVE  \E best \in [1..n -> Objects] :
              /\ best[1] = objs[1]
              /\ \A i \in 2..n :
                    best[i] = IF TakesOver(best[i - 1], objs[i])
                                THEN objs[i] ELSE best[i - 1]
              /\ get_pixel_priority_from_objs(objs) = best[n]
<1> DEFINE Turn(i, best) == IF TakesOver(best, objs[i]) THEN objs[i] ELSE best
           Is(f) == f = [i \in DOMAIN objs |->
                            IF i = 1 THEN objs[1] ELSE Turn(i, f[i - 1])]
           turn == [i \in 2..n |-> [best \in Objects |-> Turn(i, best)]]
           best == CHOOSE f : Is(f)
<1>1. get_pixel_priority_from_objs(objs) = best[n]
  BY DEF get_pixel_priority_from_objs
<1>2. /\ DOMAIN objs = 1..n /\ 2..n \subseteq 1..n /\ 1 \in 1..n
      /\ \A i \in 1..n : i = 1 \/ i \in 2..n
      /\ \A i \in 2..n : i # 1 /\ i - 1 \in 1..n
  OBVIOUS
<1>3. \A i \in 2..n : \A b \in Objects : Turn(i, b) \in Objects
  BY <1>2
<1> HIDE DEF Turn
<1>4. turn \in [2..n -> [Objects -> Objects]]
  BY <1>3
<1>5. PICK f \in [1..n -> Objects] :
         /\ f[1] = objs[1]
         /\ \A i \in 2..n : f[i] = turn[i][f[i - 1]]
  <2>1. 1 \in Nat /\ 1 <= n /\ 1 + 1 = 2 /\ objs[1] \in Objects
    BY <1>2
  <2>2. turn \in [(1 + 1)..n -> [Objects -> Objects]]
    BY <1>4
  <2> HIDE DEF turn
  <2>3. PICK f \in [1..n -> Objects] : Runs(f, 1, n, objs[1], turn)
    BY <2>1, <2>2, LoopExists, Zenon
  <2> QED BY <2>1, <2>3 DEF Runs
<1>6. \A i \in 2..n : f[i] = Turn(i, f[i - 1])
  <2>1. \A i \in 2..n : f[i - 1] \in Objects
    BY <1>2
  <2> QED BY <1>5, <2>1
<1>7. Is(f)
  <2>1. f = [i \in DOMAIN objs |-> f[i]]
    BY <1>2
  <2>2. \A i \in DOMAIN objs : f[i] = IF i = 1 THEN objs[1] ELSE Turn(i, f[i - 1])
    BY <1>2, <1>5, <1>6
  <2> QED BY <2>1, <2>2
<1>8. Is(best)
  BY <1>7
<1> HIDE DEF best
<1> DEFINE T == {i \in 1..n : best[i] = f[i]}
<1>9. 1 \in T
  BY <1>2, <1>5, <1>8
<1>10. ASSUME NEW i \in 1..n, i \in T, i + 1 <= n
       PROVE  i + 1 \in T
  <2>1. i + 1 \in 2..n /\ i + 1 \in 1..n /\ (i + 1) - 1 = i /\ i + 1 # 1
    BY <1>10
  <2>2. best[i + 1] = Turn(i + 1, best[i])
    BY <1>2, <1>8, <2>1
  <2>3. f[i + 1] = Turn(i + 1, f[i])
    BY <1>6, <2>1
  <2> QED BY <1>10, <2>1, <2>2, <2>3
<1>11. n \in T
  <2> HIDE DEF T
  <2>1. 1..n \subseteq T
    BY <1>9, <1>10, Induction
  <2> QED BY <1>2, <2>1
<1>12. get_pixel_priority_from_objs(objs) = f[n]
  BY <1>1, <1>11
<1> QED BY <1>5, <1>6, <1>12 DEF Turn

\* What has the pixel after the objects of Met have been looked at: the frontmost
\* of the opaque ones, or a transparent one if there is no other.
Has(best, Met) ==
    /\ best \in Met
    /\ \A o \in Met : oam[o].colour # 0 =>
          /\ oam[best].colour # 0
          /\ o = best \/ Before(best, o)

\* One turn of its loop.
LEMMA TakenOver ==
    ASSUME HashInv, NEW Met \in SUBSET Objects, NEW best \in Objects, Has(best, Met),
           NEW o \in Objects,
           \A p \in Met : oam[o].x = oam[p].x =>
              /\ oam[o].colour = 0 /\ oam[p].colour # 0 => p < o
              /\ oam[o].colour # 0 /\ oam[p].colour = 0 => o < p
    PROVE  Has(IF TakesOver(best, o) THEN o ELSE best, Met \cup {o})
<1>1. /\ \A p \in Objects : oam[p].x \in Int /\ p \in Int
      /\ best \in Met
  <2>1. oam \in Table
    BY DEF HashInv, TypeOK, Table
  <2>2. \A p \in Objects : oam[p].x \in Int
    BY <2>1 DEF Table
  <2>3. \A p \in Objects : p \in Int
    BY ObjectsAssumption DEF Objects
  <2> QED BY <2>2, <2>3 DEF Has
<1>2. CASE oam[o].colour = 0
  <2>1. ~TakesOver(best, o)
    BY <1>1, <1>2 DEF TakesOver
  <2> QED BY <1>2, <2>1 DEF Has
<1>3. CASE oam[o].colour # 0 /\ oam[best].colour = 0
  <2>1. TakesOver(best, o)
    BY <1>3 DEF TakesOver
  <2>2. \A p \in Met : oam[p].colour = 0
    BY <1>3 DEF Has
  <2> QED BY <1>3, <2>1, <2>2 DEF Has
<1>4. CASE oam[o].colour # 0 /\ oam[best].colour # 0
  <2>1. TakesOver(best, o) <=> Before(o, best)
    BY <1>1, <1>4 DEF TakesOver, Before
  <2>2. CASE Before(o, best)
    <3>1. \A p \in Met : oam[p].colour # 0 => Before(o, p)
      BY <1>1, <2>2 DEF Has, Before
    <3> QED BY <1>4, <2>1, <2>2, <3>1 DEF Has
  <2>3. CASE ~Before(o, best)
    <3>1. o = best \/ Before(best, o)
      BY <1>1, <2>3 DEF Before
    <3> QED BY <1>4, <2>1, <2>3, <3>1 DEF Has
  <2> QED BY <2>2, <2>3
<1> QED BY <1>2, <1>3, <1>4

\* The whole of it.
LEMMA Priority ==
    ASSUME HashInv, NEW n \in Nat, n >= 1, NEW objs \in [1..n -> Objects], Len(objs) = n,
           \A i, j \in 1..n :
              oam[objs[i]].colour = 0 /\ oam[objs[j]].colour # 0
                /\ oam[objs[i]].x = oam[objs[j]].x => objs[j] < objs[i]
    PROVE  Has(get_pixel_priority_from_objs(objs), {objs[i] : i \in 1..n})
<1> DEFINE Met(i) == {objs[j] : j \in 1..i}
<1>1. PICK best \in [1..n -> Objects] :
         /\ best[1] = objs[1]
         /\ \A i \in 2..n : best[i] = IF TakesOver(best[i - 1], objs[i])
                                        THEN objs[i] ELSE best[i - 1]
         /\ get_pixel_priority_from_objs(objs) = best[n]
  BY PriorityLoop
<1> DEFINE T == {i \in 1..n : Has(best[i], Met(i))}
<1>2. 1 \in T
  <2>1. Met(1) = {objs[1]} /\ 1 \in 1..n
    OBVIOUS
  <2> HIDE DEF Met
  <2> QED BY <1>1, <2>1 DEF Has
<1>3. ASSUME NEW i \in 1..n, i \in T, i + 1 <= n
      PROVE  i + 1 \in T
  <2>1. i + 1 \in 2..n /\ i + 1 \in 1..n /\ (i + 1) - 1 = i /\ 1..i \subseteq 1..n
    BY <1>3
  <2>2. Met(i + 1) = Met(i) \cup {objs[i + 1]}
    <3>1. \A j \in 1..(i + 1) : j \in 1..i \/ j = i + 1
      BY <1>3
    <3>2. 1..i \subseteq 1..(i + 1) /\ i + 1 \in 1..(i + 1)
      BY <1>3
    <3> QED BY <3>1, <3>2
  <2>3. \A p \in Met(i) : \E j \in 1..n : p = objs[j]
    BY <2>1
  <2>4. Met(i) \in SUBSET Objects
    BY <2>3
  <2> HIDE DEF Met
  <2> DEFINE o == objs[i + 1]
             b == best[i]
  <2>5. o \in Objects /\ b \in Objects /\ Has(b, Met(i))
    BY <1>3, <2>1
  <2>6. \A p \in Met(i) : oam[o].x = oam[p].x =>
              /\ oam[o].colour = 0 /\ oam[p].colour # 0 => p < o
              /\ oam[o].colour # 0 /\ oam[p].colour = 0 => o < p
    BY <2>1, <2>3
  <2>7. best[i + 1] = IF TakesOver(b, o) THEN o ELSE b
    BY <1>1, <2>1
  <2> HIDE DEF o, b
  <2>8. Has(IF TakesOver(b, o) THEN o ELSE b, Met(i) \cup {o})
    BY <2>4, <2>5, <2>6, TakenOver
  <2> QED BY <2>1, <2>2, <2>7, <2>8 DEF o
<1>4. n \in T
  <2> HIDE DEF T
  <2>1. 1 \in Nat /\ n \in 1..n
    OBVIOUS
  <2>2. 1..n \subseteq T
    BY <1>2, <1>3, <2>1, Induction
  <2> QED BY <2>1, <2>2
<1> QED BY <1>1, <1>4

LEMMA FrontmostSeen == HashInv => FrontmostWins
<1> SUFFICES ASSUME HashInv, NEW x \in Columns, NEW y \in Lines,
                    {o \in Covering(x, y) : oam[o].colour # 0} # {},
                    \A o \in Covering(x, y) \ {o \in Covering(x, y) : oam[o].colour # 0},
                       p \in {o \in Covering(x, y) : oam[o].colour # 0} :
                          oam[o].x = oam[p].x => p < o,
                    NEW objs \in Orders(Covering(x, y))
             PROVE  /\ get_pixel_priority_from_objs(objs)
                         \in {o \in Covering(x, y) : oam[o].colour # 0}
                    /\ \A o \in {o \in Covering(x, y) : oam[o].colour # 0}
                                   \ {get_pixel_priority_from_objs(objs)} :
                          Before(get_pixel_priority_from_objs(objs), o)
  BY Zenon DEF FrontmostWins
<1> DEFINE met == Covering(x, y)
           n == Cardinality(met)
<1>1. met \subseteq Objects
  BY DEF Covering
<1>2. IsFiniteSet(met)
  <2>1. IsFiniteSet(Objects)
    BY FS_Interval, ObjectsAssumption DEF Objects
  <2> HIDE DEF met
  <2> QED BY <1>1, <2>1, FS_Subset
<1>3. n \in Nat /\ n >= 1
  <2>1. met # {}
    OBVIOUS
  <2> HIDE DEF met
  <2> QED BY <1>2, <2>1, FS_CardinalityType, FS_EmptySet
<1>4. /\ objs \in [1..n -> met]
      /\ \A i, j \in 1..n : objs[i] = objs[j] => i = j
  BY DEF Orders
<1>5. \A p \in met, o \in met :
         oam[o].colour = 0 /\ oam[p].colour # 0 /\ oam[o].x = oam[p].x => p < o
  OBVIOUS
<1>6. \E o \in met : oam[o].colour # 0
  OBVIOUS
<1> HIDE DEF met, n
<1>7. {objs[i] : i \in 1..n} = met
  <2>1. objs \in Injection(1..n, met)
    BY <1>4 DEF Injection, IsInjective
  <2>2. IsFiniteSet(1..n) /\ Cardinality(1..n) = n
    BY <1>3, FS_Interval
  <2>3. objs \in Surjection(1..n, met)
    BY <1>2, <2>1, <2>2, FS_Injection DEF n
  <2> QED BY <1>4, <2>3 DEF Surjection
<1>8. objs \in [1..n -> Objects] /\ Len(objs) = n
  <2>1. objs \in Seq(met)
    BY <1>3, <1>4
  <2> QED BY <1>1, <1>3, <1>4, <2>1
<1>9. Has(get_pixel_priority_from_objs(objs), met)
  <2>1. \A i, j \in 1..n :
              oam[objs[i]].colour = 0 /\ oam[objs[j]].colour # 0
                /\ oam[objs[i]].x = oam[objs[j]].x => objs[j] < objs[i]
    BY <1>4, <1>5
  <2>2. Has(get_pixel_priority_from_objs(objs), {objs[i] : i \in 1..n})
    BY <1>3, <1>8, <2>1, Priority
  <2> QED BY <1>7, <2>2
<1> QED BY <1>6, <1>9 DEF Has, met

\* get_pixel_priority_from_objs shows the leftmost opaque object, and of those the
\* first in the table, in whatever order the index holds them.
THEOREM FrontmostShown == Spec => []FrontmostWins
  BY HashCorrect, FrontmostSeen, PTL

-----------------------------------------------------------------------------
(* The layers of a line.                                                    *)

\* The registers are bytes.
LEMMA VideoTyped == VideoSpec => []VideoTypeOK
  <1>1. VideoInit => VideoTypeOK
    BY DEF VideoInit, VideoTypeOK
  <1>2. VideoTypeOK /\ [WriteVideo]_videoVars => VideoTypeOK'
    <2> SUFFICES ASSUME VideoTypeOK, [WriteVideo]_videoVars PROVE VideoTypeOK'
      OBVIOUS
    <2> USE ScanlineAssumption DEF VideoTypeOK
    <2>1. CASE WriteLayers
      BY <2>1 DEF WriteLayers
    <2>2. CASE WriteScy
      BY <2>2 DEF WriteScy
    <2>3. CASE WriteScx
      BY <2>3 DEF WriteScx
    <2>4. CASE WriteWy
      BY <2>4 DEF WriteWy
    <2>5. CASE WriteWx
      BY <2>5 DEF WriteWx
    <2>6. CASE UNCHANGED videoVars
      BY <2>6 DEF videoVars
    <2> QED BY <2>1, <2>2, <2>3, <2>4, <2>5, <2>6 DEF WriteVideo
  <1> QED BY <1>1, <1>2, PTL DEF VideoSpec

\* Counting a tile as a signed byte from the middle of the data is counting it
\* around from 128 tiles before.
LEMMA SignedTiles ==
    ASSUME NEW tile \in 0..255, NEW row \in 0..7, NEW column
    PROVE  Index(get_tile_line(tile, row), column) = TilePixel(tile, column, row)
  <1>1. 4096 + 16 * Signed(tile) = 2048 + 16 * ((tile + 128) % 256)
    BY DEF Signed
  <1>2. get_tile_line(tile, row) =
          2 * row + (IF "BGWIN_TILE_DATA" \in lcdc THEN 16 * tile
                     ELSE 2048 + 16 * ((tile + 128) % 256))
    BY <1>1 DEF get_tile_line
  <1> QED BY <1>2 DEF TilePixel

\* The entries of a map are bytes.
LEMMA MapsOfBytes ==
    /\ bg_tilemap \in [TileMap -> Bytes]
    /\ win_tilemap \in [TileMap -> Bytes]
  BY ScanlineAssumption DEF bg_tilemap, win_tilemap

\* The background and the window are their pictures.
LEMMA BackgroundIsPicture ==
    ASSUME VideoTypeOK, NEW ly \in 0..255, NEW x \in 0..255
    PROVE  bg_indx(ly, x) = Picture(bg_tilemap, (x + scx) % 256, (ly + scy) % 256)
  <1> DEFINE row == ((ly + scy) % 256) \div 8
             column == ((x + scx) % 256) \div 8
             tile == bg_tilemap[32 * row + column]
  <1>1. scx \in 0..255 /\ scy \in 0..255
    BY DEF VideoTypeOK
  <1>2. /\ (32 * ((ly + scy) \div 8)) % 1024 = 32 * row
        /\ ((ly + scy) % 256) % 8 = (ly + scy) % 8 /\ (ly + scy) % 8 \in 0..7
        /\ row \in 0..31
    BY <1>1
  <1>3. /\ ((x % 8) + (scx % 8)) % 8 = (x + scx) % 8
        /\ ((x + scx) % 256) % 8 = (x + scx) % 8
        /\ column \in 0..31
    BY <1>1
  <1>4. 32 * row + column \in TileMap
    BY <1>2, <1>3 DEF TileMap
  <1>5. tile \in 0..255
    BY <1>4, MapsOfBytes DEF Bytes
  <1>6. Entry(bg_tilemap, (ly + scy) \div 8, column) = tile
    BY <1>2 DEF Entry
  <1>7. bg_indx(ly, x) = Index(get_tile_line(tile, (ly + scy) % 8), (x + scx) % 8)
    BY <1>3, <1>6 DEF bg_indx
  <1>8. Index(get_tile_line(tile, (ly + scy) % 8), (x + scx) % 8)
          = TilePixel(tile, (x + scx) % 8, (ly + scy) % 8)
    BY <1>2, <1>5, SignedTiles
  <1>9. Picture(bg_tilemap, (x + scx) % 256, (ly + scy) % 256)
          = TilePixel(tile, (x + scx) % 8, (ly + scy) % 8)
    BY <1>2, <1>3 DEF Picture
  <1> QED BY <1>7, <1>8, <1>9

LEMMA WindowIsPicture ==
    ASSUME VideoTypeOK, NEW ly \in 0..255, NEW x \in 0..159, InWindow(ly, x)
    PROVE  win_indx(ly, x) = Picture(win_tilemap, x + 7 - wx, ly - wy)
  <1> DEFINE row == (ly - wy) \div 8
             column == (x + 7 - wx) \div 8
             tile == win_tilemap[32 * row + column]
  <1>1. ly - wy \in 0..255 /\ x + 7 - wx \in 0..166
    BY DEF VideoTypeOK, InWindow
  <1>2. row \in 0..31 /\ column \in 0..20 /\ (ly - wy) % 8 \in 0..7
    BY <1>1
  <1>3. (32 * row) % 1024 = 32 * row
    BY <1>2
  <1>4. 32 * row + column \in TileMap
    BY <1>2 DEF TileMap
  <1>5. tile \in 0..255
    BY <1>4, MapsOfBytes DEF Bytes
  <1>6. Entry(win_tilemap, row, column) = tile
    BY <1>3 DEF Entry
  <1>7. win_indx(ly, x) = Index(get_tile_line(tile, (ly - wy) % 8), (x + 7 - wx) % 8)
    BY <1>6 DEF win_indx
  <1>8. Index(get_tile_line(tile, (ly - wy) % 8), (x + 7 - wx) % 8)
          = TilePixel(tile, (x + 7 - wx) % 8, (ly - wy) % 8)
    BY <1>2, <1>5, SignedTiles, ZenonT(40)
  <1>9. Picture(win_tilemap, x + 7 - wx, ly - wy)
          = TilePixel(tile, (x + 7 - wx) % 8, (ly - wy) % 8)
    BY DEF Picture
  <1> QED BY <1>7, <1>8, <1>9

\* An object is its tile, either way up and either way round.
LEMMA ObjectIsTile == ObjectsAreTiles
  <1> SUFFICES ASSUME NEW size \in {8, 16}, NEW ly \in LineSet, NEW x \in PixelSet,
                      NEW obj \in [y : Positions, x : Positions, tile : Tiles,
                                   flip_x : BOOLEAN, flip_y : BOOLEAN],
                      x + 8 - obj.x \in 0..7, ly + 16 - obj.y \in 0..(size - 1)
               PROVE  obj_indx(size, obj, ly, x) =
                        Index(16 * obj.tile
                                + 2 * Mirrored(obj.flip_y, ly + 16 - obj.y, size),
                              Mirrored(obj.flip_x, x + 8 - obj.x, 8))
    BY DEF ObjectsAreTiles
  <1>1. x \in Int /\ obj.x \in Int
    <2>1. obj.x \in Positions
      OBVIOUS
    <2>2. Positions \subseteq Int /\ PixelSet \subseteq Int
      BY ScanlineAssumption
    <2> QED BY <2>1, <2>2, Zenon
  <1>2. (x - obj.x) % 8 = x + 8 - obj.x /\ (7 - (x - obj.x)) % 8 = 7 - (x + 8 - obj.x)
    BY <1>1
  <1>3. (IF obj.flip_x THEN 7 - (x - obj.x) ELSE x - obj.x) % 8
          = Mirrored(obj.flip_x, x + 8 - obj.x, 8)
    BY <1>2 DEF Mirrored
  <1>4. get_tile_line_from_object(size, obj, ly + 16 - obj.y)
          = 16 * obj.tile + 2 * Mirrored(obj.flip_y, ly + 16 - obj.y, size)
    BY DEF get_tile_line_from_object, Mirrored
  <1> QED BY <1>3, <1>4 DEF obj_indx

\* Whatever is in the video memory and however it is scrolled, each layer shows
\* the picture it stands for.
THEOREM PicturesShown == VideoSpec => []LayersShowPictures
  <1>1. VideoTypeOK => LayersShowPictures
    <2> SUFFICES ASSUME VideoTypeOK, NEW ly \in LineSet, NEW x \in PixelSet
                 PROVE  /\ bg_indx(ly, x)
                             = Picture(bg_tilemap, (x + scx) % 256, (ly + scy) % 256)
                        /\ InWindow(ly, x) =>
                             win_indx(ly, x)
                               = Picture(win_tilemap, x + 7 - wx, ly - wy)
      BY ObjectIsTile DEF LayersShowPictures
    <2>1. ly \in 0..255 /\ x \in 0..159 /\ x \in 0..255
      BY ScanlineAssumption
    <2>2. bg_indx(ly, x) = Picture(bg_tilemap, (x + scx) % 256, (ly + scy) % 256)
      BY <2>1, BackgroundIsPicture, ZenonT(40)
    <2>3. ASSUME InWindow(ly, x)
          PROVE  win_indx(ly, x) = Picture(win_tilemap, x + 7 - wx, ly - wy)
      BY <2>1, <2>3, WindowIsPicture
    <2> QED BY <2>2, <2>3
  <1> QED BY <1>1, VideoTyped, PTL

\* Whatever the objects are and the layers show, objects only add themselves.
THEOREM ObjectsAdd == VideoSpec => []ObjectsOnlyAdd
  <1>1. ObjectsOnlyAdd
    <2> SUFFICES ASSUME NEW ly \in LineSet, NEW x \in PixelSet, NEW obj \in ObjectPixels
                 PROVE  LET without == ppu_render_line(NoObject, ly, x)
                            with == ppu_render_line(obj, ly, x)
                            own == <<obj.palette, obj.index>>
                            through == /\ "BG_ENABLE" \in lcdc /\ bg_indx(ly, x) # 0
                                       /\ InWindow(ly, x) /\ win_indx(ly, x) = 0
                        IN /\ with # without =>
                                Shown(obj) /\ (with = own \/ (obj.behind /\ through))
                           /\ Shown(obj) /\ ~obj.behind => with = own
                           /\ Shown(obj) /\ without[2] = 0 => (with = own \/ through)
                           /\ with = Unset =>
                                "BG_ENABLE" \notin lcdc /\ ~InWindow(ly, x) /\ ~Shown(obj)
      BY DEF ObjectsOnlyAdd
    <2>1. ~Shown(NoObject)
      BY DEF Shown, NoObject
    <2>2. "BGP" # "stack" /\ obj.palette # "stack"
      BY DEF ObjectPixels
    <2> QED BY <2>1, <2>2 DEF ppu_render_line, BelowWindow, Unset
  <1> QED BY <1>1, PTL
=============================================================================
