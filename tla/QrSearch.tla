------------------------------ MODULE QrSearch ------------------------------
(***************************************************************************)
(* How the pose task finds the frames of QR codes in a picture             *)
(* (QR_Posing.c).  A picture is scanned row by row, left to right and then *)
(* right to left, for white pixels with black ones TopMargin rows above    *)
(* them: the upper edge of a frame, which may descend by one row per       *)
(* column.  From the end of an edge that is long enough the side is        *)
(* followed down; if that is long enough too the corners are noted.        *)
(***************************************************************************)
EXTENDS Integers, Sequences

CONSTANTS Size,       \* rows and columns of a picture, 240
          TopMargin,  \* sTopMargin
          MinL,       \* sMinL
          Stepback,   \* sStepback
          MaxCodes    \* the length of l1, 5

(* register_lcd(..., 5, 20, 5): the margin is more than a row, and the     *)
(* side is followed inside of an edge that is long enough.                 *)
ASSUME SearchAssumption ==
  /\ Size \in Nat \ {0} /\ MaxCodes \in Nat \ {0, 1}
  /\ TopMargin \in Nat \ {0, 1}
  /\ MinL \in Nat \ {0} /\ Stepback \in 1..MinL

(* PureBOrW: the pixels that are white, and the cells that are not zero in *)
(* the memory around the array, which the search also reads: row by row as *)
(* if the picture went on there.                                           *)
IsWhite(bw, row, column) ==
  <<row, column>> \in IF row \in 0..(Size - 1) THEN bw.white ELSE bw.around

IsEdge(bw, row, column) ==
  IsWhite(bw, row, column) /\ ~IsWhite(bw, row - TopMargin, column)

(* A loop whose body takes the state s to F[s], after n rounds.            *)
Rounds(F, s, n) ==
  LET after[i \in Nat] == IF i = 0 THEN s ELSE F[after[i - 1]]
  IN  after[n]

(* Along the upper edge from (y, x) in direction d: how far it goes, in    *)
(* columns, and how many rows it descends.  A round looks at one column.   *)
(* Fault: the edge may not descend.                                        *)
TopStepFault(bw, y, x, d) ==
  [s \in Nat \X Nat |->
     IF s[1] < (IF d = 1 THEN Size - x ELSE x) /\ IsEdge(bw, y + s[2], x + d * s[1])
     THEN <<s[1] + 1, s[2]>> ELSE s]

TopStep(bw, y, x, d) ==
  LET limit == IF d = 1 THEN Size - x ELSE x
  IN  [s \in Nat \X Nat |->
         LET i == s[1]
             j == s[2]
         IN  IF i >= limit THEN s
             ELSE IF IsEdge(bw, y + j, x + d * i) THEN <<i + 1, j>>
             ELSE IF IsEdge(bw, y + j + 1, x + d * i) THEN <<i + 1, j + 1>>
             ELSE s]

TopLine(bw, y, x, d) == Rounds(TopStep(bw, y, x, d), <<1, 0>>, Size)

(* Down the side from the edge's end, Stepback columns inside of it.       *)
SideStep(bw, row, column, limit) ==
  [i \in Nat |-> IF i < limit /\ IsWhite(bw, row + i, column) THEN i + 1 ELSE i]

SideLine(bw, row, column, limit) ==
  Rounds(SideStep(bw, row, column, limit), 1, limit)

(* What is noted of a code: flipped, two corners, the row of another, and  *)
(* the length of its edge.                                                 *)
Notes == [f : BOOLEAN, x0 : Int, y0 : Int, x1 : Int, y3 : Int, dx : Int]

(* inz: the pixel is in an area already noted.                             *)
(* Fault: the area is a column too wide.                                   *)
CoversFault(code, y, x) ==
  /\ IF code.f THEN code.x1 <= x /\ x <= code.x0
               ELSE code.x0 <= x /\ x <= code.x1 + 1
  /\ code.y0 <= y /\ y <= code.y3

Covers(code, y, x) ==
  /\ IF code.f THEN code.x1 <= x /\ x <= code.x0
               ELSE code.x0 <= x /\ x <= code.x1
  /\ code.y0 <= y /\ y <= code.y3

(* The corners noted for an edge of dx columns and j rows and a side of    *)
(* dy rows.                                                                *)
Corners(y, x, d, dx, j, dy) ==
  [f |-> d = -1, x0 |-> x, y0 |-> y, x1 |-> x + d * dx,
   y3 |-> y + 2 * j + dy, dx |-> dx]

(* A round of the scan of row y, at column x in direction d.  An edge that *)
(* is too short is passed over.  After a longer one the scan moves on by   *)
(* the length of the side when it goes left to right, by the length of the *)
(* edge when it goes right to left.                                        *)
ScanStep(bw, d, y) ==
  [s \in Int \X Seq(Notes) |->
     LET x == s[1]
         l1 == s[2]
         top == TopLine(bw, y, x, d)
         dx == top[1]
         j == top[2]
         dy == SideLine(bw, y + j, x + d * (dx - Stepback), Size - y + j)
     IN  IF x \notin 0..(Size - 1) THEN s
         ELSE IF (\E n \in 1..Len(l1) : Covers(l1[n], y, x)) \/ ~IsEdge(bw, y, x)
              THEN <<x + d, l1>>
         ELSE IF dx <= MinL THEN <<x + d * (dx + 1), l1>>
         ELSE <<x + d * ((IF d = 1 THEN dy ELSE dx) + 1),
                IF dy > MinL /\ Len(l1) < MaxCodes
                THEN Append(l1, Corners(y, x, d, dx, j, dy)) ELSE l1>>]

ScanRow(bw, d, y, l1) ==
  Rounds(ScanStep(bw, d, y), <<IF d = 1 THEN 0 ELSE Size - 1, l1>>, Size)[2]

RowStep(bw, d) ==
  [s \in Nat \X Seq(Notes) |->
     IF s[1] < Size THEN <<s[1] + 1, ScanRow(bw, d, s[1], s[2])>> ELSE s]

(* All rows but the first.                                                 *)
ScanPicture(bw, d, l1) == Rounds(RowStep(bw, d), <<1, l1>>, Size)[2]

(* The codes noted in a picture, in the order they are found.              *)
Search(bw, l1) == ScanPicture(bw, -1, ScanPicture(bw, 1, l1))

Width(code) == IF code.f THEN code.x0 - code.x1 ELSE code.x1 - code.x0

(* The first of the widest codes noted, NULL if there is none.  The loop   *)
(* also has each code wider than 130 columns decoded and prints what it    *)
(* says, in a line of its own; that leaves l1 and best alone and is left   *)
(* out.                                                                    *)
Widest(l1, none) ==
  IF l1 = << >> THEN none
  ELSE l1[CHOOSE n \in 1..Len(l1) :
            /\ \A m \in 1..Len(l1) : l1[m].dx <= l1[n].dx
            /\ \A m \in 1..(n - 1) : l1[m].dx < l1[n].dx]
=============================================================================
