-------------------------- MODULE QrPipelineProofs --------------------------
(***************************************************************************)
(* The QR pose application, for any number of frames, any lengths of the   *)
(* queues, any size of the picture and any thresholds: no frame is lost,   *)
(* what is reported belongs to the frame at hand, and what the search      *)
(* finds is there.                                                         *)
(***************************************************************************)
EXTENDS QrPipeline, Functions, FiniteSetTheorems, TLAPS

-----------------------------------------------------------------------------
(* Induction, and loops *)

(* Every set of natural numbers that is not empty has a least element.     *)
LEMMA LeastNumber ==
  ASSUME NEW T, T \subseteq Nat, T # {}
  PROVE  \E n \in T : \A m \in T : n <= m
  <1>1. PICK n \in T : \A m \in T : ~(<<m, n>> \in OpToRel(<, Nat))
    BY NatLessThanWellFounded, WFMin, Zenon
  <1>2. \A m \in T : ~(m < n)
    BY <1>1, Zenon DEF OpToRel
  <1>3. \A m \in T : m \in Nat /\ n \in Nat
    OBVIOUS
  <1> HIDE <1>1
  <1> QED
    BY <1>2, <1>3

(* Induction, for a set of numbers instead of a predicate.                 *)
LEMMA Induction ==
  ASSUME NEW P, P \subseteq Nat, 0 \in P, \A n \in P : n + 1 \in P
  PROVE  P = Nat
  <1> SUFFICES ASSUME Nat \ P # {} PROVE FALSE
    OBVIOUS
  <1>1. PICK n \in Nat \ P : \A m \in Nat \ P : n <= m
    BY LeastNumber
  <1>2. n - 1 \in P
    BY <1>1
  <1> QED
    BY <1>1, <1>2

(* g is the history of a loop for n rounds.                                *)
Begins(F, s, g, n) ==
  g[0] = s /\ \A i \in 0..(n - 1) : g[i + 1] = F[g[i]]

IsHistory(f, F, s) == \A n \in Nat : f[n] = IF n = 0 THEN s ELSE F[f[n - 1]]

(* A loop whose body stays in S has a history.                             *)
LEMMA HistoryExists ==
  ASSUME NEW S, NEW F, \A t \in S : F[t] \in S, NEW s \in S
  PROVE  \E f \in [Nat -> S] : IsHistory(f, F, s)
  <1> DEFINE P == {n \in Nat : \E g \in [0..n -> S] : Begins(F, s, g, n)}
  <1>1. 0 \in P
    <2>1. /\ [i \in 0..0 |-> s] \in [0..0 -> S]
          /\ Begins(F, s, [i \in 0..0 |-> s], 0)
      BY DEF Begins
    <2> QED
      BY <2>1
  <1>2. ASSUME NEW n \in P PROVE n + 1 \in P
    <2>1. PICK g \in [0..n -> S] : Begins(F, s, g, n)
      OBVIOUS
    <2> DEFINE h == [i \in 0..(n + 1) |-> IF i = n + 1 THEN F[g[n]] ELSE g[i]]
    <2>2. h \in [0..(n + 1) -> S]
      OBVIOUS
    <2>3. Begins(F, s, h, n + 1)
      BY <2>1 DEF Begins
    <2> QED
      BY <2>2, <2>3
  <1>3. P = Nat
    <2> HIDE DEF P
    <2>1. P \subseteq Nat
      BY DEF P
    <2> QED
      BY <1>1, <1>2, <2>1, Induction
  <1>4. ASSUME NEW n \in Nat, NEW m \in Nat, NEW g, NEW h,
               Begins(F, s, g, n), Begins(F, s, h, m)
        PROVE  \A i \in Nat : i <= n /\ i <= m => g[i] = h[i]
    <2> DEFINE Q == {i \in Nat : i <= n /\ i <= m => g[i] = h[i]}
    <2>1. 0 \in Q /\ \A i \in Q : i + 1 \in Q
      BY <1>4 DEF Begins
    <2>2. Q = Nat
      <3> HIDE DEF Q
      <3>1. Q \subseteq Nat
        BY DEF Q
      <3> QED
        BY <2>1, <3>1, Induction
    <2> QED
      BY <2>2
  <1> DEFINE a(n) == CHOOSE g \in [0..n -> S] : Begins(F, s, g, n)
             f == [n \in Nat |-> a(n)[n]]
  <1>5. \A n \in Nat : a(n) \in [0..n -> S] /\ Begins(F, s, a(n), n)
    BY <1>3
  <1> HIDE DEF a
  <1>6. f \in [Nat -> S]
    BY <1>5
  <1>7. ASSUME NEW n \in Nat PROVE f[n] = IF n = 0 THEN s ELSE F[f[n - 1]]
    <2>1. CASE n = 0
      BY <2>1, <1>5 DEF Begins
    <2>2. CASE n # 0
      <3>1. n - 1 \in Nat /\ n - 1 \in 0..(n - 1) /\ (n - 1) + 1 = n
        BY <2>2
      <3>2. a(n)[n - 1] = a(n - 1)[n - 1]
        BY <3>1, <1>4, <1>5
      <3>3. a(n)[n] = F[a(n)[n - 1]]
        BY <1>5, <3>1 DEF Begins
      <3> QED
        BY <2>2, <3>1, <3>2, <3>3
    <2> QED
      BY <2>1, <2>2
  <1> QED
    BY <1>6, <1>7 DEF IsHistory

(* What Rounds computes: the loop's state stays in S, and each round is    *)
(* one execution of the body.                                              *)
LEMMA RoundsStep ==
  ASSUME NEW S, NEW F, \A t \in S : F[t] \in S, NEW s \in S
  PROVE  /\ Rounds(F, s, 0) = s
         /\ \A n \in Nat : /\ Rounds(F, s, n) \in S
                           /\ Rounds(F, s, n + 1) = F[Rounds(F, s, n)]
  <1> DEFINE Def(g) == [i \in Nat |-> IF i = 0 THEN s ELSE F[g[i - 1]]]
             after == CHOOSE g : g = Def(g)
  <1>1. \E f : f = Def(f)
    <2>1. PICK f \in [Nat -> S] : IsHistory(f, F, s)
      BY HistoryExists
    <2>2. f = Def(f)
      BY <2>1 DEF IsHistory
    <2> QED
      BY <2>2
  <1>2. after = Def(after)
    BY <1>1
  <1>3. \A n : Rounds(F, s, n) = after[n]
    BY DEF Rounds
  <1> HIDE DEF after
  <1>4. after[0] = s /\ \A n \in Nat : after[n + 1] = F[after[n]]
    BY <1>2
  <1> DEFINE P == {n \in Nat : after[n] \in S}
  <1>5. P = Nat
    <2>1. 0 \in P /\ \A n \in P : n + 1 \in P
      BY <1>4
    <2> HIDE DEF P
    <2>2. P \subseteq Nat
      BY DEF P
    <2> QED
      BY <2>1, <2>2, Induction
  <1> QED
    BY <1>3, <1>4, <1>5

(* Total correctness of a loop: S is its invariant, and R, which is at     *)
(* most N, grows with every round that does something.  After N rounds the *)
(* invariant holds and nothing is left to do.                              *)
LEMMA RoundsEnd ==
  ASSUME NEW S, NEW F, \A t \in S : F[t] \in S, NEW s \in S,
         NEW N \in Nat, NEW R \in [S -> 0..N],
         \A t \in S : F[t] = t \/ R[F[t]] > R[t]
  PROVE  Rounds(F, s, N) \in S /\ F[Rounds(F, s, N)] = Rounds(F, s, N)
  <1> DEFINE at(n) == Rounds(F, s, n)
             P == {n \in Nat : F[at(n)] = at(n) \/ R[at(n)] >= n}
  <1>1. at(0) = s /\ \A n \in Nat : at(n) \in S /\ at(n + 1) = F[at(n)]
    BY RoundsStep
  <1> HIDE DEF at
  <1>2. 0 \in P
    BY <1>1
  <1>3. ASSUME NEW n \in P PROVE n + 1 \in P
    <2>1. n \in Nat /\ n + 1 \in Nat /\ at(n) \in S /\ at(n + 1) \in S
          /\ at(n + 1) = F[at(n)]
      BY <1>1
    <2>2. CASE F[at(n)] = at(n)
      BY <2>1, <2>2
    <2>3. CASE F[at(n)] # at(n)
      <3>1. R[at(n)] >= n /\ R[at(n + 1)] > R[at(n)]
        BY <2>1, <2>3
      <3>2. R[at(n)] \in 0..N /\ R[at(n + 1)] \in 0..N
        BY <2>1
      <3>3. R[at(n + 1)] >= n + 1
        BY <2>1, <3>1, <3>2
      <3> QED
        BY <2>1, <3>3
    <2> QED
      BY <2>2, <2>3
  <1>4. P = Nat
    <2> HIDE DEF P
    <2>1. P \subseteq Nat
      BY DEF P
    <2> QED
      BY <1>2, <1>3, <2>1, Induction
  <1>5. F[at(N)] = at(N) \/ R[at(N)] >= N
    BY <1>4
  <1>6. at(N) \in S /\ F[at(N)] \in S
    BY <1>1
  <1>7. R[at(N)] \in 0..N /\ R[F[at(N)]] \in 0..N
    BY <1>6
  <1>8. F[at(N)] = at(N) \/ R[F[at(N)]] > R[at(N)]
    BY <1>6
  <1>9. F[at(N)] = at(N)
    BY <1>5, <1>7, <1>8
  <1> QED
    BY <1>6, <1>9 DEF at

-----------------------------------------------------------------------------
(* The search: what is noted is there *)

(* No pixel of the last row is white: the search does not read what lies   *)
(* behind the picture.                                                     *)
Low(im) == \A r, c \in Int : <<r, c>> \in im.white => r < Size - 1

Rows == 0..(Size - 1)

(* How many columns there are from x on in direction d.                    *)
Limit(x, d) == IF d = 1 THEN Size - x ELSE x

(* The invariant of TopLine: every column passed has a white pixel, the    *)
(* last one in the row that was reached.                                   *)
OnEdge(im, y, x, d) ==
  {s \in Nat \X Nat :
     /\ s[1] \in 1..Size /\ s[2] < s[1]
     /\ s[1] = 1 \/ s[1] <= Limit(x, d)
     /\ Low(im) =>
          /\ y + s[2] < Size - 1
          /\ \E e \in Rows : <<y + s[2], e>> \in im.white
          /\ \A k \in 0..(s[1] - 1) : \E r \in Rows : <<r, x + d * k>> \in im.white}

(* An edge pixel in the picture is white.                                  *)
LEMMA EdgeIsWhite ==
  ASSUME NEW im, NEW row \in Rows, NEW column, IsEdge(im, row, column)
  PROVE  <<row, column>> \in im.white
  BY SearchAssumption DEF IsEdge, IsWhite, Rows

(* A round of TopLine keeps its invariant, and goes on or is the last.     *)
LEMMA TopStepSound ==
  ASSUME NEW im, NEW y \in 1..(Size - 1), NEW x \in Rows, NEW d \in {1, -1},
         NEW s \in OnEdge(im, y, x, d)
  PROVE  LET t == TopStep(im, y, x, d)[s]
         IN  t \in OnEdge(im, y, x, d) /\ (t = s \/ t[1] = s[1] + 1)
  <1> DEFINE i == s[1]
             j == s[2]
             t == TopStep(im, y, x, d)[s]
  <1>0. /\ Size \in Nat /\ x \in Int /\ y \in Int /\ i \in Nat /\ j \in Nat
        /\ s = <<i, j>> /\ d \in Int /\ d * i \in Int
    BY SearchAssumption DEF OnEdge, Rows
  <1>1. t = IF i >= Limit(x, d) THEN s
            ELSE IF IsEdge(im, y + j, x + d * i) THEN <<i + 1, j>>
            ELSE IF IsEdge(im, y + j + 1, x + d * i) THEN <<i + 1, j + 1>>
            ELSE s
    <2>1. s \in Nat \X Nat
      BY DEF OnEdge
    <2> QED
      BY <2>1 DEF TopStep, Limit
  <1> HIDE DEF t
  <1>2. CASE t = s
    BY <1>2 DEF t
  <1>3. ASSUME i < Limit(x, d), NEW q \in {j, j + 1},
               IsEdge(im, y + q, x + d * i), t = <<i + 1, q>>
        PROVE  t \in OnEdge(im, y, x, d)
    <2>1. i + 1 \in 1..Size /\ i + 1 <= Limit(x, d) /\ q \in Nat /\ q < i + 1
      BY <1>0, <1>3 DEF OnEdge, Limit, Rows
    <2>2. x + d * i \in Rows
      <3>1. CASE d = 1
        BY <1>0, <1>3, <3>1 DEF Limit, Rows
      <3>2. CASE d = -1
        BY <1>0, <1>3, <3>2 DEF Limit, Rows
      <3> QED
        BY <3>1, <3>2
    <2>3. ASSUME Low(im)
          PROVE  /\ y + q < Size - 1
                 /\ <<y + q, x + d * i>> \in im.white
      <3>1. y + j < Size - 1
        BY <2>3 DEF OnEdge
      <3>2. y + q \in Rows
        BY <1>0, <1>3, <3>1 DEF Rows
      <3>3. <<y + q, x + d * i>> \in im.white
        BY <1>3, <3>2, EdgeIsWhite
      <3>4. y + q \in Int /\ x + d * i \in Int
        BY <1>0, <2>1
      <3> QED
        BY <2>3, <3>3, <3>4 DEF Low
    <2>4. ASSUME Low(im), NEW k \in 0..((i + 1) - 1)
          PROVE  \E r \in Rows : <<r, x + d * k>> \in im.white
      <3>1. CASE k = i
        <4>1. y + q \in Rows
          BY <1>0, <2>1, <2>3, <2>4 DEF Rows
        <4> QED
          BY <2>3, <2>4, <3>1, <4>1
      <3>2. CASE k # i
        <4>1. k \in 0..(i - 1)
          BY <1>0, <2>4, <3>2
        <4> QED
          BY <2>4, <4>1 DEF OnEdge
      <3> QED
        BY <3>1, <3>2
    <2>5. ASSUME Low(im)
          PROVE  \E e \in Rows : <<y + q, e>> \in im.white
      BY <2>2, <2>3, <2>5
    <2>6. t \in Nat \X Nat /\ t[1] = i + 1 /\ t[2] = q
      BY <1>0, <1>3, <2>1
    <2> QED
      BY <2>1, <2>3, <2>4, <2>5, <2>6 DEF OnEdge
  <1> QED
    BY <1>0, <1>1, <1>2, <1>3 DEF Limit, t

(* An upper edge is as long as TopLine says.                               *)
LEMMA TopLineSound ==
  ASSUME NEW im, NEW y \in 1..(Size - 1), NEW x \in Rows, NEW d \in {1, -1},
         IsEdge(im, y, x)
  PROVE  TopLine(im, y, x, d) \in OnEdge(im, y, x, d)
  <1> DEFINE S == OnEdge(im, y, x, d)
             F == TopStep(im, y, x, d)
  <1>1. <<1, 0>> \in S
    <2>1. Size \in Nat /\ y \in Rows /\ x \in Int /\ y \in Int
      BY SearchAssumption DEF Rows
    <2>2. <<y, x>> \in im.white
      BY <2>1, EdgeIsWhite
    <2>3. x + d * 0 = x /\ 1 \in 1..Size
      BY <2>1
    <2>4. Low(im) => y < Size - 1
      BY <2>1, <2>2 DEF Low
    <2>5. \A k \in 0..(1 - 1) : k = 0
      OBVIOUS
    <2> QED
      BY <2>1, <2>2, <2>3, <2>4, <2>5 DEF OnEdge
  <1>2. \A s \in S : F[s] \in S
    BY TopStepSound
  <1> HIDE DEF S, F
  <1>3. Size \in Nat
    BY SearchAssumption
  <1>4. Rounds(F, <<1, 0>>, Size) \in S
    BY <1>1, <1>2, <1>3, RoundsStep
  <1> QED
    BY <1>4 DEF TopLine, S, F

(* The invariant of SideLine: every row passed is white.                   *)
DownSide(im, row, column, limit) ==
  {i \in 1..limit :
     Low(im) /\ row < Size - 1 => \A k \in 1..(i - 1) : <<row + k, column>> \in im.white}

(* A side is as long as SideLine says, and ends there.                     *)
LEMMA SideLineSound ==
  ASSUME NEW im, NEW row \in Nat, NEW column \in Int, NEW limit \in Nat \ {0}
  PROVE  LET dy == SideLine(im, row, column, limit)
         IN  /\ dy \in DownSide(im, row, column, limit)
             /\ ~(dy < limit /\ IsWhite(im, row + dy, column))
  <1> DEFINE S == DownSide(im, row, column, limit)
             F == SideStep(im, row, column, limit)
             R == [i \in S |-> i]
  <1>0. Size \in Nat
    BY SearchAssumption
  <1>1. 1 \in S
    BY DEF DownSide
  <1>2. ASSUME NEW i \in S
        PROVE  /\ i \in 1..limit /\ i \in Nat
               /\ F[i] = IF i < limit /\ IsWhite(im, row + i, column) THEN i + 1 ELSE i
    BY DEF DownSide, SideStep
  <1> HIDE DEF F
  <1>3. ASSUME NEW i \in S PROVE F[i] \in S
    <2>1. CASE i < limit /\ IsWhite(im, row + i, column)
      <3>1. F[i] = i + 1 /\ i + 1 \in 1..limit
        BY <1>2, <2>1
      <3>2. ASSUME Low(im), row < Size - 1, NEW k \in 1..i
            PROVE  <<row + k, column>> \in im.white
        <4>1. CASE k = i
          <5>1. row + i <= Size - 1
            <6>1. CASE i = 1
              BY <1>0, <3>2, <6>1
            <6>2. CASE i # 1
              <7>1. i - 1 \in 1..(i - 1)
                BY <1>2, <6>2
              <7>2. <<row + (i - 1), column>> \in im.white
                BY <3>2, <7>1 DEF DownSide
              <7>3. row + (i - 1) < Size - 1
                BY <1>2, <3>2, <7>2 DEF Low
              <7> QED
                BY <1>0, <1>2, <7>3
            <6> QED
              BY <6>1, <6>2
          <5> QED
            BY <1>0, <1>2, <2>1, <4>1, <5>1 DEF IsWhite
        <4>2. CASE k # i
          <5>1. k \in 1..(i - 1)
            BY <1>2, <3>2, <4>2
          <5> QED
            BY <3>2, <5>1 DEF DownSide
        <4> QED
          BY <4>1, <4>2
      <3>3. (i + 1) - 1 = i
        BY <1>2
      <3> QED
        BY <3>1, <3>2, <3>3 DEF DownSide
    <2>2. CASE ~(i < limit /\ IsWhite(im, row + i, column))
      BY <1>2, <2>2
    <2> QED
      BY <2>1, <2>2
  <1>4. R \in [S -> 0..limit]
    BY <1>2
  <1>5. \A i \in S : F[i] = i \/ R[F[i]] > R[i]
    BY <1>2, <1>3
  <1> HIDE DEF S, R
  <1>6. Rounds(F, 1, limit) \in S /\ F[Rounds(F, 1, limit)] = Rounds(F, 1, limit)
    BY <1>1, <1>3, <1>4, <1>5, RoundsEnd
  <1>7. SideLine(im, row, column, limit) = Rounds(F, 1, limit)
    BY DEF SideLine, F
  <1> DEFINE dy == SideLine(im, row, column, limit)
  <1>8. dy \in S /\ F[dy] = dy
    BY <1>6, <1>7
  <1> HIDE DEF dy
  <1>9. ~(dy < limit /\ IsWhite(im, row + dy, column))
    BY <1>2, <1>8
  <1> QED
    BY <1>8, <1>9 DEF S, dy

(* The edge from (y, x) in direction d and the side at its end.            *)
EdgeAt(im, y, x, d) == TopLine(im, y, x, d)[1]
DropAt(im, y, x, d) == TopLine(im, y, x, d)[2]
SideAt(im, y, x, d) ==
  SideLine(im, y + DropAt(im, y, x, d),
           x + d * (EdgeAt(im, y, x, d) - Stepback),
           Size - y + DropAt(im, y, x, d))

NoteAt(im, y, x, d) ==
  Corners(y, x, d, EdgeAt(im, y, x, d), DropAt(im, y, x, d), SideAt(im, y, x, d))

(* A note is made of an edge that is long enough and a side that is.       *)
Drawn(im, n) ==
  \E y \in 1..(Size - 1), x \in Rows, d \in {1, -1} :
    /\ IsEdge(im, y, x) /\ EdgeAt(im, y, x, d) > MinL /\ SideAt(im, y, x, d) > MinL
    /\ n = NoteAt(im, y, x, d)

(* What is noted of a code that is there: an edge of more than MinL        *)
(* columns, each with a white pixel, and a side of as many rows.           *)
Direction(n) == IF n.f THEN -1 ELSE 1

Sound(im) ==
  {n \in Notes :
     /\ n.x0 \in Rows /\ n.x1 \in 0..Size /\ n.dx \in (MinL + 1)..Size
     /\ n.x1 = n.x0 + Direction(n) * n.dx
     /\ Drawn(im, n)
     /\ Low(im) =>
          /\ \A k \in 0..(n.dx - 1) :
               \E r \in Rows : <<r, n.x0 + Direction(n) * k>> \in im.white
          /\ \E r, c, e \in Rows :
               <<r, e>> \in im.white /\ \A k \in 1..MinL : <<r + k, c>> \in im.white}

SoundLists(im) == {l \in Seq(Sound(im)) : Len(l) <= MaxCodes}

Covered(l, y, x) == \E n \in 1..Len(l) : Covers(l[n], y, x)

(* The numbers of an edge and its side.                                    *)
LEMMA EdgeNumbers ==
  ASSUME NEW im, NEW y \in 1..(Size - 1), NEW x \in Rows, NEW d \in {1, -1},
         IsEdge(im, y, x)
  PROVE  /\ EdgeAt(im, y, x, d) \in 1..Size /\ DropAt(im, y, x, d) \in Nat
         /\ EdgeAt(im, y, x, d) = 1 \/ EdgeAt(im, y, x, d) <= Limit(x, d)
         /\ x + d * (EdgeAt(im, y, x, d) - Stepback) \in Int
         /\ y + DropAt(im, y, x, d) \in Nat
         /\ Size - y + DropAt(im, y, x, d) \in Nat \ {0}
         /\ SideAt(im, y, x, d) \in Nat \ {0}
  <1> DEFINE dx == EdgeAt(im, y, x, d)
             j == DropAt(im, y, x, d)
  <1>0. /\ Size \in Nat /\ Stepback \in Int /\ x \in Int /\ y \in Int /\ d \in Int
    BY SearchAssumption DEF Rows
  <1>1. TopLine(im, y, x, d) \in OnEdge(im, y, x, d)
    BY TopLineSound
  <1>2. dx \in 1..Size /\ j \in Nat /\ (dx = 1 \/ dx <= Limit(x, d))
    BY <1>1 DEF OnEdge, EdgeAt, DropAt
  <1> HIDE DEF dx, j
  <1>3. /\ x + d * (dx - Stepback) \in Int
        /\ y + j \in Nat /\ Size - y + j \in Nat \ {0}
    <2>1. dx - Stepback \in Int
      BY <1>0, <1>2
    <2>2. d * (dx - Stepback) \in Int
      BY <1>0, <2>1
    <2> QED
      BY <1>0, <1>2, <2>2
  <1>4. SideLine(im, y + j, x + d * (dx - Stepback), Size - y + j)
          \in DownSide(im, y + j, x + d * (dx - Stepback), Size - y + j)
    BY <1>3, SideLineSound
  <1>5. SideAt(im, y, x, d)
          \in DownSide(im, y + j, x + d * (dx - Stepback), Size - y + j)
    BY <1>4 DEF SideAt, dx, j
  <1>6. SideAt(im, y, x, d) \in Nat \ {0}
    BY <1>3, <1>5 DEF DownSide
  <1> QED
    BY <1>2, <1>3, <1>6 DEF dx, j

(* What is noted is there.                                                 *)
LEMMA NoteIsSound ==
  ASSUME NEW im, NEW y \in 1..(Size - 1), NEW x \in Rows, NEW d \in {1, -1},
         IsEdge(im, y, x), EdgeAt(im, y, x, d) > MinL, SideAt(im, y, x, d) > MinL
  PROVE  NoteAt(im, y, x, d) \in Sound(im)
  <1> DEFINE dx == EdgeAt(im, y, x, d)
             j == DropAt(im, y, x, d)
             dy == SideAt(im, y, x, d)
             c == x + d * (dx - Stepback)
             n == NoteAt(im, y, x, d)
  <1>0. /\ Size \in Nat /\ Stepback \in 1..MinL /\ MinL \in Nat \ {0}
        /\ x \in 0..(Size - 1) /\ x \in Int /\ y \in Int
    BY SearchAssumption DEF Rows
  <1>1. /\ dx \in 1..Size /\ j \in Nat /\ (dx = 1 \/ dx <= Limit(x, d))
        /\ c \in Int /\ y + j \in Nat /\ Size - y + j \in Nat \ {0}
        /\ dy \in Nat \ {0}
    BY EdgeNumbers
  <1>2. dx > MinL /\ dy > MinL
    OBVIOUS
  <1>3. dx \in (MinL + 1)..Size /\ dx <= Limit(x, d)
    BY <1>0, <1>1, <1>2
  <1>4. TopLine(im, y, x, d) \in OnEdge(im, y, x, d)
    BY TopLineSound
  <1>5. dy \in DownSide(im, y + j, c, Size - y + j)
    BY <1>1, SideLineSound DEF SideAt
  <1>6. n = [f |-> d = -1, x0 |-> x, y0 |-> y, x1 |-> x + d * dx,
             y3 |-> y + 2 * j + dy, dx |-> dx]
    BY DEF NoteAt, Corners
  <1>7. Low(im) =>
          /\ y + j < Size - 1
          /\ \E e \in Rows : <<y + j, e>> \in im.white
          /\ \A k \in 0..(dx - 1) : \E r \in Rows : <<r, x + d * k>> \in im.white
    BY <1>4 DEF OnEdge, EdgeAt, DropAt
  <1>8. Low(im) /\ y + j < Size - 1 =>
          \A k \in 1..(dy - 1) : <<y + j + k, c>> \in im.white
    BY <1>5 DEF DownSide
  <1>drawn. Drawn(im, n)
    BY DEF Drawn
  <1> HIDE DEF dx, j, dy, n
  <1>9. c \in Rows /\ x + d * dx \in 0..Size
    <2>1. CASE d = 1
      BY <1>0, <1>1, <1>3, <2>1 DEF Limit, Rows
    <2>2. CASE d = -1
      BY <1>0, <1>1, <1>3, <2>2 DEF Limit, Rows
    <2> QED
      BY <2>1, <2>2
  <1>10. n \in Notes
    BY <1>0, <1>1, <1>6, <1>9 DEF Notes
  <1>11. Direction(n) = d
    BY <1>6 DEF Direction
  <1>12. Low(im) =>
           \E r, cc, e \in Rows :
             <<r, e>> \in im.white /\ \A k \in 1..MinL : <<r + k, cc>> \in im.white
    <2> SUFFICES ASSUME Low(im)
                 PROVE  \E r, cc, e \in Rows :
                          /\ <<r, e>> \in im.white
                          /\ \A k \in 1..MinL : <<r + k, cc>> \in im.white
      OBVIOUS
    <2>1. y + j \in Rows
      BY <1>0, <1>1, <1>7 DEF Rows
    <2>2. \A k \in 1..MinL : k \in 1..(dy - 1)
      BY <1>0, <1>1, <1>2
    <2>3. PICK e \in Rows : <<y + j, e>> \in im.white
      BY <1>7
    <2>4. \A k \in 1..MinL : <<(y + j) + k, c>> \in im.white
      BY <1>7, <1>8, <2>2
    <2> HIDE DEF c
    <2> QED
      BY <1>9, <2>1, <2>3, <2>4
  <1>13. n.x0 = x /\ n.x1 = x + d * dx /\ n.dx = dx
    BY <1>6
  <1>14. x \in Rows
    OBVIOUS
  <1> HIDE <1>6 DEF c
  <1>15. n \in Sound(im)
    BY <1>3, <1>7, <1>9, <1>10, <1>11, <1>12, <1>13, <1>14, <1>drawn DEF Sound
  <1> QED
    BY <1>15 DEF n

(* A round of the scan, without its local definitions.                     *)
Moved(im, y, d, x, l) ==
  IF x \notin Rows THEN <<x, l>>
  ELSE IF Covered(l, y, x) \/ ~IsEdge(im, y, x) THEN <<x + d, l>>
  ELSE IF EdgeAt(im, y, x, d) <= MinL
       THEN <<x + d * (EdgeAt(im, y, x, d) + 1), l>>
  ELSE <<x + d * ((IF d = 1 THEN SideAt(im, y, x, d)
                            ELSE EdgeAt(im, y, x, d)) + 1),
         IF SideAt(im, y, x, d) > MinL /\ Len(l) < MaxCodes
         THEN Append(l, NoteAt(im, y, x, d)) ELSE l>>

(* What a round of the scan does.                                          *)
LEMMA ScanStepIs ==
  ASSUME NEW im, NEW y, NEW d, NEW x \in Int, NEW l \in Seq(Notes)
  PROVE  ScanStep(im, d, y)[<<x, l>>] = Moved(im, y, d, x, l)
  <1>1. <<x, l>> \in Int \X Seq(Notes) /\ <<x, l>>[1] = x /\ <<x, l>>[2] = l
    OBVIOUS
  <1> QED
    BY <1>1 DEF ScanStep, Moved, Rows, Covered, EdgeAt, DropAt, SideAt, NoteAt

(* Sound notes are notes.                                                  *)
LEMMA SoundListsAreNotes ==
  ASSUME NEW im PROVE SoundLists(im) \subseteq Seq(Notes)
  <1>1. Sound(im) \subseteq Notes
    BY DEF Sound
  <1>2. \A l \in Seq(Sound(im)) : l \in Seq(Notes)
    BY <1>1
  <1> QED
    BY <1>2 DEF SoundLists

(* What it may do: move on, and note one code that is there.               *)
MovesOn(im, d, x, l, t) ==
  /\ t \in Int \X SoundLists(im)
  /\ x \notin Rows => t = <<x, l>>
  /\ x \in Rows => IF d = 1 THEN t[1] > x ELSE t[1] < x
  /\ t[2] = l \/ \E n \in Sound(im) : t[2] = Append(l, n)

(* So does every round, and it keeps the notes sound.                      *)
LEMMA ScanStepSound ==
  ASSUME NEW im, NEW y \in 1..(Size - 1), NEW d \in {1, -1},
         NEW x \in Int, NEW l \in SoundLists(im)
  PROVE  MovesOn(im, d, x, l, ScanStep(im, d, y)[<<x, l>>])
  <1> DEFINE dx == EdgeAt(im, y, x, d)
             dy == SideAt(im, y, x, d)
             n == NoteAt(im, y, x, d)
             t == ScanStep(im, d, y)[<<x, l>>]
  <1>0. l \in Seq(Notes) /\ Len(l) <= MaxCodes /\ MaxCodes \in Nat
        /\ l \in Seq(Sound(im)) /\ Size \in Nat /\ MinL \in Nat
    BY SearchAssumption, SoundListsAreNotes DEF SoundLists
  <1>1. t = IF x \notin Rows THEN <<x, l>>
            ELSE IF Covered(l, y, x) \/ ~IsEdge(im, y, x) THEN <<x + d, l>>
            ELSE IF dx <= MinL THEN <<x + d * (dx + 1), l>>
            ELSE <<x + d * ((IF d = 1 THEN dy ELSE dx) + 1),
                   IF dy > MinL /\ Len(l) < MaxCodes THEN Append(l, n) ELSE l>>
    <2>1. t = Moved(im, y, d, x, l)
      BY <1>0, ScanStepIs
    <2> HIDE DEF t
    <2> QED
      BY <2>1 DEF Moved
  <1> HIDE DEF t
  <1>2. CASE x \notin Rows
    BY <1>1, <1>2 DEF t, MovesOn
  <1>3. CASE x \in Rows /\ (Covered(l, y, x) \/ ~IsEdge(im, y, x))
    <2>1. t = <<x + d, l>>
      BY <1>1, <1>3
    <2> QED
      BY <1>3, <2>1 DEF t, MovesOn
  <1>4. CASE x \in Rows /\ ~Covered(l, y, x) /\ IsEdge(im, y, x)
    <2>1. dx \in 1..Size /\ dy \in Nat \ {0}
      BY <1>4, EdgeNumbers
    <2>2. ASSUME dx > MinL, dy > MinL, Len(l) < MaxCodes
          PROVE  n \in Sound(im) /\ Append(l, n) \in SoundLists(im)
      <3>1. n \in Sound(im)
        BY <1>4, <2>2, NoteIsSound
      <3> HIDE DEF n
      <3>2. Append(l, n) \in Seq(Sound(im)) /\ Len(Append(l, n)) = Len(l) + 1
        BY <1>0, <3>1
      <3>3. Len(Append(l, n)) <= MaxCodes
        BY <1>0, <2>2, <3>2
      <3> QED
        BY <3>1, <3>2, <3>3 DEF SoundLists
    <2> HIDE DEF dx, dy, n
    <2>3. /\ x + d * (dx + 1) \in Int
          /\ x + d * ((IF d = 1 THEN dy ELSE dx) + 1) \in Int
          /\ IF d = 1 THEN x + d * (dx + 1) > x ELSE x + d * (dx + 1) < x
          /\ IF d = 1 THEN x + d * ((IF d = 1 THEN dy ELSE dx) + 1) > x
                      ELSE x + d * ((IF d = 1 THEN dy ELSE dx) + 1) < x
      <3>1. CASE d = 1
        BY <2>1, <3>1
      <3>2. CASE d = -1
        BY <2>1, <3>2
      <3> QED
        BY <3>1, <3>2
    <2>4. CASE dx <= MinL
      <3>1. t = <<x + d * (dx + 1), l>>
        BY <1>1, <1>4, <2>4
      <3> QED
        BY <1>4, <2>3, <3>1 DEF t, MovesOn
    <2>5. CASE ~(dx <= MinL)
      <3> DEFINE z == x + d * ((IF d = 1 THEN dy ELSE dx) + 1)
      <3>0. dx > MinL
        BY <1>0, <2>1, <2>5
      <3>1. t = <<z, IF dy > MinL /\ Len(l) < MaxCodes THEN Append(l, n) ELSE l>>
        BY <1>1, <1>4, <2>5
      <3>2. z \in Int /\ (IF d = 1 THEN z > x ELSE z < x)
        BY <2>3
      <3> HIDE DEF z
      <3>3. CASE dy > MinL /\ Len(l) < MaxCodes
        <4>1. n \in Sound(im) /\ Append(l, n) \in SoundLists(im)
          BY <2>2, <3>0, <3>3
        <4> DEFINE m == Append(l, n)
        <4>2. t = <<z, m>>
          BY <3>1, <3>3
        <4>3. m \in SoundLists(im) /\ \E nn \in Sound(im) : m = Append(l, nn)
          BY <4>1
        <4> HIDE DEF m
        <4>4. t \in Int \X SoundLists(im) /\ t[1] = z /\ t[2] = m
          BY <3>2, <4>2, <4>3
        <4>5. MovesOn(im, d, x, l, t)
          BY <1>4, <3>2, <4>3, <4>4 DEF MovesOn
        <4> QED
          BY <4>5 DEF t
      <3>4. CASE ~(dy > MinL /\ Len(l) < MaxCodes)
        BY <1>4, <3>1, <3>2, <3>4 DEF t, MovesOn
      <3> QED
        BY <3>3, <3>4
    <2> QED
      BY <2>4, <2>5
  <1> QED
    BY <1>2, <1>3, <1>4

(* How far the scan of a row has got.                                      *)
Passed(x, d) == IF x \notin Rows THEN Size ELSE IF d = 1 THEN x ELSE Size - 1 - x

Start(d) == IF d = 1 THEN 0 ELSE Size - 1

(* The scan of a row keeps what each of its rounds keeps, and ends outside *)
(* of the picture.                                                         *)
LEMMA ScanRowKeeps ==
  ASSUME NEW im, NEW y \in 1..(Size - 1), NEW d \in {1, -1}, NEW l \in SoundLists(im),
         NEW S, S \subseteq Int \X SoundLists(im), <<Start(d), l>> \in S,
         \A s \in S : ScanStep(im, d, y)[s] \in S
  PROVE  \E x \in Int \ Rows : <<x, ScanRow(im, d, y, l)>> \in S
  <1> DEFINE F == ScanStep(im, d, y)
             R == [s \in S |-> Passed(s[1], d)]
             out == Rounds(F, <<Start(d), l>>, Size)
  <1>0. Size \in Nat
    BY SearchAssumption
  <1>1. \A s \in S : s[1] \in Int /\ s[2] \in SoundLists(im) /\ s = <<s[1], s[2]>>
    OBVIOUS
  <1>2. R \in [S -> 0..Size]
    BY <1>0, <1>1 DEF Passed, Rows
  <1>3. ASSUME NEW s \in S
        PROVE  /\ s[1] \notin Rows => F[s] = s
               /\ s[1] \in Rows => IF d = 1 THEN F[s][1] > s[1] ELSE F[s][1] < s[1]
    <2>1. s[1] \in Int /\ s[2] \in SoundLists(im) /\ s = <<s[1], s[2]>>
      BY <1>1
    <2> HIDE DEF F
    <2>2. MovesOn(im, d, s[1], s[2], F[<<s[1], s[2]>>])
      BY <2>1, ScanStepSound DEF F
    <2> QED
      BY <2>1, <2>2 DEF MovesOn
  <1>4. \A s \in S : F[s] \in S
    OBVIOUS
  <1> HIDE DEF F
  <1>5. \A s \in S : F[s] = s \/ R[F[s]] > R[s]
    <2> SUFFICES ASSUME NEW s \in S, s[1] \in Rows PROVE R[F[s]] > R[s]
      BY <1>3
    <2>1. s[1] \in Int /\ F[s][1] \in Int
      BY <1>1, <1>4
    <2>2. IF d = 1 THEN F[s][1] > s[1] ELSE F[s][1] < s[1]
      BY <1>3
    <2>3. R[s] = Passed(s[1], d) /\ R[F[s]] = Passed(F[s][1], d)
      BY <1>4
    <2> QED
      BY <1>0, <2>1, <2>2, <2>3 DEF Passed, Rows
  <1> HIDE DEF R
  <1>6. out \in S /\ F[out] = out
    BY <1>0, <1>2, <1>4, <1>5, RoundsEnd
  <1>7. ScanRow(im, d, y, l) = out[2]
    BY DEF ScanRow, Start, F
  <1> HIDE DEF out
  <1>8. out[1] \in Int \ Rows
    BY <1>1, <1>3, <1>6
  <1>9. out = <<out[1], ScanRow(im, d, y, l)>>
    BY <1>1, <1>6, <1>7
  <1> QED
    BY <1>6, <1>8, <1>9

(* The scan of a row starts and ends with sound notes.                     *)
LEMMA ScanRowSound ==
  ASSUME NEW im, NEW y \in 1..(Size - 1), NEW d \in {1, -1}, NEW l \in SoundLists(im)
  PROVE  ScanRow(im, d, y, l) \in SoundLists(im)
  <1> DEFINE S == Int \X SoundLists(im)
  <1>1. <<Start(d), l>> \in S
    BY SearchAssumption DEF Start
  <1>2. ASSUME NEW s \in S PROVE ScanStep(im, d, y)[s] \in S
    <2>1. s[1] \in Int /\ s[2] \in SoundLists(im) /\ s = <<s[1], s[2]>>
      OBVIOUS
    <2>2. MovesOn(im, d, s[1], s[2], ScanStep(im, d, y)[<<s[1], s[2]>>])
      BY <2>1, ScanStepSound
    <2>3. MovesOn(im, d, s[1], s[2], ScanStep(im, d, y)[s])
      BY <2>1, <2>2
    <2> QED
      BY <2>3 DEF MovesOn
  <1>3. PICK x \in Int \ Rows : <<x, ScanRow(im, d, y, l)>> \in S
    <2> HIDE DEF S
    <2>1. S \subseteq Int \X SoundLists(im)
      BY DEF S
    <2> QED
      BY <1>1, <1>2, <2>1, ScanRowKeeps
  <1> QED
    BY <1>3

(* S is kept by the scan of each row.                                      *)
RowsKeep(im, d, S) ==
  /\ S \subseteq (1..Size) \X Seq(Notes)
  /\ \A y \in 1..(Size - 1), m \in Seq(Notes) :
       <<y, m>> \in S => <<y + 1, ScanRow(im, d, y, m)>> \in S

(* The scan of a picture keeps what the scan of each row keeps, and ends   *)
(* after the last row.                                                     *)
LEMMA ScanPictureKeeps ==
  ASSUME NEW im, NEW d \in {1, -1}, NEW l,
         NEW S, RowsKeep(im, d, S), <<1, l>> \in S
  PROVE  <<Size, ScanPicture(im, d, l)>> \in S
  <1> DEFINE F == RowStep(im, d)
             R == [s \in S |-> s[1]]
             out == Rounds(F, <<1, l>>, Size)
  <1>0. Size \in Nat \ {0}
    BY SearchAssumption
  <1>1. \A s \in S : /\ s[1] \in 1..Size /\ s[2] \in Seq(Notes) /\ s = <<s[1], s[2]>>
                     /\ s \in Nat \X Seq(Notes)
    BY <1>0 DEF RowsKeep
  <1>2. R \in [S -> 0..Size]
    BY <1>0, <1>1
  <1>3. \A s \in S : F[s] = IF s[1] < Size
                            THEN <<s[1] + 1, ScanRow(im, d, s[1], s[2])>> ELSE s
    BY <1>1 DEF RowStep
  <1> HIDE DEF F
  <1>4. ASSUME NEW s \in S
        PROVE  F[s] \in S /\ (s[1] = Size \/ F[s][1] = s[1] + 1) /\ (s[1] = Size => F[s] = s)
    <2>1. CASE s[1] < Size
      <3>0. s[1] \in 1..Size /\ s[2] \in Seq(Notes) /\ s = <<s[1], s[2]>>
        BY <1>1
      <3>1. s[1] \in 1..(Size - 1) /\ <<s[1], s[2]>> \in S /\ s[2] \in Seq(Notes)
        <4>1. s[1] \in 1..(Size - 1)
          BY <1>0, <2>1, <3>0
        <4> QED
          BY <3>0, <4>1, Zenon
      <3>2. <<s[1] + 1, ScanRow(im, d, s[1], s[2])>> \in S
        <4>1. \A y \in 1..(Size - 1), m \in Seq(Notes) :
                <<y, m>> \in S => <<y + 1, ScanRow(im, d, y, m)>> \in S
          BY DEF RowsKeep
        <4> QED
          BY <3>1, <4>1, Zenon
      <3>3. F[s] = <<s[1] + 1, ScanRow(im, d, s[1], s[2])>>
        BY <1>3, <2>1
      <3>4. F[s] \in S /\ F[s][1] = s[1] + 1
        BY <3>2, <3>3
      <3> QED
        BY <1>0, <2>1, <3>1, <3>4
    <2>2. CASE ~(s[1] < Size)
      <3>1. F[s] = s
        BY <1>3, <2>2
      <3>2. s[1] = Size
        BY <1>0, <1>1, <2>2
      <3> QED
        BY <3>1, <3>2
    <2> QED
      BY <2>1, <2>2
  <1>5. \A s \in S : F[s] = s \/ R[F[s]] > R[s]
    BY <1>1, <1>4
  <1> HIDE DEF R
  <1>6. out \in S /\ F[out] = out
    <2> DEFINE start == <<1, l>>
    <2>1. start \in S /\ Size \in Nat /\ \A s \in S : F[s] \in S
      BY <1>0, <1>4
    <2> HIDE DEF start
    <2>2. /\ Rounds(F, start, Size) \in S
          /\ F[Rounds(F, start, Size)] = Rounds(F, start, Size)
      BY <2>1, <1>2, <1>5, RoundsEnd
    <2> QED
      BY <2>2 DEF start
  <1>7. ScanPicture(im, d, l) = out[2]
    BY DEF ScanPicture, F
  <1> HIDE DEF out
  <1>8. out[1] = Size
    BY <1>0, <1>1, <1>4, <1>6
  <1> QED
    BY <1>1, <1>6, <1>7, <1>8

(* What the search notes is there.                                         *)
LEMMA ScanPictureSound ==
  ASSUME NEW im, NEW d \in {1, -1}, NEW l \in SoundLists(im)
  PROVE  ScanPicture(im, d, l) \in SoundLists(im)
  <1> DEFINE S == (1..Size) \X SoundLists(im)
  <1>0. Size \in Nat \ {0}
    BY SearchAssumption
  <1>1. S \subseteq (1..Size) \X Seq(Notes) /\ <<1, l>> \in S
    BY <1>0, SoundListsAreNotes
  <1>2. ASSUME NEW y \in 1..(Size - 1), NEW m \in Seq(Notes), <<y, m>> \in S
        PROVE  <<y + 1, ScanRow(im, d, y, m)>> \in S
    <2>1. m \in SoundLists(im) /\ y + 1 \in 1..Size
      BY <1>0, <1>2
    <2>2. ScanRow(im, d, y, m) \in SoundLists(im)
      BY <2>1, ScanRowSound
    <2> QED
      BY <2>1, <2>2
  <1>3. RowsKeep(im, d, S)
    BY <1>1, <1>2 DEF RowsKeep
  <1>4. <<Size, ScanPicture(im, d, l)>> \in S
    <2> HIDE DEF S
    <2> QED
      BY <1>1, <1>3, ScanPictureKeeps
  <1> QED
    BY <1>4

(* Every note the search makes in a picture is sound.                      *)
LEMMA SearchSound ==
  ASSUME NEW im PROVE Search(im, << >>) \in SoundLists(im)
  <1>1. << >> \in SoundLists(im)
    BY SearchAssumption DEF SoundLists
  <1>2. ScanPicture(im, 1, << >>) \in SoundLists(im)
    BY <1>1, ScanPictureSound
  <1> QED
    BY <1>2, ScanPictureSound DEF Search

(* The report is of the first of the widest notes.                         *)
LEMMA WidestIs ==
  ASSUME NEW im, NEW l \in SoundLists(im), l # << >>
  PROVE  \E n \in 1..Len(l) :
           /\ Widest(l, NULL) = l[n]
           /\ \A m \in 1..Len(l) : l[m].dx <= l[n].dx
           /\ \A m \in 1..(n - 1) : l[m].dx < l[n].dx
  <1> DEFINE T == {n \in 1..Len(l) : \A m \in 1..Len(l) : l[m].dx <= l[n].dx}
             U == {u \in 0..Size : \E m \in 1..Len(l) : u = Size - l[m].dx}
  <1>0. Size \in Nat /\ MinL \in Nat /\ Len(l) \in Nat \ {0}
        /\ \A m \in 1..Len(l) : l[m] \in Sound(im)
    BY SearchAssumption DEF SoundLists
  <1>1. \A m \in 1..Len(l) : l[m].dx \in 0..Size
    BY <1>0 DEF Sound
  <1>2. U \subseteq Nat /\ U # {}
    <2>1. Size - l[1].dx \in U
      BY <1>0, <1>1
    <2> QED
      BY <1>0, <2>1
  <1>3. PICK u \in U : \A v \in U : u <= v
    BY <1>2, LeastNumber
  <1>4. PICK w \in 1..Len(l) : u = Size - l[w].dx
    OBVIOUS
  <1>5. ASSUME NEW m \in 1..Len(l) PROVE l[m].dx <= l[w].dx
    <2>1. Size - l[m].dx \in U
      BY <1>0, <1>1
    <2>2. u <= Size - l[m].dx
      BY <1>3, <2>1
    <2> QED
      BY <1>0, <1>1, <1>4, <2>2
  <1>6. T \subseteq Nat /\ T # {}
    BY <1>0, <1>5
  <1>7. PICK n \in T : \A m \in T : n <= m
    BY <1>6, LeastNumber
  <1>8. ASSUME NEW m \in 1..(n - 1) PROVE l[m].dx < l[n].dx
    <2>1. m \in 1..Len(l) /\ m < n /\ n \in 1..Len(l)
      BY <1>0, <1>7
    <2>2. m \notin T
      BY <1>6, <1>7, <2>1
    <2>3. PICK k \in 1..Len(l) : ~(l[k].dx <= l[m].dx)
      BY <2>1, <2>2
    <2>4. l[k].dx <= l[n].dx
      BY <1>7
    <2> QED
      BY <1>0, <1>1, <2>1, <2>3, <2>4
  <1>9. \E q \in 1..Len(l) : /\ \A m \in 1..Len(l) : l[m].dx <= l[q].dx
                             /\ \A m \in 1..(q - 1) : l[m].dx < l[q].dx
    BY <1>7, <1>8
  <1> QED
    BY <1>9 DEF Widest

-----------------------------------------------------------------------------
(* What is reported of the codes noted *)

ReportOf(l) ==
  IF Widest(l, NULL) = NULL THEN Nothing
  ELSE [x |-> (Widest(l, NULL).x1 + Widest(l, NULL).x0) \div 2,
        width |-> Width(Widest(l, NULL))]

(* Without a note, 500 is sent (QR_Posing.c:329-336).                      *)
LEMMA NothingNoted == ReportOf(<< >>) = Nothing
  BY DEF ReportOf, Widest

(* The report is of the first of the widest notes.                         *)
LEMMA WidestReported ==
  ASSUME NEW im, NEW l \in SoundLists(im), l # << >>
  PROVE  \E n \in 1..Len(l) :
           /\ l[n] \in Sound(im)
           /\ \A m \in 1..Len(l) : l[m].dx <= l[n].dx
           /\ \A m \in 1..(n - 1) : l[m].dx < l[n].dx
           /\ ReportOf(l) = [x |-> (l[n].x1 + l[n].x0) \div 2, width |-> l[n].dx]
  <1>1. PICK n \in 1..Len(l) : /\ Widest(l, NULL) = l[n]
                               /\ \A m \in 1..Len(l) : l[m].dx <= l[n].dx
                               /\ \A m \in 1..(n - 1) : l[m].dx < l[n].dx
    BY WidestIs
  <1>2. l[n] \in Sound(im)
    BY DEF SoundLists
  <1>3. l[n] # NULL
    BY <1>2, PipelineAssumption DEF Sound
  <1>4. Width(l[n]) = l[n].dx
    <2>1. /\ l[n].x0 \in Int /\ l[n].dx \in Int /\ l[n].f \in BOOLEAN
          /\ l[n].x1 = l[n].x0 + Direction(l[n]) * l[n].dx
      BY <1>2 DEF Sound, Notes
    <2> QED
      BY <2>1 DEF Width, Direction
  <1>5. ReportOf(l) = [x |-> (l[n].x1 + l[n].x0) \div 2, width |-> l[n].dx]
    BY <1>1, <1>3, <1>4 DEF ReportOf
  <1> QED
    BY <1>1, <1>2, <1>5

(* A report is of the picture's columns, or of nothing.                    *)
LEMMA ReportType ==
  ASSUME NEW im, NEW l \in SoundLists(im)
  PROVE  ReportOf(l) \in [x : 0..Size, width : 0..Size] \union {Nothing}
  <1>1. CASE l = << >>
    BY <1>1, NothingNoted
  <1>2. CASE l # << >>
    <2>1. PICK n \in 1..Len(l) :
            /\ l[n] \in Sound(im)
            /\ ReportOf(l) = [x |-> (l[n].x1 + l[n].x0) \div 2, width |-> l[n].dx]
      BY <1>2, WidestReported
    <2>2. l[n].x1 \in 0..Size /\ l[n].x0 \in 0..Size /\ l[n].dx \in 0..Size /\ Size \in Nat
      BY <2>1, SearchAssumption DEF Sound, Rows
    <2>3. (l[n].x1 + l[n].x0) \div 2 \in 0..Size
      BY <2>2
    <2> QED
      BY <2>1, <2>2, <2>3
  <1> QED
    BY <1>1, <1>2

-----------------------------------------------------------------------------
(* The queues of frames *)

(* What is put into a queue is in it, behind the others.                   *)
LEMMA AppendElements ==
  ASSUME NEW S, NEW q \in Seq(S), NEW e \in S, IsInjective(q), e \notin Range(q)
  PROVE  /\ Append(q, e) \in Seq(S) /\ Len(Append(q, e)) = Len(q) + 1
         /\ Range(Append(q, e)) = Range(q) \union {e}
         /\ IsInjective(Append(q, e))
  <1>1. /\ Append(q, e) \in Seq(S)
        /\ Len(Append(q, e)) = Len(q) + 1
        /\ DOMAIN Append(q, e) = 1..(Len(q) + 1)
        /\ DOMAIN q = 1..Len(q)
        /\ Append(q, e)[Len(q) + 1] = e
        /\ \A i \in 1..Len(q) : Append(q, e)[i] = q[i]
        /\ Len(q) \in Nat
    OBVIOUS
  <1>2. Range(Append(q, e)) = Range(q) \union {e}
    BY <1>1 DEF Range
  <1>3. IsInjective(Append(q, e))
    BY <1>1 DEF Range, IsInjective
  <1> QED
    BY <1>1, <1>2, <1>3

(* What is received from a queue is its head, and only that is gone.       *)
LEMMA TailElements ==
  ASSUME NEW S, NEW q \in Seq(S), q # << >>, IsInjective(q)
  PROVE  /\ Tail(q) \in Seq(S) /\ Len(Tail(q)) = Len(q) - 1
         /\ Head(q) \in S /\ Head(q) \in Range(q)
         /\ Range(Tail(q)) = Range(q) \ {Head(q)}
         /\ IsInjective(Tail(q))
  <1>1. /\ Tail(q) \in Seq(S)
        /\ Len(q) \in Nat \ {0}
        /\ Len(Tail(q)) = Len(q) - 1
        /\ DOMAIN Tail(q) = 1..(Len(q) - 1)
        /\ DOMAIN q = 1..Len(q)
        /\ Head(q) = q[1]
        /\ Head(q) \in S
        /\ \A i \in 1..(Len(q) - 1) : Tail(q)[i] = q[i + 1]
    OBVIOUS
  <1>2. \A i, j \in 1..Len(q) : q[i] = q[j] => i = j
    BY <1>1 DEF IsInjective
  <1>3. Head(q) \in Range(q)
    BY <1>1 DEF Range
  <1>4. ASSUME NEW e \in Range(Tail(q)) PROVE e \in Range(q) /\ e # Head(q)
    <2>1. PICK i \in 1..(Len(q) - 1) : e = Tail(q)[i]
      BY <1>1 DEF Range
    <2>2. i + 1 \in 1..Len(q) /\ i + 1 # 1 /\ 1 \in 1..Len(q) /\ e = q[i + 1]
      BY <2>1, <1>1
    <2> QED
      BY <2>2, <1>1, <1>2 DEF Range
  <1>5. ASSUME NEW e \in Range(q), e # Head(q) PROVE e \in Range(Tail(q))
    <2>1. PICK i \in 1..Len(q) : e = q[i]
      BY <1>1 DEF Range
    <2>2. i - 1 \in 1..(Len(q) - 1) /\ Tail(q)[i - 1] = e
      BY <2>1, <1>5, <1>1
    <2> QED
      BY <2>2, <1>1 DEF Range
  <1>6. IsInjective(Tail(q))
    BY <1>1, <1>2 DEF IsInjective
  <1> QED
    BY <1>1, <1>3, <1>4, <1>5, <1>6

(* A queue without duplicates is as long as the set of what is in it.      *)
LEMMA QueueCardinality ==
  ASSUME NEW S, NEW q \in Seq(S), IsInjective(q)
  PROVE  IsFiniteSet(Range(q)) /\ Cardinality(Range(q)) = Len(q)
  <1>1. Len(q) \in Nat /\ DOMAIN q = 1..Len(q) /\ q = [i \in 1..Len(q) |-> q[i]]
    OBVIOUS
  <1>2. q \in Bijection(1..Len(q), Range(q))
    BY <1>1 DEF Bijection, Injection, Surjection, IsInjective, Range
  <1>3. ExistsBijection(1..Len(q), Range(q))
    BY <1>2 DEF ExistsBijection
  <1> QED
    BY <1>1, <1>3, FS_CountingElements, FS_NatBijection

-----------------------------------------------------------------------------
(* The invariant *)

(* The states of the pose task in which it has a frame.                    *)
Busy == {"convert", "search", "report", "return"}

(* A frame that was taken is in the queue or with one task, and no frame   *)
(* is in two places.                                                       *)
Custody ==
  /\ ready \in Seq(Frames) /\ IsInjective(ready)
  /\ Range(ready) \intersect taken = {}
  /\ IsInjective(camQueue)
  /\ taken = Range(camQueue) \union ({fb, frame} \ {NULL})
  /\ fb \notin Range(camQueue) /\ frame \notin Range(camQueue)
  /\ fb = frame => fb = NULL
  /\ fb # NULL <=> cam = "send"
  /\ frame # NULL <=> pose \in Busy
  /\ boot = "camera" => cam = "off"
  /\ boot # "done" => pose = "off"

(* The black and white pictures that ConvertFrame makes of a picture.      *)
Converted(picture) ==
  {[white |-> Pixels(picture), around |-> cells] : cells \in Surroundings}

(* What the pose task has worked out is of the picture in its frame.       *)
Fresh ==
  /\ pose \in {"convert", "search"} => l1 = << >>
  /\ pose = "search" => bw \in Converted(pictures[frame])
  /\ pose \in {"report", "return"} =>
       \E im \in Converted(pictures[frame]) : l1 = Search(im, << >>)
  /\ pose = "return" => report = ReportOf(l1)

IInv == TypeOK /\ Custody /\ Fresh

(* The initial states satisfy the invariant.                               *)
LEMMA InitInvariant == Init => IInv
  <1> SUFFICES ASSUME Init PROVE IInv
    OBVIOUS
  <1>1. TypeOK
    BY SearchAssumption, PipelineAssumption DEF Init, Driver!Init, TypeOK, Labels
  <1>2. Custody
    <2>1. Range(<< >>) = {} /\ IsInjective(<< >>)
      BY DEF Range, IsInjective
    <2> QED
      BY <2>1, PipelineAssumption DEF Init, Driver!Init, Custody, Busy
  <1>3. Fresh
    BY DEF Init, Fresh
  <1> QED
    BY <1>1, <1>2, <1>3 DEF IInv

(* The frames stay accounted for: a step moves at most one of them, from   *)
(* one place to another.                                                   *)
LEMMA CustodyStep ==
  ASSUME IInv, [Next]_vars
  PROVE  Custody'
  <1> USE DEF IInv, TypeOK, Custody, Busy
  <1>0. NULL \notin Frames
    BY PipelineAssumption
  <1>1. CASE RegisterCamera
    BY <1>1 DEF RegisterCamera, source, poser
  <1>2. CASE RegisterLcd
    BY <1>2 DEF RegisterLcd, source, camera, poser
  <1>3. CASE RecordPicture
    BY <1>3 DEF RecordPicture, Driver!Record, camera, poser
  <1>4. CASE EndRecording
    BY <1>4 DEF EndRecording, Driver!Stop, camera, poser
  <1>5. CASE DeliverFrame
    <2>1. PICK f \in Frames : Driver!Deliver(f)
      BY <1>5 DEF DeliverFrame
    <2>2. f \notin Range(ready) /\ f \notin taken /\ ready' = Append(ready, f)
          /\ UNCHANGED <<taken, boot, camera, pose, frame>>
      BY <1>5, <2>1 DEF DeliverFrame, Driver!Deliver, Driver!Own, Driver!Range, Range, poser
    <2>3. /\ ready' \in Seq(Frames) /\ IsInjective(ready')
          /\ Range(ready') = Range(ready) \union {f}
      BY <2>2, AppendElements
    <2> QED
      BY <2>2, <2>3 DEF camera
  <1>6. CASE DiscardFrame
    <2>1. ready # << >> /\ ready' = Tail(ready) /\ UNCHANGED <<taken, boot, camera, pose, frame>>
      BY <1>6 DEF DiscardFrame, Driver!Discard, poser
    <2>2. /\ ready' \in Seq(Frames) /\ IsInjective(ready')
          /\ Range(ready') = Range(ready) \ {Head(ready)}
      BY <2>1, TailElements
    <2> QED
      BY <2>1, <2>2 DEF camera
  <1>7. CASE GetFrame
    <2>1. /\ cam = "get" /\ ready # << >> /\ ready' = Tail(ready)
          /\ taken' = taken \union {Head(ready)} /\ fb' = Head(ready) /\ cam' = "send"
          /\ UNCHANGED <<boot, camQueue, pose, frame>>
      BY <1>7 DEF GetFrame, Driver!Take, poser
    <2>2. /\ ready' \in Seq(Frames) /\ IsInjective(ready')
          /\ Head(ready) \in Frames /\ Head(ready) \in Range(ready)
          /\ Range(ready') = Range(ready) \ {Head(ready)}
      BY <2>1, TailElements
    <2> QED
      BY <1>0, <2>1, <2>2
  <1>8. CASE SendFrame
    <2>1. /\ cam = "send" /\ fb # NULL /\ fb \in Frames /\ camQueue' = Append(camQueue, fb)
          /\ fb' = NULL /\ cam' = "get" /\ UNCHANGED <<ready, taken, boot, pose, frame>>
      BY <1>8 DEF SendFrame, source, poser
    <2>2. IsInjective(camQueue') /\ Range(camQueue') = Range(camQueue) \union {fb}
      BY <2>1, AppendElements
    <2>3. \A i \in DOMAIN camQueue : camQueue[i] \in Frames
      OBVIOUS
    <2>4. NULL \notin Range(camQueue')
      BY <1>0, <2>1, <2>2, <2>3 DEF Range
    <2> QED
      BY <1>0, <2>1, <2>2, <2>4
  <1>9. CASE ReceiveFrame
    <2>1. /\ pose = "receive" /\ camQueue # << >> /\ frame' = Head(camQueue)
          /\ camQueue' = Tail(camQueue) /\ pose' = "convert"
          /\ UNCHANGED <<ready, taken, boot, cam, fb>> /\ frame = NULL
      BY <1>9 DEF ReceiveFrame, source
    <2>2. /\ IsInjective(camQueue') /\ Range(camQueue') = Range(camQueue) \ {Head(camQueue)}
          /\ Head(camQueue) \in Frames /\ Head(camQueue) \in Range(camQueue)
      BY <2>1, TailElements
    <2>3. \A i \in DOMAIN camQueue : camQueue[i] \in Frames
      OBVIOUS
    <2>4. NULL \notin Range(camQueue')
      BY <1>0, <2>2, <2>3 DEF Range
    <2> QED
      BY <1>0, <2>1, <2>2, <2>4
  <1>10. CASE ConvertFrame
    BY <1>10 DEF ConvertFrame, source, camera
  <1>11. CASE SearchFrame
    BY <1>11 DEF SearchFrame, source, camera
  <1>12. CASE ReportBest
    BY <1>12 DEF ReportBest, source, camera
  <1>13. CASE ReturnFrame
    <2>1. /\ pose = "return" /\ frame # NULL /\ taken' = taken \ {frame} /\ frame' = NULL
          /\ pose' = "receive" /\ UNCHANGED <<ready, boot, cam, fb, camQueue>>
      BY <1>13 DEF ReturnFrame, Driver!Give, camera
    <2>2. NULL \notin Range(camQueue)
      BY <1>0 DEF Range
    <2> QED
      BY <2>1, <2>2
  <1>14. CASE UNCHANGED vars
    BY <1>14 DEF vars, source, camera, poser
  <1> QED
    BY <1>1, <1>2, <1>3, <1>4, <1>5, <1>6, <1>7, <1>8, <1>9, <1>10, <1>11, <1>12, <1>13, <1>14
       DEF Next, CameraTask, PoseTask

(* The picture in the frame of a busy pose task does not change.           *)
LEMMA PictureKept ==
  ASSUME IInv, [Next]_vars, pose \in Busy, frame' = frame
  PROVE  pictures'[frame] = pictures[frame]
  <1>1. frame \in taken
    BY DEF IInv, Custody
  <1>2. CASE RecordPicture
    <2>1. PICK f \in Frames : /\ Driver!Record(f)
                              /\ \E p \in Pictures : pictures' = [pictures EXCEPT ![f] = p]
      BY <1>2 DEF RecordPicture
    <2>2. f # frame
      BY <1>1, <2>1 DEF Driver!Record, Driver!Own
    <2> QED
      BY <2>1, <2>2 DEF IInv, TypeOK
  <1>3. CASE ~RecordPicture
    BY <1>3 DEF Next, CameraTask, PoseTask, RegisterCamera, RegisterLcd, EndRecording,
         DeliverFrame, DiscardFrame, GetFrame, SendFrame, ReceiveFrame, ConvertFrame,
         SearchFrame, ReportBest, ReturnFrame, source, vars
  <1> QED
    BY <1>2, <1>3

(* What the pose task has worked out stays about its frame.                *)
LEMMA FreshStep ==
  ASSUME IInv, [Next]_vars
  PROVE  Fresh'
  <1> USE DEF IInv, Fresh, Busy
  <1>1. CASE UNCHANGED <<pose, frame, bw, l1, report>>
    <2>1. pose \in Busy => pictures'[frame] = pictures[frame]
      BY <1>1, PictureKept
    <2> QED
      BY <1>1, <2>1
  <1>2. CASE RegisterLcd
    BY <1>2 DEF RegisterLcd
  <1>3. CASE ReceiveFrame
    BY <1>3 DEF ReceiveFrame
  <1>4. CASE ConvertFrame
    BY <1>4 DEF ConvertFrame, Converted, source
  <1>5. CASE SearchFrame
    BY <1>5 DEF SearchFrame, source
  <1>6. CASE ReportBest
    BY <1>6 DEF ReportBest, Send, ReportOf, source
  <1>7. CASE ReturnFrame
    BY <1>7 DEF ReturnFrame
  <1> QED
    BY <1>1, <1>2, <1>3, <1>4, <1>5, <1>6, <1>7
       DEF Next, CameraTask, PoseTask, RegisterCamera, RecordPicture, EndRecording,
           DeliverFrame, DiscardFrame, GetFrame, SendFrame, poser, vars

(* The variables keep their types.                                         *)
LEMMA TypeStep ==
  ASSUME IInv, [Next]_vars
  PROVE  TypeOK'
  <1> USE DEF IInv, TypeOK
  <1>1. CASE RegisterCamera
    BY <1>1 DEF RegisterCamera, source, poser
  <1>2. CASE RegisterLcd
    BY <1>2 DEF RegisterLcd, source, camera, poser, Labels
  <1>3. CASE RecordPicture
    BY <1>3 DEF RecordPicture, Driver!Record, camera, poser
  <1>4. CASE EndRecording
    BY <1>4 DEF EndRecording, Driver!Stop, camera, poser
  <1>5. CASE DeliverFrame
    BY <1>5 DEF DeliverFrame, Driver!Deliver, camera, poser
  <1>6. CASE DiscardFrame
    BY <1>6 DEF DiscardFrame, Driver!Discard, camera, poser
  <1>7. CASE GetFrame
    BY <1>7 DEF GetFrame, Driver!Take, poser, Custody
  <1>8. CASE SendFrame
    <2>1. fb \in Frames
      BY <1>8 DEF SendFrame, Custody
    <2>2. camQueue' \in Seq(Frames) /\ Len(camQueue') <= CamQueueLen
      BY <1>8, <2>1, PipelineAssumption DEF SendFrame
    <2> QED
      BY <1>8, <2>2 DEF SendFrame, source, poser
  <1>9. CASE ReceiveFrame
    <2>1. Head(camQueue) \in Frames /\ Tail(camQueue) \in Seq(Frames)
          /\ Len(Tail(camQueue)) <= CamQueueLen
      BY <1>9, PipelineAssumption DEF ReceiveFrame
    <2>2. << >> \in Seq(Notes) /\ Len(<< >>) <= MaxCodes
      BY SearchAssumption
    <2> QED
      BY <1>9, <2>1, <2>2 DEF ReceiveFrame, source, Labels
  <1>10. CASE ConvertFrame
    BY <1>10 DEF ConvertFrame, source, camera, Labels
  <1>11. CASE SearchFrame
    <2>1. l1' = Search(bw, << >>)
      BY <1>11 DEF SearchFrame, Fresh
    <2>2. l1' \in SoundLists(bw)
      BY <2>1, SearchSound
    <2>3. l1' \in Seq(Notes) /\ Len(l1') <= MaxCodes
      BY <2>2, SoundListsAreNotes DEF SoundLists
    <2> QED
      BY <1>11, <2>3 DEF SearchFrame, source, camera, Labels
  <1>12. CASE ReportBest
    <2>1. PICK im : l1 = Search(im, << >>)
      BY <1>12 DEF ReportBest, Fresh
    <2>2. l1 \in SoundLists(im)
      BY <2>1, SearchSound
    <2>3. report' = ReportOf(l1)
      BY <1>12 DEF ReportBest, Send, ReportOf
    <2>4. report' \in [x : 0..Size, width : 0..Size] \union {Nothing, NULL}
      BY <2>2, <2>3, ReportType
    <2> QED
      BY <1>12, <2>4 DEF ReportBest, source, camera, Labels
  <1>13. CASE ReturnFrame
    BY <1>13 DEF ReturnFrame, Driver!Give, camera, Labels
  <1>14. CASE UNCHANGED vars
    BY <1>14 DEF vars, source, camera, poser
  <1> QED
    BY <1>1, <1>2, <1>3, <1>4, <1>5, <1>6, <1>7, <1>8, <1>9, <1>10, <1>11, <1>12, <1>13, <1>14
       DEF Next, CameraTask, PoseTask

(* The pipeline's invariant: every frame in one place, and what the pose   *)
(* task works out is about the picture in its frame.                       *)
THEOREM PipelineInvariant == Spec => []IInv
  <1>1. IInv /\ [Next]_vars => IInv'
    <2> SUFFICES ASSUME IInv, [Next]_vars PROVE IInv'
      OBVIOUS
    <2>1. TypeOK' /\ Custody' /\ Fresh'
      BY TypeStep, CustodyStep, FreshStep
    <2> QED
      BY <2>1 DEF IInv
  <1> QED
    BY <1>1, InitInvariant, PTL DEF Spec

(* The variables of both tasks hold what they should: frames in the queue  *)
(* (who_camera.c:15), notes within l1, and a report of the picture's       *)
(* columns (QR_Posing.c:329-336).                                          *)
THEOREM PipelineTypeCorrect == Spec => []TypeOK
  <1>1. IInv => TypeOK
    BY DEF IInv
  <1> QED
    BY <1>1, PipelineInvariant, PTL

(* However many frames there are and whatever the driver does: a frame     *)
(* that esp_camera_fb_get handed out is with one task or once in the       *)
(* queue, until esp_camera_fb_return.                                      *)
THEOREM FramesStayAccounted == Spec => []FramesAccounted
  <1>1. IInv => FramesAccounted
    <2> SUFFICES ASSUME IInv PROVE FramesAccounted
      OBVIOUS
    <2> USE DEF IInv, TypeOK, Custody
    <2>1. Len(camQueue) \in Nat /\ DOMAIN camQueue = 1..Len(camQueue)
      OBVIOUS
    <2>2. InQueue = Range(camQueue)
      BY <2>1 DEF InQueue, Range
    <2>3. IsFiniteSet(Range(camQueue)) /\ Cardinality(Range(camQueue)) = Len(camQueue)
      BY QueueCardinality
    <2> DEFINE Q == Range(camQueue)
               A == IF fb = NULL THEN Q ELSE Q \union {fb}
               B == IF frame = NULL THEN A ELSE A \union {frame}
    <2>4. taken = B
      BY DEF Custody
    <2> HIDE DEF Q
    <2>5. IsFiniteSet(A) /\ Cardinality(A) = Len(camQueue) + (IF fb = NULL THEN 0 ELSE 1)
      <3>1. CASE fb = NULL
        BY <2>1, <2>3, <3>1 DEF Q
      <3>2. CASE fb # NULL
        <4>1. fb \notin Q
          BY DEF Q
        <4> QED
          BY <2>3, <3>2, <4>1, FS_AddElement DEF Q
      <3> QED
        BY <3>1, <3>2
    <2>6. frame # NULL => frame \notin A
      BY DEF Q
    <2> HIDE DEF A
    <2>7. Cardinality(B) = Cardinality(A) + (IF frame = NULL THEN 0 ELSE 1)
      <3>1. CASE frame = NULL
        BY <2>1, <2>5, <3>1
      <3>2. CASE frame # NULL
        BY <2>5, <2>6, <3>2, FS_AddElement
      <3> QED
        BY <3>1, <3>2
    <2>8. taken = InQueue \union ({fb, frame} \ {NULL})
      BY <2>2
    <2> HIDE DEF B
    <2> QED
      BY <2>1, <2>4, <2>5, <2>7, <2>8 DEF FramesAccounted
  <1> QED
    BY <1>1, PipelineInvariant, PTL

(* The white pixels of a picture are pixels of codes.                      *)
LEMMA WhitePixels ==
  ASSUME NEW picture \in Pictures, NEW r, NEW c, <<r, c>> \in Pixels(picture)
  PROVE  \E code \in picture : \E k \in 0..(code.w - 1), q \in 0..(code.h - 1) :
           r = code.top + q + Lowering(code, k) /\ c = code.left + k
  BY DEF Pixels, Lowering

(* In a picture none of whose codes reaches the last row, the search does  *)
(* not read what lies behind it.                                           *)
LEMMA LowPicture ==
  ASSUME NEW picture \in Pictures, NEW im \in Converted(picture),
         \A code \in picture : code.top + code.h + code.drop * code.drop < Size
  PROVE  Low(im)
  <1> SUFFICES ASSUME NEW r \in Int, NEW c \in Int, <<r, c>> \in im.white
               PROVE  r < Size - 1
    BY DEF Low
  <1>1. <<r, c>> \in Pixels(picture)
    BY DEF Converted
  <1>2. PICK code \in picture : \E k \in 0..(code.w - 1), q \in 0..(code.h - 1) :
          r = code.top + q + Lowering(code, k) /\ c = code.left + k
    BY <1>1, WhitePixels
  <1>3. PICK k \in 0..(code.w - 1), q \in 0..(code.h - 1) :
          r = code.top + q + Lowering(code, k) /\ c = code.left + k
    BY <1>2
  <1>4. /\ code.top \in Nat /\ code.h \in Nat /\ code.w \in Nat /\ code.drop \in {-1, 0, 1}
        /\ Size \in Nat
    BY SearchAssumption, PipelineAssumption DEF Codes
  <1>5. Lowering(code, k) <= code.drop * code.drop /\ Lowering(code, k) \in 0..1
    BY <1>4 DEF Lowering, Lowered
  <1>6. code.drop * code.drop \in Nat
    BY <1>4
  <1>7. code.top + code.h + code.drop * code.drop < Size
    OBVIOUS
  <1> QED
    BY <1>3, <1>4, <1>5, <1>6, <1>7

(* What the pose task has to report, of the picture in its frame.          *)
LEMMA ReturnState ==
  ASSUME IInv, pose = "return"
  PROVE  /\ pictures[frame] \in Pictures
         /\ \E im \in Converted(pictures[frame]) :
              /\ l1 = Search(im, << >>) /\ l1 \in SoundLists(im) /\ report = ReportOf(l1)
  <1>1. frame \in Frames /\ pictures \in [Frames -> Pictures]
    BY DEF IInv, TypeOK, Custody, Busy
  <1>2. PICK im \in Converted(pictures[frame]) : l1 = Search(im, << >>)
    BY DEF IInv, Fresh
  <1>3. l1 \in SoundLists(im)
    BY <1>2, SearchSound
  <1>4. report = ReportOf(l1)
    BY DEF IInv, Fresh
  <1> QED
    BY <1>1, <1>2, <1>3, <1>4

(* Half of the width to the left of the middle of a note is its left end.  *)
LEMMA Halves ==
  ASSUME NEW x \in Int, NEW w \in Int
  PROVE  /\ ((x + w) + x) \div 2 - w \div 2 = x
         /\ ((x - w) + x) \div 2 - w \div 2 = x - w
  OBVIOUS

(* What is reported is in the picture (QR_Posing.c:82-336): for every      *)
(* picture whose codes end above its last row, as many columns with white  *)
(* pixels as are reported, and a side of more than MinL rows.              *)
THEOREM NothingInvented == Spec => []ReportIsVisible
  <1>1. IInv => ReportIsVisible
    <2> DEFINE first == report.x - report.width \div 2
               P == pictures[frame]
    <2> SUFFICES ASSUME IInv, pose = "return", report # Nothing,
                        \A code \in P : code.top + code.h + code.drop * code.drop < Size
                 PROVE  /\ report.width > MinL
                        /\ \E end \in {0, 1} :
                             \A c \in (first + end)..(first + end + report.width - 1) :
                               \E r \in 0..(Size - 1) : <<r, c>> \in Pixels(P)
                        /\ \E r, c, e \in 0..(Size - 1) :
                             /\ <<r, e>> \in Pixels(P)
                             /\ \A k \in 1..MinL : <<r + k, c>> \in Pixels(P)
      BY DEF ReportIsVisible, Below
    <2>1. PICK im \in Converted(P) : l1 \in SoundLists(im) /\ report = ReportOf(l1)
      BY ReturnState
    <2>2. P \in Pictures
      BY ReturnState
    <2> HIDE DEF P
    <2>3. Low(im) /\ im.white = Pixels(P)
      BY <2>2, LowPicture DEF Converted
    <2>4. PICK n \in 1..Len(l1) :
            /\ l1[n] \in Sound(im)
            /\ report = [x |-> (l1[n].x1 + l1[n].x0) \div 2, width |-> l1[n].dx]
      <3>1. l1 # << >>
        BY <2>1, NothingNoted
      <3> QED
        BY <2>1, <3>1, WidestReported
    <2> DEFINE note == l1[n]
    <2>5. note \in Sound(im)
      BY <2>4
    <2>6. report.x = (note.x1 + note.x0) \div 2 /\ report.width = note.dx
      BY <2>4
    <2> HIDE DEF note
    <2>7. /\ note \in Notes /\ note.x0 \in Rows /\ note.dx \in (MinL + 1)..Size
          /\ note.x1 = note.x0 + Direction(note) * note.dx
      BY <2>5 DEF Sound
    <2>8. \A k \in 0..(note.dx - 1) :
             \E r \in Rows : <<r, note.x0 + Direction(note) * k>> \in Pixels(P)
      BY <2>5, <2>3, Zenon DEF Sound
    <2>9. \E r, c, e \in Rows :
             <<r, e>> \in Pixels(P) /\ \A k \in 1..MinL : <<r + k, c>> \in Pixels(P)
      <3>1. \E r, c, e \in Rows :
              /\ <<r, e>> \in im.white
              /\ \A k \in 1..MinL : <<r + k, c>> \in im.white
        BY <2>5, <2>3 DEF Sound
      <3> QED
        BY <2>3, <3>1
    <2>10. /\ note.x0 \in Int /\ note.dx \in Nat /\ note.dx > MinL
           /\ Size \in Nat /\ MinL \in Nat
      <3>1. note.x0 \in Rows /\ note.dx \in (MinL + 1)..Size
        BY <2>7
      <3>2. Size \in Nat /\ MinL \in Nat
        BY SearchAssumption
      <3> QED
        BY <3>1, <3>2 DEF Rows
    <2>11. ASSUME ~note.f
          PROVE  \E end \in {0, 1} : \A c \in (first + end)..(first + end + report.width - 1) :
                                        \E r \in 0..(Size - 1) : <<r, c>> \in Pixels(P)
      <3>1. Direction(note) = 1
        BY <2>11 DEF Direction
      <3>2. first = note.x0
        <4>1. note.x1 = note.x0 + note.dx
          BY <2>7, <2>10, <3>1
        <4>2. ((note.x0 + note.dx) + note.x0) \div 2 - note.dx \div 2 = note.x0
          BY <2>10, Halves
        <4> QED
          BY <2>6, <4>1, <4>2, Zenon
      <3>3. ASSUME NEW c \in (first + 0)..(first + 0 + report.width - 1)
            PROVE  \E r \in 0..(Size - 1) : <<r, c>> \in Pixels(P)
        <4>1. c - note.x0 \in 0..(note.dx - 1) /\ note.x0 + 1 * (c - note.x0) = c
          BY <2>6, <2>10, <3>2, <3>3
        <4> QED
          BY <2>8, <3>1, <4>1 DEF Rows
      <3> QED
        BY <3>3, 0 \in {0, 1}, Zenon
    <2>12. ASSUME note.f
          PROVE  \E end \in {0, 1} : \A c \in (first + end)..(first + end + report.width - 1) :
                                        \E r \in 0..(Size - 1) : <<r, c>> \in Pixels(P)
      <3>1. Direction(note) = -1
        BY <2>12 DEF Direction
      <3>2. first = note.x0 - note.dx
        <4>1. note.x1 = note.x0 - note.dx
          <5>1. note.x1 = note.x0 + (-1) * note.dx
            BY <2>7, <3>1
          <5> QED
            BY <2>10, <5>1
        <4>2. ((note.x0 - note.dx) + note.x0) \div 2 - note.dx \div 2 = note.x0 - note.dx
          <5>1. note.dx \in Int
            BY <2>10
          <5> QED
            BY <2>10, <5>1, Halves, Zenon
        <4> QED
          BY <2>6, <4>1, <4>2, Zenon
      <3>3. ASSUME NEW c \in (first + 1)..(first + 1 + report.width - 1)
            PROVE  \E r \in 0..(Size - 1) : <<r, c>> \in Pixels(P)
        <4>1. note.x0 - c \in 0..(note.dx - 1) /\ note.x0 + (-1) * (note.x0 - c) = c
          BY <2>6, <2>10, <3>2, <3>3
        <4> QED
          BY <2>8, <3>1, <4>1 DEF Rows
      <3> QED
        BY <3>3, 1 \in {0, 1}, Zenon
    <2>13. \E end \in {0, 1} : \A c \in (first + end)..(first + end + report.width - 1) :
                                  \E r \in 0..(Size - 1) : <<r, c>> \in Pixels(P)
      BY <2>11, <2>12
    <2>14. report.width > MinL
      BY <2>6, <2>10
    <2> QED
      BY <2>13, <2>14, <2>9 DEF Rows
  <1> QED
    BY <1>1, PipelineInvariant, PTL

-----------------------------------------------------------------------------
(* The search: a code that is alone in the picture is found *)

(* The pixels of a code.                                                   *)
Within(code, r, c) ==
  /\ c - code.left \in 0..(code.w - 1)
  /\ r - code.top - Lowering(code, c - code.left) \in 0..(code.h - 1)

(* They are all there is to see in a picture of that code alone.           *)
LEMMA PixelsOfOne ==
  ASSUME NEW code \in Codes, NEW r \in Int, NEW c \in Int
  PROVE  <<r, c>> \in Pixels({code}) <=> Within(code, r, c)
  <1>0. /\ code.left \in Nat /\ code.top \in Nat /\ code.w \in Nat /\ code.h \in Nat
    BY DEF Codes
  <1>1. \A k : Lowering(code, k) \in {0, 1}
    BY DEF Lowering
  <1>2. <<r, c>> \in Pixels({code})
          <=> \E k \in 0..(code.w - 1), q \in 0..(code.h - 1) :
                r = code.top + q + Lowering(code, k) /\ c = code.left + k
    BY DEF Pixels, Lowering
  <1>3. ASSUME NEW k \in 0..(code.w - 1), NEW q \in 0..(code.h - 1),
               r = code.top + q + Lowering(code, k), c = code.left + k
        PROVE  Within(code, r, c)
    <2>1. c - code.left = k
      BY <1>0, <1>3
    <2>2. r - code.top - Lowering(code, k) = q
      BY <1>0, <1>1, <1>3
    <2> QED
      BY <2>1, <2>2 DEF Within
  <1>4. ASSUME Within(code, r, c)
        PROVE  \E k \in 0..(code.w - 1), q \in 0..(code.h - 1) :
                 r = code.top + q + Lowering(code, k) /\ c = code.left + k
    <2> DEFINE k == c - code.left
               q == r - code.top - Lowering(code, k)
    <2>1. k \in 0..(code.w - 1) /\ q \in 0..(code.h - 1)
      BY <1>4 DEF Within
    <2>2. c = code.left + k
      BY <1>0
    <2> HIDE DEF k
    <2>3. r = code.top + q + Lowering(code, k)
      BY <1>0, <1>1
    <2> HIDE DEF q
    <2> QED
      BY <2>1, <2>2, <2>3
  <1> QED
    BY <1>2, <1>3, <1>4

(* A code that is alone in a picture, away from its upper border and from  *)
(* its last row.                                                           *)
Alone(im, code) ==
  /\ code \in Codes
  /\ code.left + code.w <= Size
  /\ code.top >= TopMargin
  /\ code.top + code.h + code.drop * code.drop < Size
  /\ \A r, c \in Int : <<r, c>> \in im.white <=> Within(code, r, c)

(* It is large enough, and a row more.                                     *)
Big(code) == code.w > MinL /\ code.h > MinL + 1

(* The numbers of a code.                                                  *)
LEMMA CodeNumbers ==
  ASSUME NEW im, NEW code, Alone(im, code)
  PROVE  /\ code.left \in Nat /\ code.top \in Nat
         /\ code.w \in Nat \ {0} /\ code.h \in Nat \ {0} /\ code.drop \in {-1, 0, 1}
         /\ Size \in Nat /\ TopMargin \in Nat /\ MinL \in Nat \ {0} /\ Stepback \in 1..MinL
         /\ code.top >= TopMargin /\ TopMargin >= 2
         /\ code.left + code.w <= Size
         /\ \A k : /\ Lowering(code, k) \in {0, 1}
                   /\ code.top + code.h + Lowering(code, k) < Size
                   /\ code.drop = 0 => Lowering(code, k) = 0
  <1>1. /\ code.left \in Nat /\ code.top \in Nat
        /\ code.w \in Nat \ {0} /\ code.h \in Nat \ {0} /\ code.drop \in {-1, 0, 1}
        /\ Size \in Nat /\ TopMargin \in Nat /\ MinL \in Nat \ {0} /\ Stepback \in 1..MinL
        /\ code.top >= TopMargin /\ TopMargin >= 2
        /\ code.left + code.w <= Size
        /\ code.top + code.h + code.drop * code.drop < Size
    BY SearchAssumption DEF Alone, Codes
  <1>2. \A k : /\ Lowering(code, k) \in {0, 1}
               /\ code.drop = 0 => Lowering(code, k) = 0
    BY <1>1 DEF Lowering, Lowered
  <1>3. ASSUME NEW k PROVE code.top + code.h + Lowering(code, k) < Size
    <2>1. CASE code.drop = 0
      BY <1>1, <1>2, <2>1
    <2>2. CASE code.drop # 0
      <3>1. code.drop * code.drop = 1
        BY <1>1, <2>2
      <3> QED
        BY <1>1, <1>2, <3>1
    <2> QED
      BY <2>1, <2>2
  <1> QED
    BY <1>1, <1>2, <1>3

(* Which pixels of the picture are white, and which are on an edge.        *)
LEMMA EdgePixels ==
  ASSUME NEW im, NEW code, Alone(im, code), NEW row \in 0..(Size - 1), NEW column \in Int
  PROVE  LET k == column - code.left
         IN  /\ IsWhite(im, row, column) <=> Within(code, row, column)
             /\ k \notin 0..(code.w - 1) => ~IsEdge(im, row, column)
             /\ row < code.top + Lowering(code, k) => ~IsEdge(im, row, column)
             /\ Big(code) /\ k \in 0..(code.w - 1)
                /\ row - code.top - Lowering(code, k) \in {0, 1} => IsEdge(im, row, column)
  <1> DEFINE k == column - code.left
             u == Lowering(code, k)
  <1>0. /\ code.left \in Nat /\ code.top \in Nat
        /\ code.w \in Nat /\ code.h \in Nat /\ u \in {0, 1}
        /\ Size \in Nat /\ TopMargin \in Nat /\ MinL \in Nat \ {0}
        /\ code.top >= TopMargin /\ TopMargin >= 2 /\ row \in Int /\ k \in Int
    BY CodeNumbers
  <1>1. \A r \in 0..(Size - 1) : IsWhite(im, r, column) <=> Within(code, r, column)
    BY <1>0 DEF IsWhite, Alone
  <1>2. \A r : Within(code, r, column)
                 <=> k \in 0..(code.w - 1) /\ r - code.top - u \in 0..(code.h - 1)
    BY DEF Within
  <1> HIDE DEF k, u
  <1>3. k \notin 0..(code.w - 1) \/ row < code.top + u => ~IsEdge(im, row, column)
    BY <1>0, <1>1, <1>2 DEF IsEdge
  <1>4. ASSUME Big(code), k \in 0..(code.w - 1), row - code.top - u \in {0, 1}
        PROVE  IsEdge(im, row, column)
    <2>1. IsWhite(im, row, column)
      BY <1>0, <1>1, <1>2, <1>4 DEF Big
    <2>2. row - TopMargin \in 0..(Size - 1)
      BY <1>0, <1>4
    <2>3. ~(row - TopMargin - code.top - u \in 0..(code.h - 1))
      BY <1>0, <1>4
    <2>4. ~IsWhite(im, row - TopMargin, column)
      BY <1>1, <1>2, <2>2, <2>3
    <2> QED
      BY <2>1, <2>4 DEF IsEdge
  <1> QED
    BY <1>1, <1>3, <1>4 DEF k, u

(* A code that stands by itself in a picture: there is nothing else in the *)
(* columns next to it, nor in the rows above it that the search compares   *)
(* it with.                                                                *)
Stands(im, code) ==
  /\ code \in Codes
  /\ code.left + code.w <= Size
  /\ code.top >= TopMargin
  /\ Below(code) < Size
  /\ \A r \in (code.top - TopMargin)..Below(code),
        c \in (code.left - 1)..(code.left + code.w) :
       <<r, c>> \in im.white <=> Within(code, r, c)

(* A code that is alone stands by itself.                                  *)
LEMMA AloneStands ==
  ASSUME NEW im, NEW code, Alone(im, code)
  PROVE  Stands(im, code)
  <1>1. /\ code.left \in Nat /\ code.top \in Nat /\ code.w \in Nat /\ TopMargin \in Nat
        /\ code.h \in Nat /\ code.drop \in {-1, 0, 1}
    BY CodeNumbers
  <1>2. Below(code) \in Int
    BY <1>1 DEF Below
  <1>3. ASSUME NEW r \in (code.top - TopMargin)..Below(code),
               NEW c \in (code.left - 1)..(code.left + code.w)
        PROVE  <<r, c>> \in im.white <=> Within(code, r, c)
    <2>1. r \in Int /\ c \in Int
      BY <1>1, <1>2
    <2> QED
      BY <2>1 DEF Alone
  <1> QED
    BY <1>3 DEF Alone, Stands, Below

(* The numbers of such a code.                                             *)
LEMMA StandsNumbers ==
  ASSUME NEW im, NEW code, Stands(im, code)
  PROVE  /\ code.left \in Nat /\ code.top \in Nat
         /\ code.w \in Nat \ {0} /\ code.h \in Nat \ {0} /\ code.drop \in {-1, 0, 1}
         /\ Size \in Nat /\ TopMargin \in Nat /\ MinL \in Nat \ {0} /\ Stepback \in 1..MinL
         /\ code.top >= TopMargin /\ TopMargin >= 2
         /\ code.left + code.w <= Size
         /\ Below(code) \in Nat /\ Below(code) < Size
         /\ Below(code) = code.top + code.h \/ Below(code) = code.top + code.h + 1
         /\ code.drop = 0 => Below(code) = code.top + code.h
         /\ \A k : /\ Lowering(code, k) \in {0, 1}
                   /\ code.top + code.h + Lowering(code, k) <= Below(code)
                   /\ code.drop = 0 => Lowering(code, k) = 0
  <1>1. /\ code.left \in Nat /\ code.top \in Nat
        /\ code.w \in Nat \ {0} /\ code.h \in Nat \ {0} /\ code.drop \in {-1, 0, 1}
        /\ Size \in Nat /\ TopMargin \in Nat /\ MinL \in Nat \ {0} /\ Stepback \in 1..MinL
        /\ code.top >= TopMargin /\ TopMargin >= 2
        /\ code.left + code.w <= Size /\ Below(code) < Size
    BY SearchAssumption DEF Stands, Codes
  <1>2. \A k : /\ Lowering(code, k) \in {0, 1}
               /\ code.drop = 0 => Lowering(code, k) = 0
    BY <1>1 DEF Lowering, Lowered
  <1>3. CASE code.drop = 0
    <2>1. Below(code) = code.top + code.h
      BY <1>1, <1>3 DEF Below
    <2> QED
      BY <1>1, <1>2, <1>3, <2>1
  <1>4. CASE code.drop # 0
    <2>1. code.drop * code.drop = 1
      BY <1>1, <1>4
    <2>2. Below(code) = code.top + code.h + 1
      BY <2>1 DEF Below
    <2> QED
      BY <1>1, <1>2, <1>4, <2>2
  <1> QED
    BY <1>3, <1>4

(* Which pixels of such a code and next to it are white, and which are on  *)
(* an edge.                                                                *)
LEMMA NearEdges ==
  ASSUME NEW im, NEW code, Stands(im, code), NEW row \in code.top..Below(code),
         NEW column \in (code.left - 1)..(code.left + code.w)
  PROVE  LET k == column - code.left
         IN  /\ row \in 0..(Size - 1)
             /\ IsWhite(im, row, column) <=> Within(code, row, column)
             /\ IsEdge(im, row, column) <=>
                  /\ k \in 0..(code.w - 1)
                  /\ row - code.top - Lowering(code, k) \in 0..(code.h - 1)
                  /\ row - code.top - Lowering(code, k) < TopMargin
  <1> DEFINE k == column - code.left
             u == Lowering(code, k)
  <1>0. /\ code.left \in Nat /\ code.top \in Nat
        /\ code.w \in Nat /\ code.h \in Nat /\ u \in {0, 1}
        /\ Size \in Nat /\ TopMargin \in Nat /\ Below(code) \in Nat /\ Below(code) < Size
        /\ code.top >= TopMargin /\ TopMargin >= 2 /\ row \in Int /\ k \in Int
        /\ code.top + code.h + u <= Below(code)
    BY StandsNumbers
  <1>1. ASSUME NEW r \in (code.top - TopMargin)..Below(code)
        PROVE  IsWhite(im, r, column) <=> Within(code, r, column)
    <2>1. r \in 0..(Size - 1)
      BY <1>0
    <2>2. <<r, column>> \in im.white <=> Within(code, r, column)
      BY DEF Stands
    <2> QED
      BY <2>1, <2>2 DEF IsWhite
  <1>2. \A r : Within(code, r, column)
                 <=> k \in 0..(code.w - 1) /\ r - code.top - u \in 0..(code.h - 1)
    BY DEF Within
  <1> HIDE DEF k, u
  <1>3. /\ row \in (code.top - TopMargin)..Below(code)
        /\ row - TopMargin \in (code.top - TopMargin)..Below(code)
    BY <1>0
  <1>4. IsEdge(im, row, column) <=>
          /\ k \in 0..(code.w - 1)
          /\ row - code.top - u \in 0..(code.h - 1)
          /\ ~((row - TopMargin) - code.top - u \in 0..(code.h - 1))
    BY <1>1, <1>2, <1>3, Zenon DEF IsEdge
  <1>5. row - code.top - u \in 0..(code.h - 1) =>
          (~((row - TopMargin) - code.top - u \in 0..(code.h - 1))
             <=> row - code.top - u < TopMargin)
    BY <1>0
  <1>6. row \in 0..(Size - 1)
    BY <1>0
  <1> QED
    BY <1>1, <1>3, <1>4, <1>5, <1>6 DEF k, u

(* The way along an edge of n columns from (y, x) on to the right, g rows  *)
(* down when i columns have been passed.                                   *)
IsWay(im, y, x, n, g) ==
  /\ g \in [1..n -> Nat] /\ g[1] = 0
  /\ n <= Size - x
  /\ \A i \in 1..(n - 1) :
       \/ IsEdge(im, y + g[i], x + i) /\ g[i + 1] = g[i]
       \/ /\ ~IsEdge(im, y + g[i], x + i) /\ IsEdge(im, y + g[i] + 1, x + i)
          /\ g[i + 1] = g[i] + 1
  /\ n < Size - x => ~IsEdge(im, y + g[n], x + n) /\ ~IsEdge(im, y + g[n] + 1, x + n)

(* TopLine goes all of the way.                                            *)
LEMMA TopLineFollows ==
  ASSUME NEW im, NEW y \in Nat, NEW x \in Rows, NEW n \in Nat \ {0}, NEW g,
         IsWay(im, y, x, n, g)
  PROVE  TopLine(im, y, x, 1) = <<n, g[n]>>
  <1> DEFINE F == TopStep(im, y, x, 1)
             S == {<<i, g[i]>> : i \in 1..n}
             R == [s \in S |-> s[1]]
             out == Rounds(F, <<1, 0>>, Size)
  <1>0. Size \in Nat /\ n \in 1..Size /\ x \in Int /\ x >= 0
    BY SearchAssumption DEF IsWay, Rows
  <1>1. ASSUME NEW i \in 1..n
        PROVE  F[<<i, g[i]>>] = IF i = n THEN <<i, g[i]>> ELSE <<i + 1, g[i + 1]>>
    <2>1. /\ i \in Nat /\ g[i] \in Nat /\ x + 1 * i = x + i
          /\ n <= Size - x
      BY <1>0 DEF IsWay
    <2>2. F[<<i, g[i]>>] =
            IF i >= Size - x THEN <<i, g[i]>>
            ELSE IF IsEdge(im, y + g[i], x + 1 * i) THEN <<i + 1, g[i]>>
            ELSE IF IsEdge(im, y + g[i] + 1, x + 1 * i) THEN <<i + 1, g[i] + 1>>
            ELSE <<i, g[i]>>
      <3> DEFINE j == g[i]
      <3>1. <<i, j>> \in Nat \X Nat /\ <<i, j>>[1] = i /\ <<i, j>>[2] = j
        BY <2>1
      <3> HIDE DEF j
      <3>2. F[<<i, j>>] =
              IF i >= Size - x THEN <<i, j>>
              ELSE IF IsEdge(im, y + j, x + 1 * i) THEN <<i + 1, j>>
              ELSE IF IsEdge(im, y + j + 1, x + 1 * i) THEN <<i + 1, j + 1>>
              ELSE <<i, j>>
        BY <3>1 DEF TopStep
      <3> QED
        BY <3>2 DEF j
    <2> HIDE DEF F
    <2>3. CASE i = n
      <3>1. i < Size - x => ~IsEdge(im, y + g[i], x + i) /\ ~IsEdge(im, y + g[i] + 1, x + i)
        BY <2>3 DEF IsWay
      <3> QED
        BY <1>0, <2>1, <2>2, <2>3, <3>1
    <2>4. CASE i # n
      <3>1. i \in 1..(n - 1) /\ i < Size - x
        BY <1>0, <2>1, <2>4
      <3>2. \/ IsEdge(im, y + g[i], x + i) /\ g[i + 1] = g[i]
            \/ /\ ~IsEdge(im, y + g[i], x + i) /\ IsEdge(im, y + g[i] + 1, x + i)
               /\ g[i + 1] = g[i] + 1
        BY <3>1 DEF IsWay
      <3> QED
        BY <1>0, <2>1, <2>2, <2>4, <3>1, <3>2
    <2> QED
      BY <2>3, <2>4
  <1> HIDE DEF F
  <1>2. <<1, 0>> \in S
    BY <1>0 DEF IsWay
  <1>3. ASSUME NEW s \in S
        PROVE  /\ F[s] \in S
               /\ s = <<n, g[n]>> \/ F[s][1] = s[1] + 1
               /\ s[1] \in 1..n
               /\ s = <<n, g[n]>> => F[s] = s
    <2>1. PICK i \in 1..n : s = <<i, g[i]>>
      OBVIOUS
    <2>2. CASE i = n
      <3>1. F[s] = s
        BY <1>1, <2>1, <2>2
      <3> QED
        BY <2>1, <2>2, <3>1
    <2>3. CASE i # n
      <3>1. F[s] = <<i + 1, g[i + 1]>>
        BY <1>1, <2>1, <2>3
      <3>2. i + 1 \in 1..n
        BY <1>0, <2>3
      <3> QED
        BY <1>0, <2>1, <2>3, <3>1, <3>2
    <2> QED
      BY <2>2, <2>3
  <1> HIDE DEF S
  <1>4. R \in [S -> 0..Size]
    BY <1>0, <1>3
  <1>5. \A s \in S : F[s] \in S /\ (F[s] = s \/ R[F[s]] > R[s])
    BY <1>0, <1>3
  <1> HIDE DEF R
  <1>6. out \in S /\ F[out] = out
    BY <1>0, <1>2, <1>4, <1>5, RoundsEnd
  <1>7. TopLine(im, y, x, 1) = out
    BY DEF TopLine, F
  <1> HIDE DEF out
  <1>8. out = <<n, g[n]>>
    BY <1>0, <1>3, <1>6
  <1> QED
    BY <1>7, <1>8

(* g follows the upper edge of a code from row y of its column k on.       *)
Descends(code, y, k, g) ==
  /\ g \in [1..(code.w - k) -> {0, 1}] /\ g[1] = 0
  /\ \A i \in 1..(code.w - k) :
       y + g[i] - code.top - Lowering(code, k + i - 1) \in {0, 1}
  /\ \A i \in 1..(code.w - k - 1) :
       \/ g[i + 1] = g[i]
       \/ g[i + 1] = g[i] + 1 /\ y + g[i] < code.top + Lowering(code, k + i)

(* The edge of a code has a way: along its first row, or down with it, or  *)
(* along the second row of its higher half.                                *)
LEMMA WayAlongCode ==
  ASSUME NEW im, NEW code, Stands(im, code), Big(code),
         NEW k \in 0..(code.w - 1), NEW y \in Nat, NEW g, Descends(code, y, k, g)
  PROVE  TopLine(im, y, code.left + k, 1) = <<code.w - k, g[code.w - k]>>
  <1> DEFINE n == code.w - k
             x == code.left + k
             u(i) == Lowering(code, k + i - 1)
  <1>0. /\ code.left \in Nat /\ code.top \in Nat
        /\ code.w \in Nat /\ code.h \in Nat
        /\ Size \in Nat /\ MinL \in Nat \ {0} /\ code.left + code.w <= Size
        /\ code.h > MinL + 1
    BY StandsNumbers DEF Big
  <1>1. n \in Nat \ {0} /\ x \in Rows /\ n <= Size - x /\ k \in Int
    BY <1>0 DEF Rows
  <1>2. ASSUME NEW i \in 1..n
        PROVE  /\ y + g[i] \in code.top..Below(code) /\ y + g[i] + 1 \in code.top..Below(code)
               /\ g[i] \in {0, 1}
    <2>1. g[i] \in {0, 1} /\ y + g[i] - code.top - u(i) \in {0, 1}
      BY DEF Descends
    <2>2. u(i) \in {0, 1} /\ code.top + code.h + u(i) <= Below(code) /\ Below(code) \in Nat
      BY StandsNumbers
    <2> HIDE DEF u
    <2>3. y + g[i] >= code.top
      BY <1>0, <2>1, <2>2
    <2>4. y + g[i] <= code.top + u(i) + 1
      BY <1>0, <2>1, <2>2
    <2>5. code.h >= 3
      BY <1>0
    <2> QED
      BY <1>0, <2>1, <2>2, <2>3, <2>4, <2>5
  <1>3. ASSUME NEW i \in 1..(n - 1)
        PROVE  \/ IsEdge(im, y + g[i], x + i) /\ g[i + 1] = g[i]
               \/ /\ ~IsEdge(im, y + g[i], x + i) /\ IsEdge(im, y + g[i] + 1, x + i)
                  /\ g[i + 1] = g[i] + 1
    <2>1. i \in 1..n /\ i + 1 \in 1..n /\ k + (i + 1) - 1 = k + i /\ i \in Int
      <3> HIDE DEF n
      <3> QED
        BY <1>1
    <2>2. /\ x + i \in (code.left - 1)..(code.left + code.w)
          /\ (x + i) - code.left = k + i /\ k + i \in 0..(code.w - 1)
      BY <1>0, <1>1, <2>1
    <2>3. y + g[i + 1] - code.top - Lowering(code, k + i) \in {0, 1}
      <3>1. y + g[i + 1] - code.top - Lowering(code, k + (i + 1) - 1) \in {0, 1}
        BY <2>1 DEF Descends
      <3> QED
        BY <2>1, <3>1
    <2>4. IsEdge(im, y + g[i + 1], x + i)
      <3> DEFINE c == x + i
                 r == y + g[i + 1]
      <3>1. /\ r \in code.top..Below(code) /\ c \in (code.left - 1)..(code.left + code.w)
            /\ c - code.left = k + i
        BY <1>2, <2>1, <2>2
      <3> HIDE DEF c
      <3>2. r - code.top - Lowering(code, c - code.left) \in {0, 1}
            /\ c - code.left \in 0..(code.w - 1)
        <4>1. Lowering(code, c - code.left) = Lowering(code, k + i)
          BY <3>1
        <4>2. c - code.left \in 0..(code.w - 1)
          BY <2>2, <3>1
        <4> DEFINE v == Lowering(code, k + i)
        <4>3. r - code.top - v \in {0, 1}
          <5>1. v \in {0, 1} /\ g[i + 1] \in {0, 1}
            BY <1>2, <2>1, StandsNumbers
          <5> HIDE DEF v
          <5>2. y + g[i + 1] - code.top - v \in {0, 1}
            BY <2>3 DEF v
          <5> QED
            BY <1>0, <5>1, <5>2
        <4> HIDE DEF v, r
        <4>4. Lowering(code, c - code.left) = v
          BY <4>1 DEF v
        <4> QED
          BY <4>2, <4>3, <4>4
      <3> HIDE DEF r
      <3>3. IsEdge(im, r, c)
        <4> DEFINE q == r - code.top - Lowering(code, c - code.left)
        <4>1. TopMargin \in Nat /\ TopMargin >= 2
          BY StandsNumbers
        <4>2. q \in 0..(code.h - 1) /\ q < TopMargin
          <5>1. q \in {0, 1}
            BY <3>2
          <5> HIDE DEF q
          <5> QED
            BY <1>0, <4>1, <5>1
        <4> QED
          BY <3>1, <3>2, <4>2, NearEdges
      <3> QED
        BY <3>3 DEF c, r
    <2>5. \/ g[i + 1] = g[i]
          \/ g[i + 1] = g[i] + 1 /\ y + g[i] < code.top + Lowering(code, k + i)
      BY DEF Descends
    <2>6. CASE g[i + 1] = g[i]
      BY <2>4, <2>6
    <2>7. CASE g[i + 1] = g[i] + 1 /\ y + g[i] < code.top + Lowering(code, k + i)
      <3>1. ~IsEdge(im, y + g[i], x + i)
        <4> DEFINE c == x + i
                   r == y + g[i]
        <4>1. /\ r \in code.top..Below(code) /\ c \in (code.left - 1)..(code.left + code.w)
              /\ c - code.left = k + i
          BY <1>2, <2>1, <2>2
        <4> HIDE DEF c
        <4>2. r < code.top + Lowering(code, c - code.left)
          BY <2>7, <4>1
        <4> HIDE DEF r
        <4>3. ~IsEdge(im, r, c)
          <5> DEFINE v == Lowering(code, c - code.left)
          <5>1. v \in {0, 1} /\ Below(code) \in Nat
            BY StandsNumbers
          <5>2. r < code.top + v
            BY <4>2
          <5> HIDE DEF v
          <5>3. ~(r - code.top - v \in 0..(code.h - 1))
            BY <1>0, <4>1, <5>1, <5>2
          <5> QED
            BY <4>1, <5>3, NearEdges DEF v
        <4> QED
          BY <4>3 DEF c, r
      <3>2. y + g[i + 1] = y + g[i] + 1
        BY <1>2, <2>1, <2>7
      <3> QED
        BY <2>4, <2>7, <3>1, <3>2
    <2> QED
      BY <2>5, <2>6, <2>7
  <1>4. ~IsEdge(im, y + g[n], x + n) /\ ~IsEdge(im, y + g[n] + 1, x + n)
    <2>1. /\ n \in 1..n /\ x + n \in (code.left - 1)..(code.left + code.w)
          /\ (x + n) - code.left \notin 0..(code.w - 1)
      BY <1>0, <1>1
    <2>2. y + g[n] \in code.top..Below(code) /\ y + g[n] + 1 \in code.top..Below(code)
      BY <1>2, <2>1
    <2> QED
      BY <2>1, <2>2, NearEdges
  <1>5. g \in [1..n -> Nat] /\ g[1] = 0
    BY DEF Descends
  <1> HIDE DEF n, x
  <1>6. IsWay(im, y, x, n, g)
    BY <1>1, <1>3, <1>4, <1>5 DEF IsWay
  <1>7. TopLine(im, y, x, 1) = <<n, g[n]>>
    BY <1>1, <1>6, TopLineFollows
  <1> QED
    BY <1>7 DEF n, x

(* The side of a code is longer than MinL.                                 *)
LEMMA SideLong ==
  ASSUME NEW im, NEW code, Stands(im, code), Big(code),
         NEW k \in 0..(code.w - 1), NEW row \in Nat, NEW column,
         column = code.left + k,
         NEW u, u = Lowering(code, k), row = code.top + u \/ row = code.top + u + 1,
         NEW limit \in Nat, limit > MinL
  PROVE  SideLine(im, row, column, limit) > MinL
  <1> DEFINE dy == SideLine(im, row, column, limit)
  <1>0. /\ code.left \in Nat /\ code.top \in Nat
        /\ code.w \in Nat /\ code.h \in Nat /\ u \in {0, 1}
        /\ Size \in Nat /\ MinL \in Nat \ {0}
        /\ code.h > MinL + 1 /\ code.top + code.h + u <= Below(code) /\ Below(code) \in Nat
    BY StandsNumbers DEF Big
  <1>1. /\ column \in Int /\ column - code.left = k /\ limit \in Nat \ {0}
        /\ column \in (code.left - 1)..(code.left + code.w)
    BY <1>0
  <1>2. dy \in 1..limit /\ ~(dy < limit /\ IsWhite(im, row + dy, column))
    BY <1>1, SideLineSound DEF DownSide
  <1> HIDE DEF dy
  <1> SUFFICES ASSUME dy <= MinL PROVE FALSE
    BY <1>0, <1>2 DEF dy
  <1>3. /\ dy \in Nat /\ row + dy \in code.top..Below(code)
        /\ (row + dy) - code.top - u \in 0..(code.h - 1)
    BY <1>0, <1>2
  <1>4. Within(code, row + dy, column)
    BY <1>1, <1>3 DEF Within
  <1>5. IsWhite(im, row + dy, column)
    BY <1>1, <1>3, <1>4, NearEdges
  <1> QED
    BY <1>0, <1>2, <1>5

(* The row where a code begins at its left end, or the next one if its     *)
(* left half is not the lower one.                                         *)
Beginning(code, y) ==
  y = FirstRow(code) \/ (y = FirstRow(code) + 1 /\ code.drop # -1)

(* In such a row its edge is followed to its right end, and its side down. *)
LEMMA FirstEdge ==
  ASSUME NEW im, NEW code, Stands(im, code), Big(code), NEW y, Beginning(code, y)
  PROVE  /\ y \in 1..(Size - 1) /\ code.left \in Rows
         /\ IsEdge(im, y, code.left)
         /\ EdgeAt(im, y, code.left, 1) = code.w
         /\ SideAt(im, y, code.left, 1) > MinL
  <1> DEFINE L(i) == Lowering(code, i)
             slope == code.drop = 1 /\ y = code.top
             g == [i \in 1..(code.w - 0) |-> IF slope THEN L(i - 1) ELSE 0]
             k == code.w - Stepback
  <1>0. /\ code.left \in Nat /\ code.top \in Nat
        /\ code.w \in Nat /\ code.h \in Nat /\ code.drop \in {-1, 0, 1}
        /\ Size \in Nat /\ MinL \in Nat \ {0} /\ Stepback \in 1..MinL
        /\ code.w > MinL /\ code.h > MinL + 1 /\ code.left + code.w <= Size
        /\ code.top >= 2
    BY StandsNumbers DEF Big
  <1>1. /\ \A i : L(i) \in {0, 1}
        /\ code.top + code.h + L(0) <= Below(code) /\ Below(code) \in Nat /\ Below(code) < Size
        /\ code.drop = 0 => \A i : L(i) = 0
    BY StandsNumbers
  <1>2. /\ code.drop # -1 => L(0) = 0
        /\ code.drop = -1 => L(0) = 1
        /\ code.drop = 1 => /\ L(code.w - 1) = 1
                            /\ \A i \in Nat : L(i) = 1 => L(i + 1) = 1
    BY <1>0 DEF Lowering, Lowered
  <1>3. y = code.top + L(0) \/ (y = code.top + L(0) + 1 /\ code.drop # -1)
    BY DEF FirstRow, Beginning
  <1> HIDE DEF L
  <1>4. y \in 1..(Size - 1) /\ y \in Nat /\ code.left \in Rows
    BY <1>0, <1>1, <1>3 DEF Rows
  <1>5. IsEdge(im, y, code.left)
    <2>1. /\ code.left - code.left = 0 /\ code.left \in (code.left - 1)..(code.left + code.w)
          /\ y \in code.top..Below(code) /\ 0 \in 0..(code.w - 1)
      BY <1>0, <1>1, <1>3, <1>4
    <2>2. TopMargin \in Nat /\ TopMargin >= 2
      BY StandsNumbers
    <2>3. /\ y - code.top - Lowering(code, 0) \in 0..(code.h - 1)
          /\ y - code.top - Lowering(code, 0) < TopMargin
      BY <1>0, <1>1, <1>3, <2>2 DEF L
    <2> QED
      BY <2>1, <2>3, NearEdges
  <1>6. Descends(code, y, 0, g)
    <2>1. g \in [1..(code.w - 0) -> {0, 1}] /\ g[1] = 0
      <3>1. \A i \in 1..(code.w - 0) : (IF slope THEN L(i - 1) ELSE 0) \in {0, 1}
        BY <1>1
      <3>2. 1 \in 1..(code.w - 0) /\ 1 - 1 = 0
        BY <1>0
      <3>3. g[1] = IF slope THEN L(1 - 1) ELSE 0
        BY <3>2
      <3>4. g[1] = 0
        BY <1>2, <3>2, <3>3
      <3> QED
        BY <3>1, <3>4
    <2>2. ASSUME NEW i \in 1..(code.w - 0)
          PROVE  y + g[i] - code.top - Lowering(code, 0 + i - 1) \in {0, 1}
      <3>1. 0 + i - 1 = i - 1 /\ i - 1 \in Int
        BY <1>0
      <3>2. g[i] = IF slope THEN L(i - 1) ELSE 0
        OBVIOUS
      <3> HIDE DEF g
      <3>3. y + g[i] - code.top - L(i - 1) \in {0, 1}
        BY <1>0, <1>1, <1>2, <1>3, <3>2
      <3> QED
        BY <3>1, <3>3 DEF L
    <2>3. ASSUME NEW i \in 1..(code.w - 0 - 1)
          PROVE  \/ g[i + 1] = g[i]
                 \/ g[i + 1] = g[i] + 1 /\ y + g[i] < code.top + Lowering(code, 0 + i)
      <3>1. i \in 1..(code.w - 0) /\ i + 1 \in 1..(code.w - 0) /\ (i + 1) - 1 = i
            /\ 0 + i = i /\ i - 1 \in Nat /\ (i - 1) + 1 = i
        BY <1>0
      <3>2. /\ g[i] = IF slope THEN L(i - 1) ELSE 0
            /\ g[i + 1] = IF slope THEN L(i) ELSE 0
        BY <3>1
      <3> HIDE DEF g
      <3>3. code.drop = 1 => (L(i - 1) = 1 => L(i) = 1)
        BY <1>2, <3>1
      <3>4. \/ g[i + 1] = g[i]
            \/ g[i + 1] = g[i] + 1 /\ y + g[i] < code.top + L(i)
        BY <1>0, <1>1, <1>2, <1>3, <3>2, <3>3
      <3> QED
        BY <3>1, <3>4 DEF L
    <2> HIDE DEF g
    <2> QED
      BY <2>1, <2>2, <2>3 DEF Descends
  <1>7. g[code.w] = IF slope THEN 1 ELSE 0
    BY <1>0, <1>2
  <1> HIDE DEF g
  <1>8. TopLine(im, y, code.left, 1) = <<code.w, g[code.w]>>
    <2>1. 0 \in 0..(code.w - 1) /\ code.left + 0 = code.left /\ code.w - 0 = code.w
      BY <1>0
    <2>2. TopLine(im, y, code.left + 0, 1) = <<code.w - 0, g[code.w - 0]>>
      BY <1>4, <1>6, <2>1, WayAlongCode
    <2> QED
      BY <2>1, <2>2
  <1>9. EdgeAt(im, y, code.left, 1) = code.w /\ DropAt(im, y, code.left, 1) = g[code.w]
    BY <1>8 DEF EdgeAt, DropAt
  <1>10. SideLine(im, y + g[code.w], code.left + 1 * (code.w - Stepback),
                  Size - y + g[code.w]) > MinL
    <2>1. k \in 0..(code.w - 1) /\ code.left + 1 * (code.w - Stepback) = code.left + k
      BY <1>0
    <2>2. y + g[code.w] \in Nat /\ Size - y + g[code.w] \in Nat
          /\ Size - y + g[code.w] > MinL
      BY <1>0, <1>1, <1>3, <1>4, <1>7
    <2> HIDE DEF k
    <2>3. y + g[code.w] = code.top + L(k) \/ y + g[code.w] = code.top + L(k) + 1
      BY <1>0, <1>1, <1>2, <1>3, <1>7
    <2> QED
      BY <2>1, <2>2, <2>3, SideLong DEF L
  <1>11. SideAt(im, y, code.left, 1) > MinL
    BY <1>9, <1>10 DEF SideAt
  <1> QED
    BY <1>4, <1>5, <1>9, <1>11

(* No note is wider than the code: its columns are columns of the code.    *)
LEMMA NotesNarrow ==
  ASSUME NEW im, NEW code, Alone(im, code), NEW n \in Sound(im)
  PROVE  /\ n.dx <= code.w /\ n.dx \in Nat
         /\ n.x0 \in code.left..(code.left + code.w - 1)
         /\ Low(im)
         /\ ~n.f => n.x0 + n.dx <= code.left + code.w
  <1>0. /\ code.left \in Nat /\ code.top \in Nat /\ code.w \in Nat /\ code.h \in Nat
        /\ Size \in Nat /\ MinL \in Nat \ {0}
    BY CodeNumbers
  <1>1. Low(im)
    <2> SUFFICES ASSUME NEW r \in Int, NEW c \in Int, Within(code, r, c)
                 PROVE  r < Size - 1
      BY DEF Low, Alone
    <2> DEFINE u == Lowering(code, c - code.left)
    <2>1. u \in {0, 1} /\ code.top + code.h + u < Size
      BY CodeNumbers
    <2>2. r - code.top - u \in 0..(code.h - 1)
      BY DEF Within
    <2> HIDE DEF u
    <2> QED
      BY <1>0, <2>1, <2>2
  <1>2. n.x0 \in Int /\ n.dx \in Nat \ {0} /\ Direction(n) \in {1, -1} /\ n.dx \in Int
    BY <1>0 DEF Sound, Rows, Direction
  <1>3. ASSUME NEW k \in 0..(n.dx - 1)
        PROVE  n.x0 + Direction(n) * k \in code.left..(code.left + code.w - 1)
    <2> DEFINE c == n.x0 + Direction(n) * k
    <2>1. c \in Int
      BY <1>2
    <2>2. PICK r \in Rows : <<r, c>> \in im.white
      BY <1>1 DEF Sound
    <2>3. r \in Int
      BY <1>0 DEF Rows
    <2> HIDE DEF c
    <2>4. Within(code, r, c)
      BY <2>1, <2>2, <2>3 DEF Alone
    <2>5. c - code.left \in 0..(code.w - 1)
      BY <2>4 DEF Within
    <2>6. c \in code.left..(code.left + code.w - 1)
      BY <1>0, <2>1, <2>5
    <2> QED
      BY <2>6 DEF c
  <1>4. 0 \in 0..(n.dx - 1) /\ n.dx - 1 \in 0..(n.dx - 1)
    BY <1>2
  <1>5. /\ n.x0 + Direction(n) * 0 \in code.left..(code.left + code.w - 1)
        /\ n.x0 + Direction(n) * (n.dx - 1) \in code.left..(code.left + code.w - 1)
    BY <1>3, <1>4
  <1>6. n.x0 \in code.left..(code.left + code.w - 1)
    BY <1>2, <1>5
  <1>7. CASE Direction(n) = 1
    <2>1. n.x0 + 1 * (n.dx - 1) \in code.left..(code.left + code.w - 1)
      BY <1>5, <1>7
    <2> QED
      BY <1>0, <1>1, <1>2, <1>6, <2>1
  <1>8. CASE Direction(n) = -1
    <2>1. n.x0 + (-1) * (n.dx - 1) \in code.left..(code.left + code.w - 1)
      BY <1>5, <1>8
    <2>2. n.f
      BY <1>8 DEF Direction
    <2>3. n.dx <= code.w
      BY <1>0, <1>2, <1>6, <2>1
    <2> QED
      BY <1>1, <1>2, <1>6, <2>2, <2>3
  <1> QED
    BY <1>2, <1>7, <1>8

(* A note of the whole code, behind narrower ones only.                    *)
HasWide(l, code) ==
  \E q \in 1..Len(l) :
    /\ l[q].x0 = code.left /\ l[q].x1 = code.left + code.w /\ l[q].dx = code.w
    /\ \A m \in 1..(q - 1) : l[m].dx < code.w

(* It stays there.                                                         *)
LEMMA WideKept ==
  ASSUME NEW code, NEW S, NEW l \in Seq(S), NEW n \in S, HasWide(l, code)
  PROVE  HasWide(Append(l, n), code)
  <1>1. PICK q \in 1..Len(l) :
          /\ l[q].x0 = code.left /\ l[q].x1 = code.left + code.w /\ l[q].dx = code.w
          /\ \A m \in 1..(q - 1) : l[m].dx < code.w
    BY DEF HasWide
  <1>2. /\ Len(l) \in Nat /\ Len(Append(l, n)) = Len(l) + 1
        /\ \A m \in 1..Len(l) : Append(l, n)[m] = l[m]
    OBVIOUS
  <1> DEFINE t == Append(l, n)
  <1> HIDE DEF t
  <1>3. /\ Len(t) = Len(l) + 1 /\ \A m \in 1..Len(l) : t[m] = l[m]
    BY <1>2 DEF t
  <1>4. q \in 1..Len(t) /\ t[q] = l[q] /\ \A m \in 1..(q - 1) : t[m] = l[m]
    BY <1>2, <1>3
  <1>5. HasWide(t, code)
    BY <1>1, <1>4 DEF HasWide
  <1> QED
    BY <1>5 DEF t

(* A round of the scan keeps the note of a whole code.                     *)
LEMMA WideMoves ==
  ASSUME NEW im, NEW code, NEW y \in 1..(Size - 1), NEW d \in {1, -1},
         NEW x \in Int, NEW l \in SoundLists(im), HasWide(l, code)
  PROVE  HasWide(ScanStep(im, d, y)[<<x, l>>][2], code)
  <1> DEFINE t == ScanStep(im, d, y)[<<x, l>>]
  <1>1. MovesOn(im, d, x, l, t)
    BY ScanStepSound
  <1> HIDE DEF t
  <1>2. CASE t[2] = l
    BY <1>2 DEF t
  <1>3. CASE \E n \in Sound(im) : t[2] = Append(l, n)
    <2>1. PICK n \in Sound(im) : t[2] = Append(l, n)
      BY <1>3
    <2>2. l \in Seq(Sound(im))
      BY DEF SoundLists
    <2>3. HasWide(Append(l, n), code)
      BY <2>2, WideKept
    <2> QED
      BY <2>1, <2>3 DEF t
  <1> QED
    BY <1>1, <1>2, <1>3 DEF MovesOn

(* And so does the scan of a row.                                          *)
LEMMA WideRow ==
  ASSUME NEW im, NEW code, NEW y \in 1..(Size - 1), NEW d \in {1, -1},
         NEW l \in SoundLists(im), HasWide(l, code)
  PROVE  HasWide(ScanRow(im, d, y, l), code)
  <1> DEFINE S == {s \in Int \X SoundLists(im) : HasWide(s[2], code)}
  <1>1. <<Start(d), l>> \in S
    BY SearchAssumption DEF Start
  <1>2. ASSUME NEW s \in S PROVE ScanStep(im, d, y)[s] \in S
    <2>1. s[1] \in Int /\ s[2] \in SoundLists(im) /\ s = <<s[1], s[2]>> /\ HasWide(s[2], code)
      OBVIOUS
    <2>2. MovesOn(im, d, s[1], s[2], ScanStep(im, d, y)[<<s[1], s[2]>>])
      BY <2>1, ScanStepSound
    <2>3. ScanStep(im, d, y)[s] \in Int \X SoundLists(im)
      BY <2>1, <2>2 DEF MovesOn
    <2>4. HasWide(ScanStep(im, d, y)[<<s[1], s[2]>>][2], code)
      BY <2>1, WideMoves
    <2> QED
      BY <2>1, <2>3, <2>4
  <1>3. S \subseteq Int \X SoundLists(im) /\ \A s \in S : HasWide(s[2], code)
    OBVIOUS
  <1> HIDE DEF S
  <1>4. PICK x \in Int \ Rows : <<x, ScanRow(im, d, y, l)>> \in S
    BY <1>1, <1>2, <1>3, ScanRowKeeps
  <1> QED
    BY <1>3, <1>4

(* A row in which nothing is on an edge is passed over.                    *)
LEMMA EmptyRow ==
  ASSUME NEW im, NEW y \in 1..(Size - 1), \A x \in Rows : ~IsEdge(im, y, x)
  PROVE  ScanRow(im, 1, y, << >>) = << >>
  <1> DEFINE S == {s \in Int \X SoundLists(im) : s[2] = << >>}
  <1>0. << >> \in SoundLists(im) /\ << >> \in Seq(Notes)
    BY SearchAssumption DEF SoundLists
  <1>1. <<Start(1), << >> >> \in S
    BY <1>0 DEF Start
  <1>2. ASSUME NEW s \in S PROVE ScanStep(im, 1, y)[s] \in S
    <2>1. s[1] \in Int /\ s = <<s[1], << >> >>
      OBVIOUS
    <2>2. ScanStep(im, 1, y)[<<s[1], << >> >>] = Moved(im, y, 1, s[1], << >>)
      BY <1>0, <2>1, ScanStepIs
    <2>3. Moved(im, y, 1, s[1], << >>) \in {<<s[1], << >> >>, <<s[1] + 1, << >> >>}
      BY <2>1 DEF Moved
    <2> QED
      BY <1>0, <2>1, <2>2, <2>3
  <1>3. S \subseteq Int \X SoundLists(im) /\ \A s \in S : s[2] = << >>
    OBVIOUS
  <1> HIDE DEF S
  <1>4. PICK x \in Int \ Rows : <<x, ScanRow(im, 1, y, << >>)>> \in S
    BY <1>0, <1>1, <1>2, <1>3, ScanRowKeeps
  <1> QED
    BY <1>3, <1>4

(* The code is noted as a whole in the row in which it begins at its left  *)
(* end, unless there is a note of that place or there are too many.        *)
LEMMA FoundInRow ==
  ASSUME NEW im, NEW code, Alone(im, code), Big(code),
         NEW l \in SoundLists(im), Len(l) < MaxCodes,
         ~Covered(l, FirstRow(code), code.left),
         \A m \in 1..Len(l) : l[m].dx < code.w
  PROVE  HasWide(ScanRow(im, 1, FirstRow(code), l), code)
  <1> DEFINE y == FirstRow(code)
             S == {s \in Int \X SoundLists(im) :
                     (s[1] \in 0..code.left /\ s[2] = l) \/ HasWide(s[2], code)}
  <1>0. /\ code.left \in Nat /\ code.w \in Nat \ {0} /\ Size \in Nat
        /\ code.left + code.w <= Size /\ MinL \in Nat
    BY CodeNumbers
  <1>1. /\ y \in 1..(Size - 1) /\ code.left \in Rows
        /\ IsEdge(im, y, code.left)
        /\ EdgeAt(im, y, code.left, 1) = code.w
        /\ SideAt(im, y, code.left, 1) > MinL
    BY AloneStands, FirstEdge DEF Beginning
  <1> HIDE DEF y
  <1>2. <<Start(1), l>> \in S
    BY <1>0 DEF Start
  <1>3. ASSUME NEW s \in S PROVE ScanStep(im, 1, y)[s] \in S
    <2> DEFINE t == ScanStep(im, 1, y)[s]
    <2>1. s[1] \in Int /\ s[2] \in SoundLists(im) /\ s = <<s[1], s[2]>>
      OBVIOUS
    <2>2. MovesOn(im, 1, s[1], s[2], ScanStep(im, 1, y)[<<s[1], s[2]>>])
      BY <1>1, <2>1, ScanStepSound
    <2>3. t \in Int \X SoundLists(im)
      BY <2>1, <2>2 DEF MovesOn
    <2>4. CASE HasWide(s[2], code)
      <3>1. HasWide(ScanStep(im, 1, y)[<<s[1], s[2]>>][2], code)
        BY <1>1, <2>1, <2>4, WideMoves
      <3> QED
        BY <2>1, <2>3, <3>1
    <2>5. CASE s[1] \in 0..code.left /\ s[2] = l
      <3>1. s[2] \in Seq(Notes)
        BY <2>1, SoundListsAreNotes
      <3>2. ScanStep(im, 1, y)[<<s[1], s[2]>>] = Moved(im, y, 1, s[1], s[2])
        BY <2>1, <3>1, ScanStepIs
      <3>3. t = Moved(im, y, 1, s[1], l)
        BY <2>1, <2>5, <3>2
      <3>4. CASE s[1] < code.left
        <4>1. s[1] \in Rows /\ s[1] + 1 \in 0..code.left
          BY <1>0, <2>5, <3>4 DEF Rows
        <4>2. ~IsEdge(im, y, s[1])
          <5>1. s[1] - code.left \notin 0..(code.w - 1) /\ y \in 0..(Size - 1)
            BY <1>0, <1>1, <2>1, <3>4
          <5> QED
            BY <2>1, <5>1, EdgePixels
        <4>3. t = <<s[1] + 1, l>>
          BY <3>3, <4>1, <4>2 DEF Moved
        <4> HIDE DEF t
        <4>4. t \in S
          BY <2>3, <4>1, <4>3
        <4> QED
          BY <4>4 DEF t
      <3>5. CASE ~(s[1] < code.left)
        <4>1. s[1] = code.left /\ s[1] \in Rows
          BY <1>0, <1>1, <2>5, <3>5
        <4> DEFINE n == NoteAt(im, y, code.left, 1)
        <4>2. t[2] = Append(l, n)
          <5>1. ~(code.w <= MinL)
            BY <1>0 DEF Big
          <5>2. Moved(im, y, 1, code.left, l)[2] = Append(l, n)
            BY <1>1, <4>1, <5>1 DEF Moved, y
          <5> QED
            BY <3>3, <4>1, <5>2
        <4>3. n.x0 = code.left /\ n.x1 = code.left + code.w /\ n.dx = code.w
          BY <1>0, <1>1 DEF NoteAt, Corners
        <4> HIDE DEF n, t
        <4>4. /\ Len(Append(l, n)) = Len(l) + 1 /\ Append(l, n)[Len(l) + 1] = n
              /\ \A m \in 1..Len(l) : Append(l, n)[m] = l[m]
              /\ Len(l) \in Nat
          BY DEF SoundLists
        <4>5. HasWide(t[2], code)
          <5> DEFINE a == Append(l, n)
                     q == Len(l) + 1
          <5> HIDE DEF a
          <5>1. /\ q \in 1..Len(a) /\ a[q] = n /\ \A m \in 1..(q - 1) : a[m] = l[m]
                /\ \A m \in 1..(q - 1) : m \in 1..Len(l)
            BY <4>4 DEF a
          <5> HIDE DEF q
          <5>2. HasWide(a, code)
            BY <4>3, <5>1 DEF HasWide
          <5> QED
            BY <4>2, <5>2 DEF a
        <4>6. t \in S
          BY <2>3, <4>5
        <4> QED
          BY <4>6 DEF t
      <3> QED
        BY <3>4, <3>5
    <2> QED
      BY <2>4, <2>5
  <1>4. S \subseteq Int \X SoundLists(im)
        /\ \A s \in S : s[1] \in Rows \/ HasWide(s[2], code)
    BY <1>0, <1>1 DEF Rows
  <1> HIDE DEF S
  <1>5. PICK x \in Int \ Rows : <<x, ScanRow(im, 1, y, l)>> \in S
    BY <1>1, <1>2, <1>3, <1>4, ScanRowKeeps
  <1>6. HasWide(ScanRow(im, 1, y, l), code)
    BY <1>4, <1>5
  <1> QED
    BY <1>6 DEF y

(* Before the code is found as a whole at most its higher right half is    *)
(* noted.                                                                  *)
HalfNoted(l, code) ==
  /\ Len(l) <= 1
  /\ \A m \in 1..Len(l) : ~l[m].f /\ l[m].x0 > code.left /\ l[m].dx < code.w

(* The note of the higher half, in the scan of its first row at column x.  *)
HalfNote(n, code, x) ==
  /\ n.f = FALSE /\ n.x0 > code.left /\ n.dx < code.w /\ n.x1 = code.left + code.w
  /\ n.y0 = code.top /\ code.top <= n.y3 /\ x > n.x0

HalfDone(x, l, code) == l = << >> \/ (Len(l) = 1 /\ HalfNote(l[1], code, x))

(* An edge pixel of the higher half: the edge ends where the code does.    *)
LEMMA HalfEdge ==
  ASSUME NEW im, NEW code, Alone(im, code), Big(code), code.drop = -1,
         NEW x \in Rows, IsEdge(im, code.top, x)
  PROVE  /\ x > code.left /\ EdgeAt(im, code.top, x, 1) = code.left + code.w - x
         /\ DropAt(im, code.top, x, 1) = 0
  <1> DEFINE k == x - code.left
             g == [i \in 1..(code.w - k) |-> 0]
  <1>0. /\ code.left \in Nat /\ code.top \in Nat /\ code.w \in Nat \ {0} /\ code.h \in Nat
        /\ Size \in Nat /\ code.top + code.h + Lowering(code, 0) < Size
        /\ \A i : Lowering(code, i) \in {0, 1}
        /\ x \in Int /\ k \in Int
    BY CodeNumbers DEF Rows
  <1>1. code.top \in 0..(Size - 1)
    BY <1>0
  <1>2. k \in 0..(code.w - 1) /\ ~(code.top < code.top + Lowering(code, k))
    BY <1>0, <1>1, EdgePixels
  <1>3. \A i \in Int : Lowering(code, i) = IF 2 * i < code.w THEN 1 ELSE 0
    BY DEF Lowering, Lowered
  <1>4. ~(2 * k < code.w)
    BY <1>0, <1>2, <1>3
  <1> HIDE DEF k
  <1>5. Descends(code, code.top, k, g)
    <2>1. g \in [1..(code.w - k) -> {0, 1}] /\ g[1] = 0
      BY <1>0, <1>2
    <2>2. ASSUME NEW i \in 1..(code.w - k)
          PROVE  code.top + g[i] - code.top - Lowering(code, k + i - 1) \in {0, 1}
      <3>1. k + i - 1 \in Int /\ ~(2 * (k + i - 1) < code.w)
        BY <1>0, <1>2, <1>4
      <3>2. Lowering(code, k + i - 1) = 0 /\ g[i] = 0
        BY <1>3, <3>1
      <3> HIDE DEF g
      <3> QED
        BY <1>0, <3>2
    <2>3. \A i \in 1..(code.w - k - 1) : g[i + 1] = g[i]
      BY <1>0, <1>2
    <2> HIDE DEF g
    <2> QED
      BY <2>1, <2>2, <2>3 DEF Descends
  <1>6. g[code.w - k] = 0
    BY <1>0, <1>2
  <1> HIDE DEF g
  <1>7. TopLine(im, code.top, code.left + k, 1) = <<code.w - k, 0>>
    BY <1>0, <1>2, <1>5, <1>6, AloneStands, WayAlongCode
  <1>8. code.left + k = x /\ code.w - k = code.left + code.w - x /\ x > code.left
    BY <1>0, <1>2, <1>4 DEF k
  <1> QED
    BY <1>7, <1>8 DEF EdgeAt, DropAt

(* The first row of such a code leaves at most a note of its higher half.  *)
LEMMA HalfRow ==
  ASSUME NEW im, NEW code, Alone(im, code), Big(code), code.drop = -1
  PROVE  HalfNoted(ScanRow(im, 1, code.top, << >>), code)
  <1> DEFINE y == code.top
             S == {s \in Int \X SoundLists(im) : HalfDone(s[1], s[2], code)}
  <1>0. /\ code.left \in Nat /\ code.top \in Nat /\ code.w \in Nat \ {0} /\ code.h \in Nat
        /\ Size \in Nat /\ code.top + code.h + Lowering(code, 0) < Size
        /\ Lowering(code, 0) \in {0, 1} /\ code.top >= 2 /\ MinL \in Nat
    BY CodeNumbers
  <1>1. y \in 1..(Size - 1) /\ y \in 0..(Size - 1)
    BY <1>0
  <1>2. << >> \in SoundLists(im) /\ << >> \in Seq(Notes)
    BY SearchAssumption DEF SoundLists
  <1>3. <<Start(1), << >> >> \in S
    <2>1. HalfDone(0, << >>, code)
      BY Zenon DEF HalfDone
    <2> QED
      BY <1>2, <2>1 DEF Start
  <1>4. ASSUME NEW s \in S PROVE ScanStep(im, 1, y)[s] \in S
    <2> DEFINE t == ScanStep(im, 1, y)[s]
               x == s[1]
               l == s[2]
    <2>1. x \in Int /\ l \in SoundLists(im) /\ s = <<x, l>>
      OBVIOUS
    <2>2. HalfDone(x, l, code) /\ (Len(l) = 1 => l[1].x0 \in Int)
      <3>1. HalfDone(x, l, code) /\ l \in Seq(Notes)
        BY <2>1, SoundListsAreNotes
      <3> HIDE DEF x, l
      <3>2. Len(l) = 1 => l[1] \in Notes
        <4>1. Len(l) = 1 => 1 \in 1..Len(l)
          OBVIOUS
        <4>2. \A i \in 1..Len(l) : l[i] \in Notes
          BY <3>1
        <4> QED
          BY <4>1, <4>2, Zenon
      <3> QED
        BY <3>1, <3>2 DEF Notes
    <2>3. t = Moved(im, y, 1, x, l) /\ MovesOn(im, 1, x, l, t)
      <3>1. l \in Seq(Notes)
        BY <2>1, SoundListsAreNotes
      <3> HIDE DEF x, l, y
      <3> QED
        BY <1>1, <2>1, <3>1, ScanStepIs, ScanStepSound
    <2>4. t \in Int \X SoundLists(im)
      BY <2>3 DEF MovesOn
    <2> HIDE DEF x, l, t
    <2>5. ASSUME x \notin Rows \/ Covered(l, y, x) \/ ~IsEdge(im, y, x)
          PROVE  t \in S
      <3>1. t = <<x, l>> \/ t = <<x + 1, l>>
        BY <2>3, <2>5 DEF Moved
      <3>2. HalfDone(x + 1, l, code)
        <4>1. Len(l) = 1 /\ HalfNote(l[1], code, x) => HalfNote(l[1], code, x + 1)
          BY <2>1, <2>2 DEF HalfNote
        <4> QED
          BY <2>2, <4>1, Zenon DEF HalfDone
      <3>3. HalfDone(t[1], t[2], code)
        BY <2>2, <3>1, <3>2
      <3> QED
        BY <2>4, <3>3
    <2>6. ASSUME x \in Rows, ~Covered(l, y, x), IsEdge(im, y, x)
          PROVE  t \in S
      <3> DEFINE n == NoteAt(im, y, x, 1)
                 dy == SideAt(im, y, x, 1)
      <3>1. x > code.left /\ EdgeAt(im, y, x, 1) = code.left + code.w - x
            /\ DropAt(im, y, x, 1) = 0
        BY <2>6, HalfEdge
      <3>2. dy \in Nat \ {0}
        BY <1>1, <2>6, EdgeNumbers
      <3>3. l = << >>
        <4> SUFFICES ASSUME Len(l) = 1, HalfNote(l[1], code, x) PROVE FALSE
          BY <2>2 DEF HalfDone
        <4>1. x - code.left \in 0..(code.w - 1)
          BY <1>1, <2>1, <2>6, EdgePixels
        <4>2. l[1].x0 <= x /\ x <= l[1].x1
          BY <1>0, <2>1, <2>2, <4>1 DEF HalfNote
        <4>3. Covers(l[1], y, x)
          BY <1>0, <4>2 DEF HalfNote, Covers
        <4> QED
          BY <2>6, <4>3 DEF Covered
      <3>4. HalfNote(n, code, x + 1 * (dy + 1))
        <4>1. n = [f |-> 1 = -1, x0 |-> x, y0 |-> y, x1 |-> x + 1 * (code.left + code.w - x),
                   y3 |-> y + 2 * 0 + dy, dx |-> code.left + code.w - x]
          BY <3>1 DEF NoteAt, Corners
        <4> HIDE DEF n, dy
        <4>2. (1 = -1) = FALSE
          OBVIOUS
        <4>3. n.f = FALSE /\ n.x0 = x /\ n.y0 = y /\ n.x1 = x + 1 * (code.left + code.w - x)
              /\ n.y3 = y + 2 * 0 + dy /\ n.dx = code.left + code.w - x
          BY <4>1, <4>2
        <4> QED
          BY <1>0, <2>1, <3>1, <3>2, <4>3 DEF HalfNote
      <3>5. \/ t[2] = << >>
            \/ t = <<x + 1 * (dy + 1), Append(<< >>, n)>>
        BY <2>3, <2>6, <3>3 DEF Moved
      <3> HIDE DEF n, dy
      <3>6. Len(Append(<< >>, n)) = 1 /\ Append(<< >>, n)[1] = n
        OBVIOUS
      <3>7. CASE t[2] = << >>
        <4>1. HalfDone(t[1], t[2], code)
          BY <3>7, Zenon DEF HalfDone
        <4> QED
          BY <2>4, <4>1
      <3>8. CASE t = <<x + 1 * (dy + 1), Append(<< >>, n)>>
        <4>1. t[1] = x + 1 * (dy + 1) /\ Len(t[2]) = 1 /\ t[2][1] = n
          BY <3>6, <3>8
        <4>2. HalfDone(t[1], t[2], code)
          BY <3>4, <4>1 DEF HalfDone
        <4> QED
          BY <2>4, <4>2
      <3> QED
        BY <3>5, <3>7, <3>8
    <2>7. t \in S
      <3> HIDE DEF S
      <3> QED
        BY <2>5, <2>6
    <2> QED
      BY <2>7 DEF t
  <1>5. S \subseteq Int \X SoundLists(im) /\ \A s \in S : HalfNoted(s[2], code)
    <2>1. ASSUME NEW x, NEW l \in SoundLists(im), HalfDone(x, l, code)
          PROVE  HalfNoted(l, code)
      <3>1. CASE l = << >>
        BY <3>1 DEF HalfNoted
      <3>2. CASE Len(l) = 1 /\ HalfNote(l[1], code, x)
        BY <3>2 DEF HalfNoted, HalfNote
      <3> QED
        BY <2>1, <3>1, <3>2 DEF HalfDone
    <2> QED
      BY <2>1
  <1> HIDE DEF S
  <1>6. PICK x \in Int \ Rows : <<x, ScanRow(im, 1, y, << >>)>> \in S
    BY <1>1, <1>2, <1>3, <1>4, <1>5, ScanRowKeeps
  <1> QED
    BY <1>5, <1>6

(* What the scan from left to right has noted when it comes to row y.      *)
Found(y, l, code) ==
  /\ y <= code.top => l = << >>
  /\ y <= FirstRow(code) => HalfNoted(l, code)
  /\ y > FirstRow(code) => HasWide(l, code)

(* A row of that scan.                                                     *)
LEMMA FoundStep ==
  ASSUME NEW im, NEW code, Alone(im, code), Big(code),
         NEW y \in 1..(Size - 1), NEW l \in SoundLists(im), Found(y, l, code)
  PROVE  Found(y + 1, ScanRow(im, 1, y, l), code)
  <1> DEFINE u == Lowering(code, 0)
             m == ScanRow(im, 1, y, l)
  <1>0. /\ code.left \in Nat /\ code.top \in Nat /\ code.w \in Nat \ {0}
        /\ u \in {0, 1} /\ FirstRow(code) = code.top + u /\ Size \in Nat
        /\ code.drop \in {-1, 0, 1}
    BY CodeNumbers DEF FirstRow
  <1>1. u = 1 => code.drop = -1
    BY <1>0 DEF Lowering, Lowered
  <1>2. HalfNoted(<< >>, code)
    BY DEF HalfNoted
  <1> HIDE DEF u
  <1>3. CASE y < code.top
    <2>1. \A x \in Rows : ~IsEdge(im, y, x)
      <3> SUFFICES ASSUME NEW x \in Rows PROVE ~IsEdge(im, y, x)
        OBVIOUS
      <3>1. Lowering(code, x - code.left) \in {0, 1}
        BY CodeNumbers
      <3>2. x \in Int /\ y \in 0..(Size - 1)
            /\ y < code.top + Lowering(code, x - code.left)
        BY <1>0, <1>3, <3>1 DEF Rows
      <3> QED
        BY <3>2, EdgePixels
    <2>2. l = << >>
      BY <1>0, <1>3 DEF Found
    <2>3. m = << >>
      BY <2>1, <2>2, EmptyRow
    <2>4. ~(y + 1 > FirstRow(code))
      BY <1>0, <1>3
    <2> QED
      BY <1>2, <2>3, <2>4 DEF Found
  <1>4. CASE y = code.top /\ u = 1
    <2>1. l = << >>
      BY <1>0, <1>4 DEF Found
    <2>2. HalfNoted(m, code)
      BY <1>1, <1>4, <2>1, HalfRow
    <2>3. ~(y + 1 > FirstRow(code)) /\ ~(y + 1 <= code.top)
      BY <1>0, <1>4
    <2> HIDE DEF m
    <2>4. Found(y + 1, m, code)
      BY <2>2, <2>3 DEF Found
    <2> QED
      BY <2>4 DEF m
  <1>5. CASE y = FirstRow(code)
    <2>1. HalfNoted(l, code)
      BY <1>0, <1>5 DEF Found
    <2>2. Len(l) < MaxCodes
      BY <2>1, SearchAssumption DEF HalfNoted, SoundLists
    <2>3. ~Covered(l, FirstRow(code), code.left)
      <3>1. ASSUME NEW i \in 1..Len(l) PROVE ~Covers(l[i], FirstRow(code), code.left)
        <4>1. l[i] \in Sound(im)
          BY DEF SoundLists
        <4>2. l[i].x0 \in Int
          BY <1>0, <4>1 DEF Sound, Rows
        <4> QED
          BY <1>0, <2>1, <4>2 DEF HalfNoted, Covers
      <3> QED
        BY <3>1 DEF Covered
    <2>4. HasWide(m, code)
      BY <1>5, <2>1, <2>2, <2>3, FoundInRow DEF HalfNoted
    <2>5. ~(y + 1 <= FirstRow(code)) /\ ~(y + 1 <= code.top)
      BY <1>0, <1>5
    <2> HIDE DEF m
    <2>6. Found(y + 1, m, code)
      BY <2>4, <2>5 DEF Found
    <2> QED
      BY <2>6 DEF m
  <1>6. CASE y > FirstRow(code)
    <2>1. HasWide(l, code)
      BY <1>6 DEF Found
    <2>2. HasWide(m, code)
      BY <2>1, WideRow
    <2>3. ~(y + 1 <= FirstRow(code)) /\ ~(y + 1 <= code.top)
      BY <1>0, <1>6
    <2> HIDE DEF m
    <2>4. Found(y + 1, m, code)
      BY <2>2, <2>3 DEF Found
    <2> QED
      BY <2>4 DEF m
  <1> QED
    BY <1>0, <1>3, <1>4, <1>5, <1>6

(* The search notes a code that is alone as a whole.                       *)
LEMMA SearchFinds ==
  ASSUME NEW im, NEW code, Alone(im, code), Big(code)
  PROVE  HasWide(Search(im, << >>), code)
  <1>0. /\ Size \in Nat \ {0} /\ << >> \in SoundLists(im)
        /\ code.top \in Nat /\ code.top >= 2 /\ FirstRow(code) \in 1..(Size - 1)
        /\ code.top <= FirstRow(code)
    <2>1. /\ code.top \in Nat /\ code.top >= 2 /\ Lowering(code, 0) \in {0, 1}
      BY CodeNumbers
    <2> QED
      BY <2>1, SearchAssumption, AloneStands, FirstEdge DEF SoundLists, FirstRow, Beginning
  <1>1. HasWide(ScanPicture(im, 1, << >>), code)
    <2> DEFINE S == {s \in (1..Size) \X SoundLists(im) : Found(s[1], s[2], code)}
    <2>1. <<1, << >> >> \in S
      <3>1. Found(1, << >>, code)
        BY <1>0 DEF Found, HalfNoted
      <3> QED
        BY <1>0, <3>1
    <2>2. ASSUME NEW y \in 1..(Size - 1), NEW m \in Seq(Notes), <<y, m>> \in S
          PROVE  <<y + 1, ScanRow(im, 1, y, m)>> \in S
      <3>1. m \in SoundLists(im) /\ Found(y, m, code) /\ y + 1 \in 1..Size
        BY <1>0, <2>2
      <3>2. Found(y + 1, ScanRow(im, 1, y, m), code)
        BY <3>1, FoundStep
      <3>3. ScanRow(im, 1, y, m) \in SoundLists(im)
        BY <3>1, ScanRowSound
      <3> QED
        BY <3>1, <3>2, <3>3
    <2>3. S \subseteq (1..Size) \X Seq(Notes) /\ \A s \in S : Found(s[1], s[2], code)
      BY SoundListsAreNotes
    <2> HIDE DEF S
    <2>4. RowsKeep(im, 1, S)
      BY <2>2, <2>3 DEF RowsKeep
    <2>5. <<Size, ScanPicture(im, 1, << >>)>> \in S
      BY <2>1, <2>4, ScanPictureKeeps
    <2>6. Found(Size, ScanPicture(im, 1, << >>), code)
      BY <2>3, <2>5
    <2> QED
      BY <1>0, <2>6 DEF Found
  <1> DEFINE l == ScanPicture(im, 1, << >>)
  <1>2. l \in SoundLists(im)
    BY <1>0, ScanPictureSound
  <1>3. HasWide(l, code)
    BY <1>1
  <1> HIDE DEF l
  <1>4. HasWide(ScanPicture(im, -1, l), code)
    <2> DEFINE S == {s \in (1..Size) \X SoundLists(im) : HasWide(s[2], code)}
    <2>1. <<1, l>> \in S
      BY <1>0, <1>2, <1>3
    <2>2. ASSUME NEW y \in 1..(Size - 1), NEW m \in Seq(Notes), <<y, m>> \in S
          PROVE  <<y + 1, ScanRow(im, -1, y, m)>> \in S
      <3>1. m \in SoundLists(im) /\ HasWide(m, code) /\ y + 1 \in 1..Size
        BY <1>0, <2>2
      <3>2. HasWide(ScanRow(im, -1, y, m), code)
        BY <3>1, WideRow
      <3>3. ScanRow(im, -1, y, m) \in SoundLists(im)
        BY <3>1, ScanRowSound
      <3> QED
        BY <3>1, <3>2, <3>3
    <2>3. S \subseteq (1..Size) \X Seq(Notes) /\ \A s \in S : HasWide(s[2], code)
      BY SoundListsAreNotes
    <2> HIDE DEF S
    <2>4. RowsKeep(im, -1, S)
      BY <2>2, <2>3 DEF RowsKeep
    <2>5. <<Size, ScanPicture(im, -1, l)>> \in S
      BY <2>1, <2>4, ScanPictureKeeps
    <2> QED
      BY <2>3, <2>5
  <1> QED
    BY <1>4 DEF Search, l

(* What is reported of a note of the whole code, when none is wider.       *)
LEMMA WideReported ==
  ASSUME NEW im, NEW code, code.left \in Nat, code.w \in Nat,
         NEW l \in SoundLists(im), HasWide(l, code),
         \A m \in 1..Len(l) : l[m].dx <= code.w
  PROVE  ReportOf(l) = [x |-> (2 * code.left + code.w) \div 2, width |-> code.w]
  <1>0. code.left \in Nat /\ code.w \in Nat
    OBVIOUS
  <1>1. PICK q \in 1..Len(l) :
          /\ l[q].x0 = code.left /\ l[q].x1 = code.left + code.w /\ l[q].dx = code.w
          /\ \A m \in 1..(q - 1) : l[m].dx < code.w
    BY DEF HasWide
  <1>2. Len(l) \in Nat /\ l # << >>
    BY DEF SoundLists
  <1>3. PICK n \in 1..Len(l) :
          /\ l[n] \in Sound(im)
          /\ \A m \in 1..Len(l) : l[m].dx <= l[n].dx
          /\ \A m \in 1..(n - 1) : l[m].dx < l[n].dx
          /\ ReportOf(l) = [x |-> (l[n].x1 + l[n].x0) \div 2, width |-> l[n].dx]
    BY <1>2, WidestReported
  <1>4. l[n].dx <= code.w /\ l[n].dx \in Nat
    <2>1. Size \in Nat /\ MinL \in Nat /\ l[n].dx \in (MinL + 1)..Size
      BY <1>3, SearchAssumption DEF Sound
    <2> QED
      BY <2>1
  <1>5. l[n].dx = code.w
    <2>1. l[q].dx <= l[n].dx
      BY <1>3
    <2> QED
      BY <1>0, <1>1, <1>4, <2>1
  <1>6. ~(n < q)
    <2> SUFFICES ASSUME n < q PROVE FALSE
      OBVIOUS
    <2>1. n \in 1..(q - 1)
      BY <1>2
    <2>2. l[n].dx < code.w
      BY <1>1, <2>1
    <2> QED
      BY <1>0, <1>5, <2>2
  <1>7. ~(q < n)
    <2> SUFFICES ASSUME q < n PROVE FALSE
      OBVIOUS
    <2>1. q \in 1..(n - 1)
      BY <1>2
    <2>2. l[q].dx < l[n].dx
      BY <1>3, <2>1
    <2> QED
      BY <1>0, <1>1, <1>5, <2>2
  <1>8. n = q
    BY <1>2, <1>6, <1>7
  <1>9. (code.left + code.w) + code.left = 2 * code.left + code.w
    BY <1>0
  <1>10. ReportOf(l) = [x |-> (l[n].x1 + l[n].x0) \div 2, width |-> l[n].dx]
    BY <1>3
  <1>11. l[n].x1 + l[n].x0 = 2 * code.left + code.w
    BY <1>1, <1>8, <1>9
  <1> QED
    BY <1>5, <1>10, <1>11

(* Nothing is noted of a code that is too small.                           *)
LEMMA SmallNotNoted ==
  ASSUME NEW im, NEW code, Alone(im, code),
         code.w <= MinL \/ code.h + code.drop * code.drop <= MinL
  PROVE  Sound(im) = {}
  <1> SUFFICES ASSUME NEW n \in Sound(im) PROVE FALSE
    OBVIOUS
  <1>0. /\ code.left \in Nat /\ code.top \in Nat /\ code.w \in Nat /\ code.h \in Nat
        /\ code.drop \in {-1, 0, 1} /\ MinL \in Nat \ {0} /\ Size \in Nat
    BY CodeNumbers
  <1>1. n.dx <= code.w /\ n.dx \in Nat /\ n.dx > MinL /\ Low(im)
    <2>1. n.dx <= code.w /\ n.dx \in Nat /\ Low(im)
      BY NotesNarrow
    <2>2. n.dx \in (MinL + 1)..Size
      BY DEF Sound
    <2> QED
      BY <1>0, <2>1, <2>2
  <1>2. CASE code.w <= MinL
    BY <1>0, <1>1, <1>2
  <1>3. CASE code.h + code.drop * code.drop <= MinL
    <2> DEFINE v == code.drop * code.drop
    <2>1. PICK r \in Rows, c \in Rows, e \in Rows :
            <<r, e>> \in im.white /\ \A k \in 1..MinL : <<r + k, c>> \in im.white
      BY <1>1 DEF Sound
    <2>2. r \in Int /\ c \in Int /\ e \in Int /\ r + MinL \in Int /\ MinL \in 1..MinL
      BY <1>0 DEF Rows
    <2>3. <<r + MinL, c>> \in im.white
      BY <2>1, <2>2
    <2>4. Within(code, r, e) /\ Within(code, r + MinL, c)
      BY <2>1, <2>2, <2>3 DEF Alone
    <2> DEFINE a == Lowering(code, e - code.left)
               b == Lowering(code, c - code.left)
    <2>5. /\ r - code.top - a \in 0..(code.h - 1)
          /\ (r + MinL) - code.top - b \in 0..(code.h - 1)
      BY <2>4 DEF Within
    <2>6. a \in {0, 1} /\ b \in {0, 1} /\ (code.drop = 0 => b = 0)
      BY CodeNumbers
    <2>7. v \in {0, 1} /\ (code.drop # 0 => v = 1)
      BY <1>0
    <2> HIDE DEF a, b, v
    <2>8. code.h + v <= MinL
      BY <1>3 DEF v
    <2> QED
      BY <1>0, <2>2, <2>5, <2>6, <2>7, <2>8
  <1> QED
    BY <1>2, <1>3

(* A code that is alone in the picture, of any size, at any place and      *)
(* slanted to either side, is reported at its place and as wide as it is   *)
(* (QR_Posing.c:82-336); if it is too small nothing is reported.           *)
THEOREM SingleCodeIsReported == Spec => []SingleCodeReported
  <1>1. IInv => SingleCodeReported
    <2> DEFINE P == pictures[frame]
    <2> SUFFICES ASSUME IInv, pose = "return", Clear(P), NEW code \in P, P = {code}
                 PROVE  /\ code.w > MinL /\ code.h > MinL + 1
                             => report = [x |-> (2 * code.left + code.w) \div 2,
                                          width |-> code.w]
                        /\ code.w <= MinL \/ code.h + code.drop * code.drop <= MinL
                             => report = Nothing
      BY DEF SingleCodeReported
    <2>1. PICK im \in Converted(P) :
            l1 = Search(im, << >>) /\ l1 \in SoundLists(im) /\ report = ReportOf(l1)
      BY ReturnState
    <2>2. P \in Pictures
      BY ReturnState
    <2> HIDE DEF P
    <2>3. /\ code \in Codes /\ code.left + code.w <= Size
          /\ code.top >= TopMargin /\ code.top + code.h + code.drop * code.drop < Size
      BY <2>2, PipelineAssumption DEF Clear, Below
    <2>4. im.white = Pixels({code})
      BY DEF Converted
    <2>5. Alone(im, code)
      BY <2>3, <2>4, PixelsOfOne DEF Alone
    <2>6. ASSUME code.w > MinL, code.h > MinL + 1
          PROVE  report = [x |-> (2 * code.left + code.w) \div 2, width |-> code.w]
      <3>1. HasWide(l1, code)
        BY <2>1, <2>5, <2>6, SearchFinds DEF Big
      <3>2. code.left \in Nat /\ code.w \in Nat
        BY <2>5, CodeNumbers
      <3>3. \A m \in 1..Len(l1) : l1[m] \in Sound(im)
        BY <2>1 DEF SoundLists
      <3>4. \A m \in 1..Len(l1) : l1[m].dx <= code.w
        BY <2>5, <3>3, NotesNarrow
      <3> QED
        BY <2>1, <3>1, <3>2, <3>4, WideReported
    <2>7. ASSUME code.w <= MinL \/ code.h + code.drop * code.drop <= MinL
          PROVE  report = Nothing
      <3>1. Sound(im) = {}
        BY <2>5, <2>7, SmallNotNoted
      <3>2. l1 = << >>
        BY <2>1, <3>1 DEF SoundLists
      <3> QED
        BY <2>1, <3>2, NothingNoted
    <2> QED
      BY <2>6, <2>7
  <1> QED
    BY <1>1, PipelineInvariant, PTL

-----------------------------------------------------------------------------
(* The search: separate codes are not mixed up *)

(* The invariant of TopLine from a pixel of a code that stands by itself:  *)
(* it stays on the code, and descends only where the code does.            *)
OnCode(code, y, x, d) ==
  {s \in Nat \X Nat :
     /\ s[1] >= 1 /\ Within(code, y + s[2], x + d * (s[1] - 1))
     /\ s[2] = 0 \/ (s[2] = 1 /\ y = code.top)}

(* A round of TopLine keeps it.                                            *)
LEMMA TopStepInside ==
  ASSUME NEW im, NEW code, Stands(im, code),
         NEW y \in Nat, NEW x \in Int, NEW d \in {1, -1}, NEW s \in OnCode(code, y, x, d)
  PROVE  TopStep(im, y, x, d)[s] \in OnCode(code, y, x, d)
  <1> DEFINE i == s[1]
             j == s[2]
             c == x + d * i
             p == x + d * (i - 1)
             u == Lowering(code, p - code.left)
             v == Lowering(code, c - code.left)
             B == Below(code)
             t == TopStep(im, y, x, d)[s]
  <1>0. /\ code.left \in Nat /\ code.top \in Nat /\ code.w \in Nat /\ code.h \in Nat
        /\ TopMargin \in Nat /\ TopMargin >= 2 /\ B \in Nat
        /\ u \in {0, 1} /\ v \in {0, 1}
        /\ code.top + code.h + u <= B /\ code.top + code.h + v <= B
    BY StandsNumbers
  <1>1. /\ s \in Nat \X Nat /\ i \in Nat /\ j \in Nat /\ s = <<i, j>> /\ i >= 1
        /\ j = 0 \/ (j = 1 /\ y = code.top)
        /\ p - code.left \in 0..(code.w - 1)
        /\ (y + j) - code.top - u \in 0..(code.h - 1)
    <2>1. /\ s \in Nat \X Nat /\ i >= 1 /\ Within(code, y + j, p)
          /\ j = 0 \/ (j = 1 /\ y = code.top)
      BY DEF OnCode
    <2>2. i \in Nat /\ j \in Nat /\ s = <<i, j>>
      BY <2>1
    <2> HIDE DEF i, j, p
    <2>3. p - code.left \in 0..(code.w - 1) /\ (y + j) - code.top - u \in 0..(code.h - 1)
      BY <2>1 DEF Within
    <2> QED
      BY <2>1, <2>2, <2>3
  <1>2. /\ t = s \/ (IsEdge(im, y + j, c) /\ t = <<i + 1, j>>)
           \/ (~IsEdge(im, y + j, c) /\ IsEdge(im, y + j + 1, c) /\ t = <<i + 1, j + 1>>)
    BY <1>1 DEF TopStep
  <1>3. c \in (code.left - 1)..(code.left + code.w) /\ p \in Int /\ x + d * ((i + 1) - 1) = c
    <2>1. CASE d = 1
      BY <1>0, <1>1, <2>1
    <2>2. CASE d = -1
      BY <1>0, <1>1, <2>2
    <2> QED
      BY <2>1, <2>2
  <1> HIDE DEF i, j, c, p, u, v, B, t
  <1>4. y + j \in code.top..B /\ y + j + 1 \in code.top..B
    BY <1>0, <1>1
  <1>5. ASSUME NEW q \in Nat, y + q \in code.top..B, IsEdge(im, y + q, c), t = <<i + 1, q>>,
               q = 0 \/ (q = 1 /\ y = code.top)
        PROVE  t \in OnCode(code, y, x, d)
    <2> DEFINE r == y + q
    <2>1. r \in code.top..B /\ IsEdge(im, r, c)
      BY <1>5
    <2> HIDE DEF r
    <2>2. /\ c - code.left \in 0..(code.w - 1)
          /\ r - code.top - Lowering(code, c - code.left) \in 0..(code.h - 1)
      BY <1>3, <2>1, NearEdges DEF B
    <2>3. Within(code, r, c)
      BY <2>2 DEF Within
    <2>4. t \in Nat \X Nat /\ t[1] = i + 1 /\ t[2] = q /\ i + 1 >= 1
      BY <1>1, <1>5
    <2>5. Within(code, y + t[2], x + d * (t[1] - 1))
      BY <1>3, <2>4, <2>3 DEF r
    <2> QED
      BY <1>5, <2>4, <2>5 DEF OnCode
  <1>6. CASE t = s
    BY <1>6 DEF t
  <1>7. CASE IsEdge(im, y + j, c) /\ t = <<i + 1, j>>
    <2>1. t \in OnCode(code, y, x, d)
      BY <1>1, <1>4, <1>5, <1>7
    <2> QED
      BY <2>1 DEF t
  <1>8. CASE ~IsEdge(im, y + j, c) /\ IsEdge(im, y + j + 1, c) /\ t = <<i + 1, j + 1>>
    <2>1. /\ c - code.left \in 0..(code.w - 1)
          /\ (y + j + 1) - code.top - v \in 0..(code.h - 1)
          /\ (y + j + 1) - code.top - v < TopMargin
      BY <1>3, <1>4, <1>8, NearEdges DEF B, v
    <2>2. ~(/\ c - code.left \in 0..(code.w - 1)
            /\ (y + j) - code.top - v \in 0..(code.h - 1)
            /\ (y + j) - code.top - v < TopMargin)
      BY <1>3, <1>4, <1>8, NearEdges DEF B, v
    <2>3. j = 0 /\ y = code.top
      BY <1>0, <1>1, <1>4, <2>1, <2>2
    <2>4. j + 1 \in Nat /\ y + (j + 1) = y + j + 1 /\ j + 1 = 1
      BY <1>1, <2>3
    <2>5. t \in OnCode(code, y, x, d)
      BY <1>4, <1>5, <1>8, <2>3, <2>4
    <2> QED
      BY <2>5 DEF t
  <1> QED
    BY <1>2, <1>6, <1>7, <1>8

(* The edge and the side that are followed from a pixel of a code that     *)
(* stands by itself are its own.                                           *)
LEMMA EdgeInside ==
  ASSUME NEW im, Low(im), NEW code, Stands(im, code),
         NEW y \in 1..(Size - 1), NEW x \in Rows, NEW d \in {1, -1},
         IsEdge(im, y, x), Within(code, y, x)
  PROVE  LET dx == EdgeAt(im, y, x, d)
             j == DropAt(im, y, x, d)
             dy == SideAt(im, y, x, d)
         IN  /\ dx \in 1..code.w /\ j \in {0, 1} /\ dy \in Nat \ {0}
             /\ x \in code.left..(code.left + code.w - 1)
             /\ y >= code.top
             /\ d = 1 => x + dx <= code.left + code.w
             /\ d = -1 => x - dx >= code.left - 1
             /\ dx > MinL => y + j + dy <= Below(code)
  <1> DEFINE dx == EdgeAt(im, y, x, d)
             j == DropAt(im, y, x, d)
             dy == SideAt(im, y, x, d)
             c == x + d * (dx - Stepback)
             e == x + d * (dx - 1)
             B == Below(code)
             S == OnCode(code, y, x, d)
  <1>0. /\ code.left \in Nat /\ code.top \in Nat /\ code.w \in Nat /\ code.h \in Nat
        /\ MinL \in Nat \ {0} /\ Stepback \in 1..MinL /\ B \in Nat /\ B < Size
        /\ \A k : Lowering(code, k) \in {0, 1} /\ code.top + code.h + Lowering(code, k) <= B
        /\ x \in Int /\ y \in Nat /\ Size \in Nat
    BY StandsNumbers DEF Rows
  <1>1. TopLine(im, y, x, d) \in S
    <2>1. <<1, 0>> \in S
      <3>1. y + 0 = y /\ x + d * (1 - 1) = x
        BY <1>0
      <3> QED
        BY <3>1 DEF OnCode
    <2>2. \A s \in S : TopStep(im, y, x, d)[s] \in S
      BY <1>0, TopStepInside
    <2> HIDE DEF S
    <2>3. Rounds(TopStep(im, y, x, d), <<1, 0>>, Size) \in S
      BY <1>0, <2>1, <2>2, RoundsStep
    <2> QED
      BY <2>3 DEF TopLine
  <1>2. /\ dx \in Nat /\ j \in Nat /\ dx >= 1
        /\ Within(code, y + j, e)
        /\ j = 0 \/ (j = 1 /\ y = code.top)
    BY <1>1 DEF OnCode, EdgeAt, DropAt
  <1>3. /\ x - code.left \in 0..(code.w - 1)
        /\ e - code.left \in 0..(code.w - 1)
        /\ y - code.top - Lowering(code, x - code.left) \in 0..(code.h - 1)
        /\ (y + j) - code.top - Lowering(code, e - code.left) \in 0..(code.h - 1)
    BY <1>2 DEF Within
  <1>4. /\ c \in Int /\ y + j \in Nat /\ Size - y + j \in Nat \ {0} /\ dy \in Nat \ {0}
    BY EdgeNumbers
  <1>5. dy \in DownSide(im, y + j, c, Size - y + j)
    BY <1>4, SideLineSound DEF SideAt
  <1>6. Low(im) /\ y + j < Size - 1 =>
          \A k \in 1..(dy - 1) : <<y + j + k, c>> \in im.white
    BY <1>5 DEF DownSide
  <1> HIDE DEF dx, j, dy, S, B
  <1>7. /\ d = 1 => x + dx <= code.left + code.w
        /\ d = -1 => x - dx >= code.left - 1
        /\ dx <= code.w
        /\ dx > MinL => c \in code.left..(code.left + code.w - 1)
    <2>1. CASE d = 1
      BY <1>0, <1>2, <1>3, <2>1
    <2>2. CASE d = -1
      BY <1>0, <1>2, <1>3, <2>2
    <2> QED
      BY <2>1, <2>2
  <1>8. y >= code.top /\ y + j < B /\ y + j >= code.top /\ B < Size
    <2> DEFINE a == Lowering(code, x - code.left)
               b == Lowering(code, e - code.left)
    <2>1. /\ a \in {0, 1} /\ b \in {0, 1} /\ code.top + code.h + b <= B
          /\ y - code.top - a \in 0..(code.h - 1) /\ (y + j) - code.top - b \in 0..(code.h - 1)
      BY <1>0, <1>3
    <2> HIDE DEF a, b
    <2> QED
      BY <1>0, <1>2, <2>1
  <1>9. ASSUME dx > MinL PROVE y + j + dy <= B
    <2> SUFFICES ASSUME y + j + dy > B PROVE FALSE
      BY <1>0, <1>2, <1>4
    <2> DEFINE k == B - (y + j)
    <2>1. k \in 1..(dy - 1) /\ y + j + k = B
      BY <1>0, <1>2, <1>4, <1>8
    <2>2. <<B, c>> \in im.white
      BY <1>0, <1>2, <1>6, <1>8, <2>1
    <2>3. /\ c \in (code.left - 1)..(code.left + code.w) /\ B \in code.top..B
          /\ B \in (code.top - TopMargin)..B
      BY <1>0, <1>2, <1>4, <1>7, <1>8, <1>9, StandsNumbers
    <2>4. Within(code, B, c)
      BY <2>2, <2>3 DEF Stands, B
    <2> DEFINE a == Lowering(code, c - code.left)
    <2>5. a \in {0, 1} /\ code.top + code.h + a <= B /\ B - code.top - a \in 0..(code.h - 1)
      BY <1>0, <2>4 DEF Within
    <2> HIDE DEF a
    <2> QED
      BY <1>0, <2>5
  <1>10. x \in code.left..(code.left + code.w - 1) /\ j \in {0, 1} /\ dx \in 1..code.w
    BY <1>0, <1>2, <1>3, <1>7
  <1> QED
    BY <1>4, <1>7, <1>8, <1>9, <1>10 DEF dx, j, dy, B

(* A picture of separate codes, each of which stands by itself.            *)
Apart(im, P) ==
  /\ Low(im) /\ Separate(P)
  /\ \A code \in P : Stands(im, code)
  /\ \A r, c \in Int : <<r, c>> \in im.white => \E code \in P : Within(code, r, c)

(* The rows of a code.                                                     *)
LEMMA WithinRows ==
  ASSUME NEW code \in Codes, NEW r \in Int, NEW c \in Int, Within(code, r, c)
  PROVE  /\ c \in code.left..(code.left + code.w - 1)
         /\ r >= code.top /\ r < Below(code)
         /\ Below(code) \in Int
  <1> DEFINE u == Lowering(code, c - code.left)
             v == code.drop * code.drop
  <1>0. /\ code.left \in Nat /\ code.top \in Nat /\ code.w \in Nat /\ code.h \in Nat
        /\ code.drop \in {-1, 0, 1}
    BY DEF Codes
  <1>1. u \in {0, 1} /\ v \in {0, 1} /\ (code.drop = 0 => u = 0) /\ (code.drop # 0 => v = 1)
    BY <1>0 DEF Lowering, Lowered
  <1>2. c - code.left \in 0..(code.w - 1) /\ r - code.top - u \in 0..(code.h - 1)
    BY DEF Within
  <1>3. Below(code) = code.top + code.h + v
    BY DEF Below
  <1> HIDE DEF u, v
  <1> QED
    BY <1>0, <1>1, <1>2, <1>3

(* The pictures of the property are such pictures.                         *)
LEMMA PictureApart ==
  ASSUME NEW P \in Pictures, NEW im \in Converted(P), Clear(P), Separate(P)
  PROVE  Apart(im, P)
  <1>0. /\ Size \in Nat /\ TopMargin \in Nat /\ TopMargin >= 2
    BY SearchAssumption
  <1>1. ASSUME NEW code \in P
        PROVE  /\ code \in Codes /\ code.left + code.w <= Size
               /\ code.top >= TopMargin /\ Below(code) < Size
    BY PipelineAssumption DEF Clear
  <1>2. Low(im)
    BY <1>1, LowPicture DEF Below
  <1>3. ASSUME NEW r \in Int, NEW c \in Int
        PROVE  <<r, c>> \in im.white <=> \E code \in P : Within(code, r, c)
    <2>1. <<r, c>> \in im.white <=> \E code \in P : <<r, c>> \in Pixels({code})
      BY DEF Converted, Pixels
    <2> QED
      BY <1>1, <2>1, PixelsOfOne
  <1>4. ASSUME NEW code \in P PROVE Stands(im, code)
    <2>0. /\ code.left \in Nat /\ code.top \in Nat /\ code.w \in Nat /\ code.h \in Nat
          /\ Below(code) \in Int
      BY <1>1 DEF Codes, Below
    <2>1. ASSUME NEW r \in (code.top - TopMargin)..Below(code),
                 NEW c \in (code.left - 1)..(code.left + code.w),
                 NEW other \in P, Within(other, r, c), other # code
          PROVE  FALSE
      <3>1. /\ other.left \in Nat /\ other.top \in Nat /\ other.w \in Nat
            /\ r \in Int /\ c \in Int
        BY <1>0, <1>1, <2>0 DEF Codes
      <3>2. /\ c \in other.left..(other.left + other.w - 1)
            /\ r >= other.top /\ r < Below(other) /\ Below(other) \in Int
        BY <1>1, <2>1, <3>1, WithinRows
      <3>3. \/ code.left + code.w < other.left \/ other.left + other.w < code.left
            \/ Below(code) + TopMargin <= other.top \/ Below(other) + TopMargin <= code.top
        BY <2>1 DEF Separate
      <3> QED
        BY <1>0, <2>0, <3>1, <3>2, <3>3
    <2>2. ASSUME NEW r \in (code.top - TopMargin)..Below(code),
                 NEW c \in (code.left - 1)..(code.left + code.w)
          PROVE  <<r, c>> \in im.white <=> Within(code, r, c)
      <3>1. r \in Int /\ c \in Int
        BY <1>0, <2>0
      <3> QED
        BY <1>3, <2>1, <3>1
    <2> QED
      BY <1>1, <2>2 DEF Stands
  <1> QED
    BY <1>2, <1>3, <1>4 DEF Apart

(* Every pixel of an edge belongs to a code.                               *)
LEMMA Owner ==
  ASSUME NEW im, NEW P, Apart(im, P), NEW y \in 1..(Size - 1), NEW x \in Rows,
         IsEdge(im, y, x)
  PROVE  \E code \in P : Within(code, y, x) /\ Stands(im, code)
  <1>1. y \in Rows /\ y \in Int /\ x \in Int
    BY SearchAssumption DEF Rows
  <1>2. <<y, x>> \in im.white
    BY <1>1, EdgeIsWhite
  <1> QED
    BY <1>1, <1>2 DEF Apart

(* A note of a part of a code, or of all of it.                            *)
Part(n, code) ==
  /\ n.dx \in (MinL + 1)..code.w
  /\ n.x0 \in code.left..(code.left + code.w - 1)
  /\ IF n.f THEN n.x1 = n.x0 - n.dx /\ n.x1 >= code.left - 1
            ELSE n.x1 = n.x0 + n.dx /\ n.x1 <= code.left + code.w
  /\ n.y0 >= code.top /\ n.y3 <= Below(code) + 1 /\ n.y3 > n.y0 + 1
  /\ Below(code) - code.top > MinL

(* The note of an edge is a part of the code on which the edge begins.     *)
LEMMA NotePart ==
  ASSUME NEW im, Low(im), NEW code, Stands(im, code),
         NEW y \in 1..(Size - 1), NEW x \in Rows, NEW d \in {1, -1},
         IsEdge(im, y, x), Within(code, y, x),
         EdgeAt(im, y, x, d) > MinL, SideAt(im, y, x, d) > MinL
  PROVE  LET n == NoteAt(im, y, x, d)
         IN  /\ Part(n, code)
             /\ n.f = (d = -1) /\ n.x0 = x /\ n.y0 = y
  <1> DEFINE dx == EdgeAt(im, y, x, d)
             j == DropAt(im, y, x, d)
             dy == SideAt(im, y, x, d)
             n == NoteAt(im, y, x, d)
             B == Below(code)
  <1>0. /\ code.left \in Nat /\ code.top \in Nat /\ code.w \in Nat /\ B \in Nat
        /\ MinL \in Nat \ {0} /\ Size \in Nat /\ x \in Int
    BY StandsNumbers DEF Rows
  <1>1. /\ dx \in 1..code.w /\ j \in {0, 1} /\ dy \in Nat \ {0}
        /\ x \in code.left..(code.left + code.w - 1)
        /\ y >= code.top
        /\ d = 1 => x + dx <= code.left + code.w
        /\ d = -1 => x - dx >= code.left - 1
        /\ y + j + dy <= B
    BY EdgeInside
  <1>2. n = [f |-> d = -1, x0 |-> x, y0 |-> y, x1 |-> x + d * dx,
             y3 |-> y + 2 * j + dy, dx |-> dx]
    BY DEF NoteAt, Corners
  <1>3. dx > MinL /\ dy > MinL
    OBVIOUS
  <1> HIDE DEF dx, j, dy, n, B
  <1>4. /\ n.f = (d = -1) /\ n.x0 = x /\ n.y0 = y /\ n.x1 = x + d * dx
        /\ n.y3 = y + 2 * j + dy /\ n.dx = dx
    BY <1>2
  <1>5. /\ n.dx \in (MinL + 1)..code.w /\ n.y0 >= code.top
        /\ n.y3 <= B + 1 /\ n.y3 > n.y0 + 1 /\ B - code.top > MinL
    BY <1>0, <1>1, <1>3, <1>4
  <1>6. IF n.f THEN n.x1 = n.x0 - n.dx /\ n.x1 >= code.left - 1
               ELSE n.x1 = n.x0 + n.dx /\ n.x1 <= code.left + code.w
    <2>1. CASE d = 1
      <3>0. (d = -1) = FALSE
        BY <2>1
      <3>1. n.f = FALSE
        BY <1>4, <3>0
      <3>2. n.x1 = n.x0 + n.dx /\ n.x1 <= code.left + code.w
        BY <1>0, <1>1, <1>4, <2>1
      <3> QED
        BY <3>1, <3>2
    <2>2. CASE d = -1
      <3>1. n.f = TRUE
        BY <1>2, <2>2
      <3>2. n.x1 = n.x0 - n.dx /\ n.x1 >= code.left - 1
        BY <1>0, <1>1, <1>4, <2>2
      <3> QED
        BY <3>1, <3>2
    <2> QED
      BY <2>1, <2>2
  <1>7. Part(n, code)
    BY <1>1, <1>4, <1>5, <1>6 DEF Part, B
  <1> QED
    BY <1>4, <1>7 DEF n

(* Every note is a part of a code.                                         *)
LEMMA NoteOwned ==
  ASSUME NEW im, NEW P, Apart(im, P), NEW n \in Sound(im)
  PROVE  \E code \in P : Stands(im, code) /\ Part(n, code)
  <1>1. PICK y \in 1..(Size - 1), x \in Rows, d \in {1, -1} :
          /\ IsEdge(im, y, x) /\ EdgeAt(im, y, x, d) > MinL /\ SideAt(im, y, x, d) > MinL
          /\ n = NoteAt(im, y, x, d)
    BY DEF Sound, Drawn
  <1>2. PICK code \in P : Within(code, y, x) /\ Stands(im, code)
    BY <1>1, Owner
  <1>3. Part(NoteAt(im, y, x, d), code)
    BY <1>1, <1>2, NotePart DEF Apart
  <1> QED
    BY <1>1, <1>2, <1>3

-----------------------------------------------------------------------------
(* The search: the widest of separate codes is found *)

(* The code is wider than all others.                                      *)
Strict(code, P) == \A other \in P \ {code} : other.w < code.w

(* A note that does not keep the scan from left to right from finding the  *)
(* left end of the code, and the report from being of it.                  *)
Aside(n, code, P) ==
  /\ ~n.f
  /\ ~Covers(n, FirstRow(code), code.left) /\ ~Covers(n, FirstRow(code) + 1, code.left)
  /\ Strict(code, P) => n.dx < code.w

AsideList(l, code, P) == \A i \in 1..Len(l) : Aside(l[i], code, P)

(* There is a note that covers all of a code in row y.                     *)
Noted(l, code, y) ==
  \E q \in 1..Len(l) :
    /\ ~l[q].f /\ l[q].x0 = code.left /\ l[q].x1 = code.left + code.w
    /\ l[q].y0 <= y /\ y <= l[q].y3

(* The code was noted as a whole in row y.                                 *)
Whole(l, code, P, y) ==
  /\ Noted(l, code, y) /\ Noted(l, code, y + 1)
  /\ Strict(code, P) => HasWide(l, code)

(* What is known of the notes stays true when there is one more.           *)
LEMMA NotesKept ==
  ASSUME NEW S, NEW l \in Seq(S), NEW n \in S, NEW code, NEW P, NEW y
  PROVE  /\ AsideList(l, code, P) /\ Aside(n, code, P) => AsideList(Append(l, n), code, P)
         /\ Noted(l, code, y) => Noted(Append(l, n), code, y)
         /\ Whole(l, code, P, y) => Whole(Append(l, n), code, P, y)
  <1> DEFINE t == Append(l, n)
  <1>1. /\ Len(l) \in Nat /\ Len(t) = Len(l) + 1 /\ t[Len(l) + 1] = n
        /\ \A m \in 1..Len(l) : t[m] = l[m]
    OBVIOUS
  <1>2. HasWide(l, code) => HasWide(t, code)
    BY WideKept
  <1> HIDE DEF t
  <1>3. /\ \A m \in 1..Len(l) : m \in 1..Len(t)
        /\ \A m \in 1..Len(t) : m \in 1..Len(l) \/ m = Len(l) + 1
    BY <1>1
  <1>4. AsideList(l, code, P) /\ Aside(n, code, P) => AsideList(t, code, P)
    BY <1>1, <1>3 DEF AsideList
  <1>5. ASSUME NEW z, Noted(l, code, z) PROVE Noted(t, code, z)
    <2>1. PICK q \in 1..Len(l) :
            /\ ~l[q].f /\ l[q].x0 = code.left /\ l[q].x1 = code.left + code.w
            /\ l[q].y0 <= z /\ z <= l[q].y3
      BY <1>5 DEF Noted
    <2>2. q \in 1..Len(t) /\ t[q] = l[q]
      BY <1>1, <1>3
    <2> QED
      BY <2>1, <2>2 DEF Noted
  <1>6. Whole(l, code, P, y) => Whole(t, code, P, y)
    BY <1>2, <1>5 DEF Whole
  <1> QED
    BY <1>4, <1>5, <1>6 DEF t

(* What is noted before the code is found, or beside it, is aside of it.   *)
LEMMA NoteAside ==
  ASSUME NEW im, NEW P, Apart(im, P), NEW code \in P,
         NEW y \in 1..(Size - 1), NEW x \in Rows, IsEdge(im, y, x),
         EdgeAt(im, y, x, 1) > MinL, SideAt(im, y, x, 1) > MinL,
         y < FirstRow(code) \/ (y <= FirstRow(code) + 1 /\ x # code.left)
  PROVE  Aside(NoteAt(im, y, x, 1), code, P)
  <1> DEFINE n == NoteAt(im, y, x, 1)
             F == FirstRow(code)
             L == Lowering(code, 0)
  <1>1. PICK owner \in P : Within(owner, y, x) /\ Stands(im, owner)
    BY Owner
  <1>2. Low(im) /\ Stands(im, code)
    BY DEF Apart
  <1>3. Part(n, owner) /\ n.f = (1 = -1) /\ n.x0 = x /\ n.y0 = y
    BY <1>1, <1>2, NotePart
  <1>4. ~n.f /\ n.y3 \in Int
    <2>1. (1 = -1) = FALSE
      OBVIOUS
    <2>2. n \in Sound(im)
      BY NoteIsSound
    <2>3. n.y3 \in Int
      BY <2>2 DEF Sound, Notes
    <2> QED
      BY <1>3, <2>1, <2>3
  <1> HIDE DEF n
  <1>5. /\ n.dx \in (MinL + 1)..owner.w /\ n.dx \in Nat
        /\ x \in owner.left..(owner.left + owner.w - 1)
        /\ n.x1 = x + n.dx /\ n.x1 <= owner.left + owner.w
        /\ y >= owner.top /\ n.y3 <= Below(owner) + 1 /\ n.y3 > y + 1
    <2>1. MinL \in Nat /\ owner.w \in Nat
      BY <1>1, StandsNumbers
    <2> QED
      BY <1>3, <1>4, <2>1 DEF Part
  <1>6. /\ owner.left \in Nat /\ owner.top \in Nat /\ owner.w \in Nat /\ Below(owner) \in Nat
        /\ code.left \in Nat /\ code.top \in Nat /\ code.w \in Nat /\ Below(code) \in Nat
        /\ code.h \in Nat \ {0} /\ L \in {0, 1} /\ code.top + code.h + L <= Below(code)
        /\ F = code.top + L /\ TopMargin \in Nat /\ TopMargin >= 2
        /\ x \in Int /\ y \in Int /\ Size \in Nat
    BY <1>1, <1>2, StandsNumbers DEF FirstRow, Rows
  <1>7. \A r : Covers(n, r, code.left)
                 <=> x <= code.left /\ code.left <= n.x1 /\ y <= r /\ r <= n.y3
    BY <1>3, <1>4 DEF Covers
  <1>8. CASE owner = code
    <2>1. x # code.left
      <3> SUFFICES ASSUME x = code.left, y < F PROVE FALSE
        OBVIOUS
      <3>1. x - code.left = 0
        BY <1>6
      <3>2. y - code.top - L \in 0..(code.h - 1)
        BY <1>1, <1>8, <3>1 DEF Within
      <3> HIDE DEF L
      <3> QED
        BY <1>6, <3>2
    <2>2. x > code.left
      BY <1>5, <1>6, <1>8, <2>1
    <2>3. n.dx < code.w
      BY <1>5, <1>6, <1>8, <2>2
    <2>4. ~Covers(n, F, code.left) /\ ~Covers(n, F + 1, code.left)
      BY <1>6, <1>7, <2>2
    <2> QED
      BY <1>4, <2>3, <2>4 DEF Aside, n
  <1>9. CASE owner # code
    <2>1. Strict(code, P) => n.dx < code.w
      BY <1>5, <1>6, <1>9 DEF Strict
    <2>2. \/ code.left + code.w < owner.left \/ owner.left + owner.w < code.left
          \/ Below(code) + TopMargin <= owner.top \/ Below(owner) + TopMargin <= code.top
      BY <1>9 DEF Apart, Separate
    <2> HIDE DEF L, F
    <2>3. \A r \in {F, F + 1} : ~Covers(n, r, code.left)
      BY <1>4, <1>5, <1>6, <1>7, <2>2
    <2> QED
      BY <1>4, <2>1, <2>3 DEF Aside, n, F
  <1> QED
    BY <1>8, <1>9

(* What is noted at the left end of the code, when it is found.            *)
LEMMA NoteWhole ==
  ASSUME NEW im, NEW P, Apart(im, P), NEW code \in P, Big(code),
         NEW y, Beginning(code, y),
         NEW l \in Seq(Sound(im)), AsideList(l, code, P)
  PROVE  Whole(Append(l, NoteAt(im, y, code.left, 1)), code, P, y)
  <1> DEFINE n == NoteAt(im, y, code.left, 1)
             t == Append(l, n)
             q == Len(l) + 1
  <1>1. Stands(im, code) /\ Low(im)
    BY DEF Apart
  <1>2. /\ y \in 1..(Size - 1) /\ code.left \in Rows
        /\ IsEdge(im, y, code.left)
        /\ EdgeAt(im, y, code.left, 1) = code.w
        /\ SideAt(im, y, code.left, 1) > MinL
    BY <1>1, FirstEdge
  <1>3. /\ code.left \in Nat /\ code.w \in Nat \ {0} /\ code.top \in Nat /\ code.w > MinL
        /\ Size \in Nat /\ y \in Int /\ Below(code) \in Nat /\ MinL \in Nat \ {0}
    BY <1>1, <1>2, StandsNumbers DEF Big
  <1>4. n \in Sound(im)
    BY <1>2, <1>3, NoteIsSound
  <1>5. /\ n.x0 = code.left /\ n.y0 = y /\ n.x1 = code.left + code.w /\ n.dx = code.w
        /\ n.f = (1 = -1)
    BY <1>2, <1>3 DEF NoteAt, Corners
  <1>6. ~n.f
    <2>1. (1 = -1) = FALSE
      OBVIOUS
    <2> QED
      BY <1>5, <2>1
  <1>7. y + 1 <= n.y3
    <2> DEFINE j == DropAt(im, y, code.left, 1)
               dy == SideAt(im, y, code.left, 1)
    <2>1. n.y3 = y + 2 * j + dy
      BY DEF NoteAt, Corners
    <2>2. j \in Nat /\ dy \in Nat \ {0}
      BY <1>2, EdgeNumbers
    <2> HIDE DEF j, dy
    <2> QED
      BY <1>3, <2>1, <2>2
  <1>8. n.y3 \in Int
    BY <1>4 DEF Sound, Notes
  <1> HIDE DEF n
  <1>9. /\ Len(l) \in Nat /\ Len(t) = Len(l) + 1 /\ t[q] = n
        /\ \A m \in 1..Len(l) : t[m] = l[m]
    BY <1>4
  <1> HIDE DEF t
  <1>10. q \in 1..Len(t) /\ \A m \in 1..(q - 1) : m \in 1..Len(l)
    BY <1>9
  <1> HIDE DEF q
  <1>11. Noted(t, code, y) /\ Noted(t, code, y + 1)
    <2>1. y <= y + 1 /\ y <= y /\ y <= n.y3
      BY <1>3, <1>7, <1>8
    <2> QED
      BY <1>5, <1>6, <1>7, <1>9, <1>10, <2>1 DEF Noted
  <1>12. ASSUME Strict(code, P) PROVE HasWide(t, code)
    <2>1. \A m \in 1..(q - 1) : t[m].dx < code.w
      BY <1>9, <1>10, <1>12 DEF AsideList, Aside
    <2> QED
      BY <1>5, <1>9, <1>10, <2>1 DEF HasWide
  <1> QED
    BY <1>11, <1>12 DEF Whole, t, n

(* A round of the scan leaves the notes as they are, or adds one.          *)
LEMMA ListAfter ==
  ASSUME NEW im, NEW y \in 1..(Size - 1), NEW d \in {1, -1}, NEW x \in Int,
         NEW l \in SoundLists(im)
  PROVE  LET t == ScanStep(im, d, y)[<<x, l>>][2]
         IN  \/ t = l
             \/ /\ x \in Rows /\ IsEdge(im, y, x) /\ Len(l) < MaxCodes
                /\ EdgeAt(im, y, x, d) > MinL /\ SideAt(im, y, x, d) > MinL
                /\ t = Append(l, NoteAt(im, y, x, d))
  <1> DEFINE dx == EdgeAt(im, y, x, d)
             dy == SideAt(im, y, x, d)
             n == NoteAt(im, y, x, d)
             m == Moved(im, y, d, x, l)
  <1>1. ScanStep(im, d, y)[<<x, l>>] = m
    BY SoundListsAreNotes, ScanStepIs
  <1>2. CASE x \in Rows /\ IsEdge(im, y, x)
    <2>1. dx \in 1..Size /\ MinL \in Nat /\ Size \in Nat
      BY <1>2, SearchAssumption, EdgeNumbers
    <2>2. dx <= MinL \/ dx > MinL
      BY <2>1
    <2>3. \/ m[2] = l
          \/ dx > MinL /\ dy > MinL /\ Len(l) < MaxCodes /\ m[2] = Append(l, n)
      <3> HIDE DEF dx, dy, n
      <3>1. m = IF Covered(l, y, x) THEN <<x + d, l>>
                ELSE IF dx <= MinL THEN <<x + d * (dx + 1), l>>
                ELSE <<x + d * ((IF d = 1 THEN dy ELSE dx) + 1),
                       IF dy > MinL /\ Len(l) < MaxCodes THEN Append(l, n) ELSE l>>
        BY <1>2 DEF Moved, dx, dy, n
      <3> QED
        BY <2>2, <3>1
    <2> HIDE DEF m
    <2> QED
      BY <1>1, <1>2, <2>3
  <1>3. CASE ~(x \in Rows /\ IsEdge(im, y, x))
    <2>1. m = <<x, l>> \/ m = <<x + d, l>>
      BY <1>3 DEF Moved
    <2>2. m[2] = l
      BY <2>1
    <2> QED
      BY <1>1, <2>2
  <1> QED
    BY <1>2, <1>3

(* There is no room for another note.                                      *)
Full(l) == Len(l) = MaxCodes

(* It stays so, and a code that was noted stays noted.                     *)
LEMMA FullMoves ==
  ASSUME NEW im, NEW P, NEW code, NEW z,
         NEW y \in 1..(Size - 1), NEW d \in {1, -1}, NEW x \in Int, NEW l \in SoundLists(im)
  PROVE  LET t == ScanStep(im, d, y)[<<x, l>>][2]
         IN  /\ Full(l) => Full(t)
             /\ Noted(l, code, z) => Noted(t, code, z)
             /\ Whole(l, code, P, z) => Whole(t, code, P, z)
  <1> DEFINE t == ScanStep(im, d, y)[<<x, l>>]
  <1>0. l \in Seq(Sound(im)) /\ MaxCodes \in Nat /\ Len(l) \in Nat
    BY SearchAssumption DEF SoundLists
  <1>1. MovesOn(im, d, x, l, t)
    BY ScanStepSound
  <1> HIDE DEF t
  <1>2. CASE t[2] = l
    BY <1>2 DEF t
  <1>3. CASE \E n \in Sound(im) : t[2] = Append(l, n)
    <2>1. PICK n \in Sound(im) : t[2] = Append(l, n)
      BY <1>3
    <2>2. /\ Noted(l, code, z) => Noted(Append(l, n), code, z)
          /\ Whole(l, code, P, z) => Whole(Append(l, n), code, P, z)
      BY <1>0, NotesKept
    <2>3. ~Full(l)
      <3>1. t[2] \in SoundLists(im)
        BY <1>1 DEF MovesOn
      <3>2. Len(Append(l, n)) = Len(l) + 1 /\ Len(t[2]) <= MaxCodes
        BY <1>0, <3>1 DEF SoundLists
      <3> QED
        BY <1>0, <2>1, <3>2 DEF Full
    <2> QED
      BY <2>1, <2>2, <2>3 DEF t
  <1> QED
    BY <1>1, <1>2, <1>3 DEF MovesOn

(* A round of the scan from left to right, until the code is noted as a    *)
(* whole: it is when the scan comes to its left end.                       *)
LEMMA AsideStep ==
  ASSUME NEW im, NEW P, Apart(im, P), NEW code \in P, Big(code),
         NEW y \in 1..(Size - 1), y < FirstRow(code) \/ Beginning(code, y),
         NEW x \in Int, NEW l \in SoundLists(im), AsideList(l, code, P)
  PROVE  LET t == ScanStep(im, 1, y)[<<x, l>>][2]
         IN  IF y < FirstRow(code) \/ x # code.left THEN AsideList(t, code, P)
             ELSE Full(t) \/ Whole(t, code, P, y)
  <1> DEFINE t == ScanStep(im, 1, y)[<<x, l>>][2]
             F == FirstRow(code)
  <1>0. /\ l \in Seq(Sound(im)) /\ MaxCodes \in Nat /\ Len(l) \in Nat /\ Len(l) <= MaxCodes
        /\ l \in Seq(Notes) /\ MinL \in Nat
    BY SearchAssumption, SoundListsAreNotes DEF SoundLists
  <1>1. F \in Nat /\ Stands(im, code) /\ code.left \in Nat /\ code.w \in Nat
    <2>1. Stands(im, code)
      BY DEF Apart
    <2> QED
      BY <2>1, StandsNumbers DEF FirstRow
  <1>2. CASE y < F \/ x # code.left
    <2> HIDE DEF t
    <2>1. CASE t = l
      BY <1>2, <2>1 DEF t
    <2>2. CASE t # l
      <3>1. /\ x \in Rows /\ IsEdge(im, y, x)
            /\ EdgeAt(im, y, x, 1) > MinL /\ SideAt(im, y, x, 1) > MinL
            /\ t = Append(l, NoteAt(im, y, x, 1))
        BY <2>2, ListAfter DEF t
      <3>2. y < F \/ (y <= F + 1 /\ x # code.left)
        BY <1>1, <1>2 DEF Beginning
      <3>3. Aside(NoteAt(im, y, x, 1), code, P) /\ NoteAt(im, y, x, 1) \in Sound(im)
        BY <3>1, <3>2, NoteAside, NoteIsSound
      <3>4. AsideList(t, code, P)
        BY <1>0, <3>1, <3>3, NotesKept
      <3> QED
        BY <1>2, <3>4 DEF t
    <2> QED
      BY <2>1, <2>2
  <1>3. CASE ~(y < F \/ x # code.left)
    <2>1. Beginning(code, y) /\ x = code.left
      BY <1>3
    <2>2. /\ code.left \in Rows /\ IsEdge(im, y, code.left)
          /\ EdgeAt(im, y, code.left, 1) = code.w /\ ~(code.w <= MinL)
          /\ SideAt(im, y, code.left, 1) > MinL
      BY <1>0, <1>1, <2>1, FirstEdge DEF Big
    <2>3. ~Covered(l, y, code.left)
      BY <2>1 DEF Covered, AsideList, Aside, Beginning
    <2> DEFINE n == NoteAt(im, y, code.left, 1)
    <2>4. t = IF Len(l) < MaxCodes THEN Append(l, n) ELSE l
      <3>1. t = Moved(im, y, 1, code.left, l)[2]
        BY <1>0, <2>1, ScanStepIs
      <3> HIDE DEF t
      <3> QED
        BY <2>2, <2>3, <3>1 DEF Moved
    <2>5. Whole(Append(l, n), code, P, y)
      BY <1>0, <2>1, NoteWhole
    <2> HIDE DEF n, t
    <2>6. Full(t) \/ Whole(t, code, P, y)
      BY <1>0, <2>4, <2>5 DEF Full
    <2> QED
      BY <1>3, <2>6 DEF t
  <1> QED
    BY <1>2, <1>3

(* The scan of a row keeps the notes aside of a code, until it is noted.   *)
LEMMA RowAside ==
  ASSUME NEW im, NEW P, Apart(im, P), NEW code \in P, Big(code),
         NEW y \in 1..(Size - 1), y <= FirstRow(code),
         NEW l \in SoundLists(im), AsideList(l, code, P)
  PROVE  LET t == ScanRow(im, 1, y, l)
         IN  \/ AsideList(t, code, P)
             \/ y = FirstRow(code) /\ (Full(t) \/ Whole(t, code, P, y))
  <1> DEFINE Good(t) == \/ AsideList(t, code, P)
                        \/ y = FirstRow(code) /\ (Full(t) \/ Whole(t, code, P, y))
             S == {s \in Int \X SoundLists(im) : Good(s[2])}
  <1>0. FirstRow(code) \in Int /\ y \in Int
    <2>1. Stands(im, code)
      BY DEF Apart
    <2> QED
      BY <2>1, StandsNumbers DEF FirstRow
  <1>1. y < FirstRow(code) \/ Beginning(code, y)
    BY <1>0 DEF Beginning
  <1>2. <<Start(1), l>> \in S
    BY DEF Start
  <1>3. ASSUME NEW s \in S PROVE ScanStep(im, 1, y)[s] \in S
    <2> DEFINE t == ScanStep(im, 1, y)[<<s[1], s[2]>>]
    <2>1. s[1] \in Int /\ s[2] \in SoundLists(im) /\ s = <<s[1], s[2]>> /\ Good(s[2])
      OBVIOUS
    <2>2. t \in Int \X SoundLists(im)
      BY <2>1, ScanStepSound DEF MovesOn
    <2>3. CASE AsideList(s[2], code, P)
      <3>1. IF y < FirstRow(code) \/ s[1] # code.left THEN AsideList(t[2], code, P)
            ELSE Full(t[2]) \/ Whole(t[2], code, P, y)
        BY <1>1, <2>1, <2>3, AsideStep
      <3> HIDE DEF t
      <3>2. Good(t[2])
        BY <1>0, <3>1
      <3> QED
        BY <2>1, <2>2, <3>2 DEF t
    <2>4. CASE y = FirstRow(code) /\ (Full(s[2]) \/ Whole(s[2], code, P, y))
      <3>1. Full(t[2]) \/ Whole(t[2], code, P, y)
        BY <2>1, <2>4, FullMoves
      <3> HIDE DEF t
      <3>2. Good(t[2])
        BY <2>4, <3>1
      <3> QED
        BY <2>1, <2>2, <3>2 DEF t
    <2> QED
      BY <2>1, <2>3, <2>4
  <1>4. S \subseteq Int \X SoundLists(im) /\ \A s \in S : Good(s[2])
    OBVIOUS
  <1> HIDE DEF S, Good
  <1>5. PICK x \in Int \ Rows : <<x, ScanRow(im, 1, y, l)>> \in S
    BY <1>2, <1>3, <1>4, ScanRowKeeps
  <1>6. Good(ScanRow(im, 1, y, l))
    BY <1>4, <1>5
  <1> QED
    BY <1>6 DEF Good

(* Codes that hide this one in row y have been noted.                      *)
HidersNoted(l, code, P, y) ==
  \A other \in P : Hides(other, code, y) => Noted(l, other, y)

(* The scan does not move on beyond the left end of a code: not after an   *)
(* edge that is too short, and not after one of a code that does not hide  *)
(* it (QR_Posing.c:181).                                                   *)
LEMMA NotBeyond ==
  ASSUME NEW im, NEW P, Apart(im, P), NEW code \in P, Big(code),
         NEW y \in 1..(Size - 1), Beginning(code, y),
         NEW x \in Rows, x < code.left, IsEdge(im, y, x),
         NEW l, ~Covered(l, y, x), HidersNoted(l, code, P, y)
  PROVE  /\ EdgeAt(im, y, x, 1) <= MinL => x + (EdgeAt(im, y, x, 1) + 1) <= code.left
         /\ EdgeAt(im, y, x, 1) > MinL => x + (SideAt(im, y, x, 1) + 1) <= code.left
  <1> DEFINE dx == EdgeAt(im, y, x, 1)
             j == DropAt(im, y, x, 1)
             dy == SideAt(im, y, x, 1)
             L == Lowering(code, 0)
             B == Below(code)
  <1>1. PICK other \in P : Within(other, y, x) /\ Stands(im, other)
    BY Owner
  <1>2. Low(im) /\ Stands(im, code)
    BY DEF Apart
  <1> DEFINE A == Below(other)
             u == Lowering(other, x - other.left)
             v == other.drop * other.drop
  <1>3. /\ dx \in 1..other.w /\ j \in {0, 1} /\ dy \in Nat \ {0}
        /\ x \in other.left..(other.left + other.w - 1)
        /\ y >= other.top /\ x + dx <= other.left + other.w
        /\ dx > MinL => y + j + dy <= A
    BY <1>1, <1>2, EdgeInside
  <1>4. /\ other.left \in Nat /\ other.top \in Nat /\ other.w \in Nat /\ other.h \in Nat
        /\ A \in Nat /\ other.drop \in {-1, 0, 1} /\ u \in {0, 1} /\ (other.drop = 0 => u = 0)
        /\ other.top + other.h + u <= A
        /\ code.left \in Nat /\ code.top \in Nat /\ code.w \in Nat /\ code.h \in Nat
        /\ B \in Nat /\ L \in {0, 1} /\ code.top + code.h + L <= B
        /\ TopMargin \in Nat /\ TopMargin >= 2 /\ MinL \in Nat \ {0} /\ Size \in Nat
        /\ x \in Int /\ y \in Int
    BY <1>1, <1>2, StandsNumbers DEF Rows
  <1>5. v \in {0, 1} /\ (other.drop # 0 => v = 1)
    BY <1>4
  <1>6. /\ y - other.top - u \in 0..(other.h - 1)
    BY <1>1 DEF Within
  <1>7. y = code.top + L \/ y = code.top + L + 1
    BY DEF Beginning, FirstRow
  <1>8. code.h >= 3
    BY <1>4 DEF Big
  <1> HIDE DEF dx, j, dy, L, B, A, u, v
  <1>9. other.left + other.w < code.left
    <2>1. \/ code.left + code.w < other.left \/ other.left + other.w < code.left
          \/ B + TopMargin <= other.top \/ A + TopMargin <= code.top
      <3>1. other # code
        BY <1>3, <1>4
      <3> QED
        BY <3>1 DEF Apart, Separate, A, B
    <2> QED
      BY <1>3, <1>4, <1>6, <1>7, <1>8, <2>1
  <1>10. dx <= MinL => x + (dx + 1) <= code.left
    BY <1>3, <1>4, <1>9
  <1>11. ASSUME dx > MinL PROVE x + (dy + 1) <= code.left
    <2>1. ~Hides(other, code, y)
      <3> SUFFICES ASSUME Noted(l, other, y) PROVE FALSE
        BY DEF HidersNoted
      <3>1. PICK q \in 1..Len(l) :
              /\ ~l[q].f /\ l[q].x0 = other.left /\ l[q].x1 = other.left + other.w
              /\ l[q].y0 <= y /\ y <= l[q].y3
        BY DEF Noted
      <3>2. other.left <= x /\ x <= other.left + other.w
        <4>1. /\ other.left \in Nat /\ other.w \in Nat /\ x \in Int
              /\ x \in other.left..(other.left + other.w - 1)
          BY <1>3, <1>4
        <4> QED
          BY <4>1
      <3>3. Covers(l[q], y, x)
        BY <3>1, <3>2 DEF Covers
      <3> QED
        BY <3>3 DEF Covered
    <2>2. y < other.top + u + TopMargin
      <3> DEFINE k == x - other.left
      <3>1. /\ y \in other.top..Below(other)
            /\ x \in (other.left - 1)..(other.left + other.w)
        BY <1>3, <1>4, <1>6 DEF A
      <3>2. y - other.top - Lowering(other, x - other.left) < TopMargin
        BY <1>1, <3>1, NearEdges
      <3> QED
        BY <1>4, <3>2 DEF u
    <2>3. y \in other.top..(other.top + v + TopMargin - 1)
      BY <1>3, <1>4, <1>5, <2>2
    <2>4. other.w > MinL
      BY <1>3, <1>4, <1>11
    <2>5. ~(code.left + y + MinL < other.left + other.w + A)
      BY <1>9, <2>1, <2>3, <2>4 DEF Hides, A, v
    <2> QED
      BY <1>3, <1>4, <1>11, <2>5
  <1> QED
    BY <1>10, <1>11 DEF dx, dy

(* The scan of a row in which a code begins notes it, if the codes that    *)
(* hide it there have been noted and there is room.                        *)
LEMMA RowReaches ==
  ASSUME NEW im, NEW P, Apart(im, P), NEW code \in P, Big(code),
         NEW y \in 1..(Size - 1), Beginning(code, y),
         NEW l \in SoundLists(im), AsideList(l, code, P), HidersNoted(l, code, P, y)
  PROVE  LET t == ScanRow(im, 1, y, l)
         IN  Full(t) \/ Whole(t, code, P, y)
  <1> DEFINE Done(t) == Full(t) \/ Whole(t, code, P, y)
             Open(x, t) == /\ x \in 0..code.left /\ AsideList(t, code, P)
                           /\ HidersNoted(t, code, P, y)
             S == {s \in Int \X SoundLists(im) : Done(s[2]) \/ Open(s[1], s[2])}
  <1>0. /\ code.left \in Nat /\ code.left \in Rows /\ Size \in Nat /\ MinL \in Nat
    <2>1. Stands(im, code)
      BY DEF Apart
    <2> QED
      BY <2>1, StandsNumbers, FirstEdge
  <1>1. <<Start(1), l>> \in S
    BY <1>0 DEF Start
  <1>2. ASSUME NEW s \in S PROVE ScanStep(im, 1, y)[s] \in S
    <2> DEFINE x == s[1]
               m == s[2]
               t == ScanStep(im, 1, y)[<<x, m>>]
    <2>1. x \in Int /\ m \in SoundLists(im) /\ s = <<x, m>> /\ (Done(m) \/ Open(x, m))
      OBVIOUS
    <2>2. t \in Int \X SoundLists(im)
      BY <2>1, ScanStepSound DEF MovesOn
    <2>3. \A other \in P : Noted(m, other, y) => Noted(t[2], other, y)
      BY <2>1, FullMoves
    <2>4. CASE Done(m)
      <3>1. Done(t[2])
        BY <2>1, <2>4, FullMoves
      <3> HIDE DEF t, Done, Open, x, m
      <3>2. t \in S
        BY <2>2, <3>1
      <3> QED
        BY <2>1, <3>2 DEF t
    <2>5. CASE Open(x, m)
      <3>1. IF x # code.left THEN AsideList(t[2], code, P) ELSE Done(t[2])
        <4>1. ~(y < FirstRow(code))
          <5>1. FirstRow(code) \in Int
            <6>1. Stands(im, code)
              BY DEF Apart
            <6> QED
              BY <6>1, StandsNumbers DEF FirstRow
          <5> QED
            BY <5>1 DEF Beginning
        <4> QED
          BY <2>1, <2>5, <4>1, AsideStep
      <3>2. CASE x = code.left
        <4>1. Done(t[2])
          BY <3>1, <3>2
        <4> HIDE DEF t, Done, Open, x, m
        <4>2. t \in S
          BY <2>2, <4>1
        <4> QED
          BY <2>1, <4>2 DEF t
      <3>3. CASE x # code.left
        <4>1. x \in Rows /\ x < code.left /\ x >= 0
          BY <1>0, <2>1, <2>5, <3>3 DEF Rows
        <4>2. HidersNoted(m, code, P, y) /\ HidersNoted(t[2], code, P, y)
          BY <2>3, <2>5 DEF HidersNoted
        <4>3. t[1] \in 0..code.left
          <5> DEFINE dx == EdgeAt(im, y, x, 1)
                     dy == SideAt(im, y, x, 1)
          <5>1. t = Moved(im, y, 1, x, m)
            BY <2>1, SoundListsAreNotes, ScanStepIs
          <5> HIDE DEF t, x, m
          <5>2. CASE Covered(m, y, x) \/ ~IsEdge(im, y, x)
            <6>1. t = <<x + 1, m>>
              BY <4>1, <5>1, <5>2 DEF Moved
            <6> QED
              BY <1>0, <2>1, <4>1, <6>1
          <5>3. CASE ~Covered(m, y, x) /\ IsEdge(im, y, x)
            <6>1. /\ dx <= MinL => x + (dx + 1) <= code.left
                  /\ dx > MinL => x + (dy + 1) <= code.left
              BY <4>1, <4>2, <5>3, NotBeyond
            <6>2. dx \in 1..Size /\ dy \in Nat \ {0}
              BY <4>1, <5>3, EdgeNumbers
            <6>3. t[1] = IF dx <= MinL THEN x + 1 * (dx + 1) ELSE x + 1 * (dy + 1)
              BY <4>1, <5>1, <5>3 DEF Moved
            <6> HIDE DEF dx, dy
            <6> QED
              BY <1>0, <2>1, <4>1, <6>1, <6>2, <6>3
          <5> QED
            BY <5>2, <5>3
        <4>4. AsideList(t[2], code, P)
          BY <3>1, <3>3
        <4>5. Open(t[1], t[2])
          BY <4>2, <4>3, <4>4
        <4> HIDE DEF t, Done, Open, x, m
        <4>6. t \in S
          BY <2>2, <4>5
        <4> QED
          BY <2>1, <4>6 DEF t
      <3> QED
        BY <3>2, <3>3
    <2> QED
      BY <2>1, <2>4, <2>5
  <1>3. S \subseteq Int \X SoundLists(im)
        /\ \A s \in S : s[1] \in Rows \/ Done(s[2])
    BY <1>0 DEF Rows
  <1> HIDE DEF S, Done, Open
  <1>4. PICK x \in Int \ Rows : <<x, ScanRow(im, 1, y, l)>> \in S
    BY <1>1, <1>2, <1>3, ScanRowKeeps
  <1>5. Done(ScanRow(im, 1, y, l))
    BY <1>3, <1>4
  <1> QED
    BY <1>5 DEF Done

(* A row of either scan leaves a full list full.                           *)
LEMMA FullRow ==
  ASSUME NEW im, NEW y \in 1..(Size - 1), NEW d \in {1, -1},
         NEW l \in SoundLists(im), Full(l)
  PROVE  Full(ScanRow(im, d, y, l))
  <1> DEFINE S == {s \in Int \X SoundLists(im) : Full(s[2])}
  <1>1. <<Start(d), l>> \in S
    BY SearchAssumption DEF Start
  <1>2. ASSUME NEW s \in S PROVE ScanStep(im, d, y)[s] \in S
    <2>1. s[1] \in Int /\ s[2] \in SoundLists(im) /\ s = <<s[1], s[2]>> /\ Full(s[2])
      OBVIOUS
    <2>2. MovesOn(im, d, s[1], s[2], ScanStep(im, d, y)[<<s[1], s[2]>>])
      BY <2>1, ScanStepSound
    <2>3. ScanStep(im, d, y)[s] \in Int \X SoundLists(im)
      BY <2>1, <2>2 DEF MovesOn
    <2>4. Full(ScanStep(im, d, y)[<<s[1], s[2]>>][2])
      BY <2>1, FullMoves
    <2> QED
      BY <2>1, <2>3, <2>4
  <1>3. S \subseteq Int \X SoundLists(im) /\ \A s \in S : Full(s[2])
    OBVIOUS
  <1> HIDE DEF S
  <1>4. PICK x \in Int \ Rows : <<x, ScanRow(im, d, y, l)>> \in S
    BY <1>1, <1>2, <1>3, ScanRowKeeps
  <1> QED
    BY <1>3, <1>4

(* A level code that hides another is large enough.                        *)
LEMMA HiderBig ==
  ASSUME NEW im, NEW other, Stands(im, other), other.drop = 0,
         NEW code, Stands(im, code), NEW z \in Int, Hides(other, code, z)
  PROVE  Big(other) /\ FirstRow(other) = other.top
  <1>1. /\ other.left \in Nat /\ other.top \in Nat /\ other.w \in Nat /\ other.h \in Nat
        /\ Below(other) = other.top + other.h /\ Lowering(other, 0) = 0
        /\ code.left \in Nat /\ MinL \in Nat
    BY StandsNumbers
  <1>2. /\ other.w > MinL /\ other.left + other.w < code.left
        /\ z >= other.top
        /\ code.left + z + MinL < other.left + other.w + Below(other)
    BY DEF Hides
  <1> QED
    BY <1>1, <1>2 DEF Big, FirstRow

(* The scan from left to right when it comes to row y: nothing is in the   *)
(* way of the codes that are still to come, and the widest one is noted    *)
(* after its first row, or after the next one.                             *)
Searched(y, l, code, P) ==
  /\ \A c \in P : Big(c) /\ y <= FirstRow(c) => AsideList(l, c, P)
  /\ y = FirstRow(code) + 1 =>
       \/ Full(l) \/ HasWide(l, code)
       \/ AsideList(l, code, P) /\ code.drop # -1 /\ HidersNoted(l, code, P, y)
  /\ y > FirstRow(code) + 1 => Full(l) \/ HasWide(l, code)

(* A row of that scan.                                                     *)
LEMMA SearchedStep ==
  ASSUME NEW im, NEW P, Apart(im, P), NEW code \in P, Big(code),
         Strict(code, P), Shown(code, P),
         NEW y \in 1..(Size - 1), NEW l \in SoundLists(im), Searched(y, l, code, P)
  PROVE  Searched(y + 1, ScanRow(im, 1, y, l), code, P)
  <1> DEFINE t == ScanRow(im, 1, y, l)
             F == FirstRow(code)
  <1>0. /\ \A c \in P : FirstRow(c) \in Int /\ Stands(im, c)
        /\ y \in Int
    <2>1. ASSUME NEW c \in P PROVE FirstRow(c) \in Int /\ Stands(im, c)
      <3>1. Stands(im, c)
        BY DEF Apart
      <3> QED
        BY <3>1, StandsNumbers DEF FirstRow
    <2> QED
      BY <2>1
  <1>1. ASSUME NEW c \in P, Big(c), y + 1 <= FirstRow(c)
        PROVE  AsideList(t, c, P)
    <2>1. y <= FirstRow(c) /\ y # FirstRow(c)
      BY <1>0, <1>1
    <2>2. AsideList(l, c, P)
      BY <1>1, <2>1 DEF Searched
    <2> QED
      BY <1>1, <2>1, <2>2, RowAside
  <1>2. ASSUME Full(l) \/ HasWide(l, code) PROVE Full(t) \/ HasWide(t, code)
    BY <1>2, FullRow, WideRow
  <1>3. ASSUME y = F
        PROVE  \/ Full(t) \/ HasWide(t, code)
               \/ AsideList(t, code, P) /\ code.drop # -1 /\ HidersNoted(t, code, P, y + 1)
    <2>1. AsideList(l, code, P)
      BY <1>0, <1>3 DEF Searched
    <2>2. CASE \A other \in P : ~Hides(other, code, y)
      <3>1. HidersNoted(l, code, P, y) /\ Beginning(code, y)
        BY <1>3, <2>2 DEF HidersNoted, Beginning
      <3>2. Full(t) \/ Whole(t, code, P, y)
        BY <2>1, <3>1, RowReaches
      <3> QED
        BY <3>2 DEF Whole
    <2>3. CASE /\ code.drop # -1
               /\ \A other \in P :
                    Hides(other, code, y) \/ Hides(other, code, y + 1) =>
                      /\ other.drop = 0 /\ other.top = y
                      /\ \A third \in P : ~Hides(third, other, y)
      <3>1. AsideList(t, code, P) \/ Full(t) \/ Whole(t, code, P, y)
        BY <1>0, <1>3, <2>1, RowAside
      <3>2. ASSUME NEW other \in P, Hides(other, code, y + 1)
            PROVE  Full(t) \/ Noted(t, other, y + 1)
        <4>1. /\ other.drop = 0 /\ other.top = y
              /\ \A third \in P : ~Hides(third, other, y)
          BY <2>3, <3>2
        <4>2. Big(other) /\ FirstRow(other) = y
          <5>1. y + 1 \in Int /\ Stands(im, other) /\ Stands(im, code)
            BY <1>0
          <5> QED
            BY <3>2, <4>1, <5>1, HiderBig
        <4>3. AsideList(l, other, P)
          BY <1>0, <4>2 DEF Searched
        <4>4. HidersNoted(l, other, P, y) /\ Beginning(other, y)
          BY <4>1, <4>2 DEF HidersNoted, Beginning
        <4>5. Full(t) \/ Whole(t, other, P, y)
          BY <4>2, <4>3, <4>4, RowReaches
        <4> QED
          BY <4>5 DEF Whole
      <3> HIDE DEF t
      <3>3. Full(t) \/ HidersNoted(t, code, P, y + 1)
        BY <3>2 DEF HidersNoted
      <3> QED
        BY <2>3, <3>1, <3>3 DEF Whole
    <2> QED
      BY <1>3, <2>2, <2>3 DEF Shown
  <1>4. ASSUME y = F + 1 PROVE Full(t) \/ HasWide(t, code)
    <2>1. \/ Full(l) \/ HasWide(l, code)
          \/ AsideList(l, code, P) /\ code.drop # -1 /\ HidersNoted(l, code, P, y)
      BY <1>4 DEF Searched
    <2>2. CASE AsideList(l, code, P) /\ code.drop # -1 /\ HidersNoted(l, code, P, y)
      <3>1. Beginning(code, y)
        BY <1>4, <2>2 DEF Beginning
      <3>2. Full(t) \/ Whole(t, code, P, y)
        BY <2>2, <3>1, RowReaches
      <3> QED
        BY <3>2 DEF Whole
    <2> QED
      BY <1>2, <2>1, <2>2
  <1>5. ASSUME y > F + 1 PROVE Full(t) \/ HasWide(t, code)
    BY <1>2, <1>5 DEF Searched
  <1> HIDE DEF t
  <1>6. /\ y + 1 = F + 1 => y = F
        /\ y + 1 > F + 1 => y = F \/ y = F + 1 \/ y > F + 1
        /\ y + 1 > F + 1 => y # F
    BY <1>0
  <1> HIDE DEF F
  <1>7. Searched(y + 1, t, code, P)
    <2>1. y + 1 = F + 1 =>
            \/ Full(t) \/ HasWide(t, code)
            \/ AsideList(t, code, P) /\ code.drop # -1 /\ HidersNoted(t, code, P, y + 1)
      BY <1>3, <1>6
    <2>2. y + 1 > F + 1 => Full(t) \/ HasWide(t, code)
      BY <1>4, <1>5, <1>6
    <2> QED
      BY <1>1, <2>1, <2>2 DEF Searched, F
  <1> QED
    BY <1>7 DEF t

(* The widest of separate codes is noted as a whole, if it is not hidden   *)
(* and the list of notes does not become full.                             *)
LEMMA SearchFindsWidest ==
  ASSUME NEW im, NEW P, Apart(im, P), NEW code \in P, Big(code),
         Strict(code, P), Shown(code, P)
  PROVE  LET l == Search(im, << >>) IN Full(l) \/ HasWide(l, code)
  <1> DEFINE Done(m) == Full(m) \/ HasWide(m, code)
  <1>0. /\ Size \in Nat \ {0} /\ << >> \in SoundLists(im)
        /\ FirstRow(code) \in Nat /\ FirstRow(code) >= 1 /\ FirstRow(code) + 1 < Size
    <2>1. Stands(im, code)
      BY DEF Apart
    <2>2. /\ code.top \in Nat /\ code.top >= 2 /\ Lowering(code, 0) \in {0, 1}
          /\ code.h \in Nat /\ code.top + code.h + Lowering(code, 0) <= Below(code)
          /\ Below(code) < Size /\ Below(code) \in Nat /\ MinL \in Nat \ {0}
      BY <2>1, StandsNumbers
    <2>3. code.h > 2
      BY <2>2 DEF Big
    <2> QED
      BY <2>2, <2>3, SearchAssumption DEF SoundLists, FirstRow
  <1>1. Done(ScanPicture(im, 1, << >>))
    <2> DEFINE S == {s \in (1..Size) \X SoundLists(im) : Searched(s[1], s[2], code, P)}
    <2>1. <<1, << >> >> \in S
      <3>1. \A c : AsideList(<< >>, c, P)
        BY DEF AsideList
      <3>2. ~(1 = FirstRow(code) + 1) /\ ~(1 > FirstRow(code) + 1)
        BY <1>0
      <3>3. Searched(1, << >>, code, P)
        BY <3>1, <3>2 DEF Searched
      <3> QED
        BY <1>0, <3>3
    <2>2. ASSUME NEW y \in 1..(Size - 1), NEW m \in Seq(Notes), <<y, m>> \in S
          PROVE  <<y + 1, ScanRow(im, 1, y, m)>> \in S
      <3>1. m \in SoundLists(im) /\ Searched(y, m, code, P) /\ y + 1 \in 1..Size
        BY <1>0, <2>2
      <3>2. Searched(y + 1, ScanRow(im, 1, y, m), code, P)
        BY <3>1, SearchedStep
      <3>3. ScanRow(im, 1, y, m) \in SoundLists(im)
        BY <3>1, ScanRowSound
      <3> QED
        BY <3>1, <3>2, <3>3
    <2>3. S \subseteq (1..Size) \X Seq(Notes) /\ \A s \in S : Searched(s[1], s[2], code, P)
      BY SoundListsAreNotes
    <2> HIDE DEF S
    <2>4. RowsKeep(im, 1, S)
      BY <2>2, <2>3 DEF RowsKeep
    <2>5. <<Size, ScanPicture(im, 1, << >>)>> \in S
      BY <2>1, <2>4, ScanPictureKeeps
    <2>6. Searched(Size, ScanPicture(im, 1, << >>), code, P)
      BY <2>3, <2>5
    <2>7. Size > FirstRow(code) + 1
      BY <1>0
    <2> QED
      BY <2>6, <2>7 DEF Searched
  <1> DEFINE l == ScanPicture(im, 1, << >>)
  <1>2. l \in SoundLists(im)
    BY <1>0, ScanPictureSound
  <1>3. Done(l)
    BY <1>1
  <1> HIDE DEF l
  <1>4. Done(ScanPicture(im, -1, l))
    <2> DEFINE S == {s \in (1..Size) \X SoundLists(im) : Done(s[2])}
    <2>1. <<1, l>> \in S
      BY <1>0, <1>2, <1>3
    <2>2. ASSUME NEW y \in 1..(Size - 1), NEW m \in Seq(Notes), <<y, m>> \in S
          PROVE  <<y + 1, ScanRow(im, -1, y, m)>> \in S
      <3>1. m \in SoundLists(im) /\ Done(m) /\ y + 1 \in 1..Size
        BY <1>0, <2>2
      <3>2. Done(ScanRow(im, -1, y, m))
        BY <3>1, WideRow, FullRow
      <3>3. ScanRow(im, -1, y, m) \in SoundLists(im)
        BY <3>1, ScanRowSound
      <3> QED
        BY <3>1, <3>2, <3>3
    <2>3. S \subseteq (1..Size) \X Seq(Notes) /\ \A s \in S : Done(s[2])
      BY SoundListsAreNotes
    <2> HIDE DEF S, Done
    <2>4. RowsKeep(im, -1, S)
      BY <2>2, <2>3 DEF RowsKeep
    <2>5. <<Size, ScanPicture(im, -1, l)>> \in S
      BY <2>1, <2>4, ScanPictureKeeps
    <2> QED
      BY <2>3, <2>5
  <1> QED
    BY <1>4 DEF Search, l

(* Of any number of separate codes in the picture at hand, what is         *)
(* reported is a part of one that is large enough, never a mixture of two; *)
(* and if there was room for the notes, the widest one that is not hidden  *)
(* is reported where it is and as wide as it is (QR_Posing.c:82-336).      *)
THEOREM WidestCodeIsReported == Spec => []ReportsWhatIsSeen
  <1>1. IInv => ReportsWhatIsSeen
    <2> DEFINE P == pictures[frame]
               first == report.x - report.width \div 2
    <2> SUFFICES ASSUME IInv, pose = "return", Clear(P), Separate(P)
                 PROVE  /\ report # Nothing =>
                             \E code \in P :
                               /\ code.w > MinL /\ code.h + code.drop * code.drop > MinL
                               /\ code.left - 1 <= first
                               /\ first + report.width <= code.left + code.w
                        /\ Len(l1) < MaxCodes =>
                             \A code \in P :
                               /\ code.w > MinL /\ code.h > MinL + 1
                               /\ \A other \in P \ {code} : other.w < code.w
                               /\ Shown(code, P)
                               => report = [x |-> (2 * code.left + code.w) \div 2,
                                            width |-> code.w]
      BY DEF ReportsWhatIsSeen
    <2>1. PICK im \in Converted(P) :
            l1 = Search(im, << >>) /\ l1 \in SoundLists(im) /\ report = ReportOf(l1)
      BY ReturnState
    <2>2. P \in Pictures
      BY ReturnState
    <2> HIDE DEF P
    <2>3. Apart(im, P)
      BY <2>2, PictureApart
    <2>4. \A m \in 1..Len(l1) : l1[m] \in Sound(im)
      BY <2>1 DEF SoundLists
    <2>5. ASSUME report # Nothing
          PROVE  \E code \in P :
                   /\ code.w > MinL /\ code.h + code.drop * code.drop > MinL
                   /\ code.left - 1 <= first
                   /\ first + report.width <= code.left + code.w
      <3>1. l1 # << >>
        BY <2>1, <2>5, NothingNoted
      <3>2. PICK n \in 1..Len(l1) :
              /\ l1[n] \in Sound(im)
              /\ report = [x |-> (l1[n].x1 + l1[n].x0) \div 2, width |-> l1[n].dx]
        BY <2>1, <3>1, WidestReported
      <3> DEFINE a == l1[n].x0
                 b == l1[n].x1
                 dx == l1[n].dx
      <3>3. PICK code \in P : Stands(im, code) /\ Part(l1[n], code)
        BY <2>3, <3>2, NoteOwned
      <3>4. /\ dx \in (MinL + 1)..code.w
            /\ a \in code.left..(code.left + code.w - 1)
            /\ \/ b = a - dx /\ b >= code.left - 1
               \/ b = a + dx /\ b <= code.left + code.w
            /\ Below(code) - code.top > MinL
        BY <3>3 DEF Part
      <3>5. /\ code.left \in Nat /\ code.w \in Nat /\ code.top \in Nat /\ code.h \in Nat
            /\ code.drop \in {-1, 0, 1} /\ MinL \in Nat
        BY <3>3, StandsNumbers
      <3>6. first = (b + a) \div 2 - dx \div 2 /\ report.width = dx
        BY <3>2
      <3> HIDE DEF a, b, dx, first
      <3>7. a \in Int /\ dx \in Int
        BY <3>4, <3>5
      <3>8. first = IF b = a - dx THEN a - dx ELSE a
        BY <3>4, <3>6, <3>7, Halves
      <3>9. code.left - 1 <= first /\ first + report.width <= code.left + code.w
        <4>1. report.width = dx
          BY <3>6
        <4>2. CASE b = a - dx /\ b >= code.left - 1
          <5>1. first = a - dx
            BY <3>8, <4>2
          <5> QED
            BY <3>4, <3>5, <3>7, <4>1, <4>2, <5>1
        <4>3. CASE b = a + dx /\ b <= code.left + code.w
          <5>1. first = a
            BY <3>4, <3>5, <3>7, <3>8, <4>3
          <5> QED
            BY <3>4, <3>5, <3>7, <4>1, <4>3, <5>1
        <4> QED
          BY <3>4, <4>2, <4>3
      <3>10. code.w > MinL
        BY <3>4, <3>5, <3>7
      <3>11. code.h + code.drop * code.drop > MinL
        <4> DEFINE v == code.drop * code.drop
        <4>1. v \in Int
          BY <3>5
        <4>2. Below(code) = code.top + code.h + v
          BY DEF Below
        <4> HIDE DEF v
        <4>3. code.h + v > MinL
          BY <3>4, <3>5, <4>1, <4>2
        <4> QED
          BY <4>3 DEF v
      <3> QED
        BY <3>9, <3>10, <3>11
    <2>6. ASSUME Len(l1) < MaxCodes, NEW code \in P, code.w > MinL, code.h > MinL + 1,
                 \A other \in P \ {code} : other.w < code.w, Shown(code, P)
          PROVE  report = [x |-> (2 * code.left + code.w) \div 2, width |-> code.w]
      <3>1. Big(code) /\ Strict(code, P)
        BY <2>6 DEF Big, Strict
      <3>2. Full(l1) \/ HasWide(l1, code)
        BY <2>1, <2>3, <2>6, <3>1, SearchFindsWidest
      <3>3. Len(l1) \in Nat /\ MaxCodes \in Nat
        BY <2>1, SearchAssumption DEF SoundLists
      <3>4. HasWide(l1, code)
        BY <2>6, <3>2, <3>3 DEF Full
      <3>5. Stands(im, code)
        BY <2>3 DEF Apart
      <3>6. code.left \in Nat /\ code.w \in Nat
        BY <3>5, StandsNumbers
      <3>7. ASSUME NEW m \in 1..Len(l1) PROVE l1[m].dx <= code.w
        <4>1. PICK owner \in P : Stands(im, owner) /\ Part(l1[m], owner)
          BY <2>3, <2>4, NoteOwned
        <4>2. owner.w \in Nat /\ MinL \in Nat
          BY <4>1, StandsNumbers
        <4>3. l1[m].dx \in (MinL + 1)..owner.w
          BY <4>1 DEF Part
        <4>4. owner.w <= code.w
          BY <2>6, <3>6, <4>2
        <4> QED
          BY <3>6, <4>2, <4>3, <4>4
      <3> QED
        BY <2>1, <3>4, <3>6, <3>7, WideReported
    <2> QED
      BY <2>5, <2>6
  <1> QED
    BY <1>1, PipelineInvariant, PTL
=============================================================================
