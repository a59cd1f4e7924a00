---------------------------- MODULE DocumentProofs -----------------------------
(****************************************************************************)
(* What a complete import covers, for documents of any number of segments   *)
(* of any length and whatever the limits are, and what a cloned version of  *)
(* a collection keeps, for any number of versions, imports and requests     *)
(* that add, remove, compile and clone at once.                             *)
(*                                                                          *)
(* After each segment the chunks hold every character so far in exactly one *)
(* place, unless something was left out and is known to be (Loop).  The     *)
(* induction theorems of the library take an operator as a parameter;       *)
(* LeastNumber does not: what follows by induction on the segments is       *)
(* proved by a least counterexample.                                        *)
(*                                                                          *)
(* The order of the members of a version is the order in which they were    *)
(* added as long as none was removed, for a position is then above all      *)
(* positions before it (Increasing); and what a clone has added stays,      *)
(* because nothing but a removal takes a member away (AddedStay).           *)
(****************************************************************************)
EXTENDS CollectionVersions, Extraction, FiniteSetTheorems, SequenceTheorems,
        WellFoundedInduction, TLAPS

-----------------------------------------------------------------------------
(* Recursion over the numbers up to n *)

LEMMA LeastNumber ==
    ASSUME NEW T, T \subseteq Nat, T # {}
    PROVE  \E n \in T : \A m \in T : n <= m
<1>1. PICK n \in T : \A m \in T : ~ (<<m, n>> \in OpToRel(<, Nat))
  BY NatLessThanWellFounded, WFMin, Zenon
<1>2. \A m \in T : ~(m < n)
  BY <1>1 DEF OpToRel
<1> QED BY <1>2

(* f follows next from base on. *)
Follows(f, base, next, m) ==
    f[0] = base /\ \A k \in 1..m : f[k] = next[<<f[k - 1], k>>]

(* There is such an f.  Otherwise there is none up to a least m, but the    *)
(* one up to m - 1 goes on.                                                 *)
LEMMA RecursionExists ==
    ASSUME NEW n \in Nat, NEW S, NEW base \in S, NEW next \in [S \X (1..n) -> S]
    PROVE  \E f \in [0..n -> S] : Follows(f, base, next, n)
<1> DEFINE B == {m \in 0..n : ~ \E f \in [0..m -> S] : Follows(f, base, next, m)}
<1>1. B = {}
  <2> SUFFICES ASSUME B # {} PROVE FALSE
    OBVIOUS
  <2>1. PICK m \in B : \A l \in B : m <= l
    <3>1. B \subseteq Nat
      OBVIOUS
    <3> HIDE DEF B
    <3> QED BY <3>1, LeastNumber
  <2>2. m # 0
    <3>1. [k \in 0..0 |-> base] \in [0..0 -> S]
      OBVIOUS
    <3>2. Follows([k \in 0..0 |-> base], base, next, 0)
      BY DEF Follows
    <3> QED BY <3>1, <3>2
  <2>3. m - 1 \in 0..n /\ m - 1 \notin B /\ m \in 1..n
    BY <2>1, <2>2
  <2>4. PICK f \in [0..(m - 1) -> S] : Follows(f, base, next, m - 1)
    BY <2>3
  <2>5. PICK g : g = [k \in 0..m |-> IF k < m THEN f[k] ELSE next[<<f[m - 1], m>>]]
    OBVIOUS
  <2>6. g \in [0..m -> S]
    <3>1. f[m - 1] \in S
      BY <2>3, <2>4
    <3>2. next[<<f[m - 1], m>>] \in S
      BY <2>3, <3>1
    <3>3. \A k \in 0..m : k < m => k \in 0..(m - 1)
      BY <2>3
    <3> QED BY <2>4, <2>5, <3>2, <3>3
  <2>7. Follows(g, base, next, m)
    <3>1. g[0] = base
      BY <2>3, <2>4, <2>5 DEF Follows
    <3>2. ASSUME NEW k \in 1..m PROVE g[k] = next[<<g[k - 1], k>>]
      <4>1. g[k - 1] = f[k - 1]
        BY <2>3, <2>5
      <4>2. CASE k < m
        <5>1. g[k] = f[k] /\ k \in 1..(m - 1)
          BY <2>3, <2>5, <4>2
        <5> QED BY <2>4, <4>1, <5>1 DEF Follows
      <4>3. CASE ~(k < m)
        <5>1. k = m
          BY <2>3, <4>3
        <5>2. g[m] = next[<<f[m - 1], m>>]
          BY <2>3, <2>5
        <5>3. g[m - 1] = f[m - 1]
          BY <4>1, <5>1
        <5> QED BY <5>1, <5>2, <5>3
      <4> QED BY <4>2, <4>3
    <3> QED BY <3>1, <3>2 DEF Follows
  <2> QED BY <2>6, <2>7
<1>2. n \in 0..n
  OBVIOUS
<1> QED BY <1>1, <1>2

(* A set of numbers up to n that holds 0 and goes on holds all of them.     *)
LEMMA AllUpTo ==
    ASSUME NEW n \in Nat, NEW Holding, 0 \in Holding,
           \A k \in 1..n : k - 1 \in Holding => k \in Holding
    PROVE  \A k \in 0..n : k \in Holding
<1> DEFINE B == (0..n) \ Holding
<1>1. B = {}
  <2> SUFFICES ASSUME B # {} PROVE FALSE
    OBVIOUS
  <2>1. PICK m \in B : \A l \in B : m <= l
    <3>1. B \subseteq Nat
      OBVIOUS
    <3> HIDE DEF B
    <3> QED BY <3>1, LeastNumber
  <2>2. m \in 1..n /\ m - 1 \in 0..n
    BY <2>1
  <2>3. m - 1 \notin B
    BY <2>1, <2>2
  <2> QED BY <2>1, <2>2, <2>3
<1> QED BY <1>1

-----------------------------------------------------------------------------
(* The size of a chunk *)

Piece == [from : Nat, segment : Nat, to : Nat]

Wrapped(piece) == piece.to - piece.from + 1 + Label

Sums(f, pieces) ==
    /\ f \in [0..Len(pieces) -> Int]
    /\ f[0] = 0
    /\ \A k \in 1..Len(pieces) : f[k] = f[k - 1] + Wrapped(pieces[k])

LEMMA LimitsAreNat ==
    /\ Label \in Nat /\ MaxChars \in Nat /\ Allowance \in Nat
    /\ MaxChunks \in Nat /\ MaxCandidates \in Nat /\ MostOffered \in Nat
  BY ExtractionAssumption

LEMMA SizeIsSum ==
    ASSUME NEW pieces \in Seq(Piece)
    PROVE  \E f : Sums(f, pieces) /\ Size(pieces) = f[Len(pieces)]
<1> DEFINE n == Len(pieces)
           Value(f, k) == IF k = 0 THEN 0
                          ELSE f[k - 1] + pieces[k].to - pieces[k].from + 1 + Label
           Solves(f) == f = [k \in 0..n |-> Value(f, k)]
           next == [x \in Int \X (1..n) |-> x[1] + Wrapped(pieces[x[2]])]
<1>1. n \in Nat /\ \A k \in 1..n : pieces[k] \in Piece
  OBVIOUS
<1>2. \A k \in 1..n : /\ Wrapped(pieces[k]) \in Int
                      /\ \A v \in Int : v + pieces[k].to - pieces[k].from + 1 + Label
                                        = v + Wrapped(pieces[k])
  <2> SUFFICES ASSUME NEW k \in 1..n
               PROVE  /\ Wrapped(pieces[k]) \in Int
                      /\ \A v \in Int : v + pieces[k].to - pieces[k].from + 1 + Label
                                        = v + Wrapped(pieces[k])
    OBVIOUS
  <2>1. pieces[k].to \in Nat /\ pieces[k].from \in Nat
    BY <1>1 DEF Piece
  <2> QED BY <2>1, LimitsAreNat DEF Wrapped
<1>3. next \in [Int \X (1..n) -> Int]
  <2> HIDE DEF n
  <2> SUFFICES ASSUME NEW v \in Int, NEW k \in 1..n PROVE v + Wrapped(pieces[k]) \in Int
    OBVIOUS
  <2> QED BY <1>2
<1>4. PICK h \in [0..n -> Int] : Follows(h, 0, next, n)
  <2> HIDE DEF next, n
  <2>1. 0 \in Int
    OBVIOUS
  <2> QED BY <1>1, <1>3, <2>1, RecursionExists, Zenon
<1>5. \A k \in 1..n : h[k] = h[k - 1] + Wrapped(pieces[k]) /\ h[k - 1] \in Int
  <2> SUFFICES ASSUME NEW k \in 1..n
               PROVE  h[k] = h[k - 1] + Wrapped(pieces[k]) /\ h[k - 1] \in Int
    OBVIOUS
  <2>1. h[k - 1] \in Int
    BY <1>1, <1>4
  <2>2. h[k] = next[<<h[k - 1], k>>]
    BY <1>4 DEF Follows
  <2>3. <<h[k - 1], k>> \in Int \X (1..n)
    BY <2>1
  <2> QED BY <2>1, <2>2, <2>3
<1>6. Solves(h)
  <2>1. \A k \in 0..n : h[k] = Value(h, k)
    <3> SUFFICES ASSUME NEW k \in 0..n PROVE h[k] = Value(h, k)
      OBVIOUS
    <3>1. CASE k = 0
      BY <1>4, <3>1 DEF Follows
    <3>2. CASE k # 0
      <4>1. k \in 1..n
        BY <1>1, <3>2
      <4> QED BY <1>2, <1>5, <3>2, <4>1
    <3> QED BY <3>1, <3>2
  <2> HIDE DEF Value, n
  <2> QED BY <1>4, <2>1
<1> DEFINE g == CHOOSE f : Solves(f)
<1>7. Solves(g)
  <2> HIDE DEF Solves
  <2> QED BY <1>6, Zenon
<1>8. Size(pieces) = g[n]
  BY DEF Size
<1> HIDE DEF g
<1>9. \A k \in 0..n : g[k] = Value(g, k)
  <2> HIDE DEF Value, n
  <2> QED BY <1>7
<1>10. DOMAIN g = 0..n
  <2> HIDE DEF Value, n
  <2> QED BY <1>7
<1>11. \A k \in 0..n : g[k] \in Int
  <2> DEFINE H == {k \in 0..n : g[k] \in Int}
  <2>1. 0 \in H
    BY <1>1, <1>9
  <2>2. ASSUME NEW k \in 1..n, k - 1 \in H PROVE k \in H
    <3>1. g[k] = g[k - 1] + pieces[k].to - pieces[k].from + 1 + Label
      BY <1>1, <1>9
    <3>2. g[k - 1] \in Int
      BY <2>2
    <3>3. g[k] = g[k - 1] + Wrapped(pieces[k]) /\ Wrapped(pieces[k]) \in Int
      BY <1>2, <3>1, <3>2
    <3>4. g[k] \in Int /\ k \in 0..n
      BY <1>1, <3>2, <3>3
    <3> QED BY <3>4
  <2>3. \A k \in 0..n : k \in H
    <3> HIDE DEF H, n
    <3> QED BY <1>1, <2>1, <2>2, AllUpTo
  <2> QED BY <2>3
<1>12. g \in [0..n -> Int]
  <2>1. g = [k \in 0..n |-> g[k]]
    <3> HIDE DEF Value, n
    <3> QED BY <1>7, <1>10
  <2> QED BY <1>11, <2>1
<1>13. \A k \in 1..n : g[k] = g[k - 1] + Wrapped(pieces[k])
  <2> SUFFICES ASSUME NEW k \in 1..n PROVE g[k] = g[k - 1] + Wrapped(pieces[k])
    OBVIOUS
  <2>1. g[k] = g[k - 1] + pieces[k].to - pieces[k].from + 1 + Label
    BY <1>1, <1>9
  <2>2. g[k - 1] \in Int
    BY <1>1, <1>11
  <2> QED BY <1>2, <2>1, <2>2
<1>14. g[0] = 0
  BY <1>1, <1>9
<1> QED BY <1>8, <1>12, <1>13, <1>14 DEF Sums

LEMMA SumsAgree ==
    ASSUME NEW s \in Seq(Piece), NEW t \in Seq(Piece), Len(s) <= Len(t),
           \A k \in 1..Len(s) : s[k] = t[k],
           NEW f, NEW g, Sums(f, s), Sums(g, t)
    PROVE  f[Len(s)] = g[Len(s)]
<1> DEFINE n == Len(s)
           H == {k \in 0..n : f[k] = g[k]}
<1>1. n \in Nat
  OBVIOUS
<1>2. 0 \in H
  BY <1>1 DEF Sums
<1>3. ASSUME NEW k \in 1..n, k - 1 \in H PROVE k \in H
  <2>1. k \in 1..Len(t)
    BY <1>1
  <2>2. f[k] = f[k - 1] + Wrapped(s[k]) /\ g[k] = g[k - 1] + Wrapped(t[k])
    BY <2>1 DEF Sums
  <2> QED BY <1>3, <2>2
<1>4. \A k \in 0..n : k \in H
  <2> HIDE DEF H, n
  <2> QED BY <1>1, <1>2, <1>3, AllUpTo
<1> QED BY <1>1, <1>4

LEMMA SizeOfEmpty == Size(<<>>) = 0
<1>1. <<>> \in Seq(Piece) /\ Len(<<>>) = 0
  OBVIOUS
<1>2. PICK f : Sums(f, <<>>) /\ Size(<<>>) = f[Len(<<>>)]
  BY <1>1, SizeIsSum
<1> QED BY <1>1, <1>2 DEF Sums

LEMMA SizeOfAppend ==
    ASSUME NEW pieces \in Seq(Piece), NEW piece \in Piece
    PROVE  /\ Size(Append(pieces, piece)) = Size(pieces) + Wrapped(piece)
           /\ Size(pieces) \in Int
<1> DEFINE n == Len(pieces)  more == Append(pieces, piece)
<1>1. /\ n \in Nat /\ more \in Seq(Piece) /\ Len(more) = n + 1 /\ more[n + 1] = piece
      /\ \A k \in 1..n : pieces[k] = more[k]
  OBVIOUS
<1>2. PICK f : Sums(f, pieces) /\ Size(pieces) = f[n]
  BY SizeIsSum
<1>3. PICK g : Sums(g, more) /\ Size(more) = g[n + 1]
  BY <1>1, SizeIsSum
<1>4. f[n] = g[n]
  <2> HIDE DEF more
  <2>1. Len(pieces) <= Len(more)
    BY <1>1
  <2> QED BY <1>1, <1>2, <1>3, <2>1, SumsAgree
<1>5. g[n + 1] = g[n] + Wrapped(piece)
  <2>1. n + 1 \in 1..Len(more)
    BY <1>1
  <2>2. g[n + 1] = g[n + 1 - 1] + Wrapped(more[n + 1])
    <3> HIDE DEF more
    <3> QED BY <1>3, <2>1 DEF Sums
  <2> QED BY <1>1, <2>2
<1>6. f[n] \in Int
  BY <1>1, <1>2 DEF Sums
<1> QED BY <1>2, <1>3, <1>4, <1>5, <1>6

LEMMA SizeOfOne ==
    ASSUME NEW piece \in Piece
    PROVE  Size(<<piece>>) = Wrapped(piece)
<1>1. <<>> \in Seq(Piece) /\ Append(<<>>, piece) = <<piece>>
  OBVIOUS
<1>2. Wrapped(piece) \in Int
  BY LimitsAreNat DEF Wrapped, Piece
<1>3. Size(Append(<<>>, piece)) = Size(<<>>) + Wrapped(piece)
  BY <1>1, SizeOfAppend
<1> QED BY <1>1, <1>2, <1>3, SizeOfEmpty

-----------------------------------------------------------------------------
(* Cutting a segment *)

LEMMA PieceLengthIs ==
    /\ PieceLength \in Nat /\ PieceLength >= 1
    /\ PieceLength + Label <= MaxChars
  BY ExtractionAssumption DEF PieceLength

(* Every character is in exactly one piece. *)
LEMMA CutPoints ==
    ASSUME NEW P \in Nat, P >= 1, NEW L \in Nat, NEW k \in 1..L
    PROVE  \E q \in 1..((L + P - 1) \div P) :
               /\ (q - 1) * P + 1 <= k /\ k <= q * P
               /\ \A r \in Nat : (r - 1) * P + 1 <= k /\ k <= r * P => r = q
<1> DEFINE j == (k - 1) \div P  N == (L + P - 1) \div P
<1>1. j \in Nat /\ N \in Nat
  OBVIOUS
<1>2. j * P <= k - 1 /\ k - 1 < (j + 1) * P
  OBVIOUS
<1>3. N * P <= L + P - 1 /\ L + P - 1 < (N + 1) * P
  OBVIOUS
<1>4. \A a, b \in Int : a < b => a * P + P <= b * P
  <2> SUFFICES ASSUME NEW a \in Int, NEW b \in Int, a < b PROVE a * P + P <= b * P
    OBVIOUS
  <2>1. b - a - 1 \in Nat
    OBVIOUS
  <2>2. (b - a - 1) * P >= 0
    BY <2>1
  <2>3. (b - a - 1) * P = b * P - a * P - P
    OBVIOUS
  <2> QED BY <2>2, <2>3
<1> HIDE DEF j, N
<1>5. (j + 1) * P = j * P + P /\ (N + 1) * P = N * P + P
  BY <1>1
<1>6. \A a \in Int : a * P \in Int
  OBVIOUS
<1>7. j + 1 <= N
  <2> SUFFICES ASSUME N < j + 1 PROVE FALSE
    BY <1>1
  <2>1. N * P <= j * P
    <3>1. N * P + P <= (j + 1) * P
      BY <1>1, <1>4
    <3> QED BY <1>1, <1>5, <1>6, <3>1
  <2>2. L + P - 1 < N * P + P /\ N * P <= L - 1
    BY <1>1, <1>2, <1>3, <1>5, <1>6, <2>1
  <2> QED BY <1>1, <1>2, <1>3, <1>5, <1>6, <2>1
<1>8. ASSUME NEW r \in Nat, (r - 1) * P + 1 <= k, k <= r * P PROVE r = j + 1
  <2>1. (r - 1) * P = r * P - P
    OBVIOUS
  <2>2. ~(r < j + 1)
    <3> SUFFICES ASSUME r < j + 1 PROVE FALSE
      OBVIOUS
    <3>1. r * P + P <= (j + 1) * P
      BY <1>1, <1>4
    <3> QED BY <1>1, <1>2, <1>5, <1>6, <1>8, <3>1
  <2>3. ~(j + 1 < r)
    <3> SUFFICES ASSUME j + 1 < r PROVE FALSE
      OBVIOUS
    <3>1. (j + 1) * P + P <= r * P
      BY <1>1, <1>4
    <3> QED BY <1>1, <1>2, <1>5, <1>6, <1>8, <2>1, <3>1
  <2> QED BY <1>1, <2>2, <2>3
<1>9. ((j + 1) - 1) * P + 1 <= k /\ k <= (j + 1) * P
  <2>1. (j + 1) - 1 = j
    BY <1>1
  <2> QED BY <1>1, <1>2, <1>5, <1>6, <2>1
<1>10. j + 1 \in 1..N
  BY <1>1, <1>7
<1> QED BY <1>8, <1>9, <1>10 DEF N

(* Segment n of L characters in pieces that fit a chunk.                    *)
Cuts(pieces, n, L) ==
    /\ pieces \in Seq(Piece)
    /\ \A p \in DOMAIN pieces : pieces[p].segment = n /\ Wrapped(pieces[p]) <= MaxChars
    /\ \A k \in 1..L : \E q \in DOMAIN pieces : \A p \in DOMAIN pieces :
           Within([from |-> k, segment |-> n, to |-> k], pieces[p]) <=> p = q

LEMMA PiecesAre ==
    ASSUME NEW n \in Nat, NEW L \in Nat
    PROVE  Cuts(Pieces(n, L), n, L)
<1> DEFINE P == PieceLength  N == (L + P - 1) \div P
<1>1. P \in Nat /\ P >= 1 /\ P + Label <= MaxChars
  BY PieceLengthIs
<1> HIDE DEF P
<1>2. N \in Nat
  BY <1>1
<1>3. \A p \in 1..N : (p - 1) * P \in Nat /\ p * P \in Nat /\ p * P = (p - 1) * P + P
  BY <1>1
<1>4. Pieces(n, L) = [p \in 1..N |->
          [from |-> (p - 1) * P + 1, segment |-> n, to |-> Lowest(p * P, L)]]
  BY DEF Pieces, P
<1> HIDE DEF N
<1>5. ASSUME NEW p \in 1..N
      PROVE  /\ Pieces(n, L)[p] \in Piece /\ Pieces(n, L)[p].segment = n
             /\ Pieces(n, L)[p].from = (p - 1) * P + 1
             /\ Pieces(n, L)[p].to = Lowest(p * P, L)
             /\ Wrapped(Pieces(n, L)[p]) <= MaxChars
  <2>1. Pieces(n, L)[p] =
            [from |-> (p - 1) * P + 1, segment |-> n, to |-> Lowest(p * P, L)]
    BY <1>4
  <2>2. Lowest(p * P, L) \in Nat /\ Lowest(p * P, L) <= p * P
    BY <1>3 DEF Lowest
  <2>3. (p - 1) * P + 1 \in Nat
    BY <1>3
  <2>4. Lowest(p * P, L) - ((p - 1) * P + 1) + 1 + Label <= MaxChars
    BY <1>1, <1>3, <2>2, LimitsAreNat
  <2> QED BY <2>1, <2>2, <2>3, <2>4 DEF Piece, Wrapped
<1>6. DOMAIN Pieces(n, L) = 1..N
  BY <1>4
<1>7. Pieces(n, L) \in Seq(Piece)
  <2>1. Pieces(n, L) = [p \in 1..N |-> Pieces(n, L)[p]]
    BY <1>4
  <2> QED BY <1>2, <1>5, <2>1
<1>8. ASSUME NEW k \in 1..L
      PROVE  \E q \in 1..N : \A p \in 1..N :
                Within([from |-> k, segment |-> n, to |-> k], Pieces(n, L)[p]) <=> p = q
  <2>1. PICK q \in 1..N :
            /\ (q - 1) * P + 1 <= k /\ k <= q * P
            /\ \A r \in Nat : (r - 1) * P + 1 <= k /\ k <= r * P => r = q
    BY <1>1, CutPoints DEF N
  <2>2. ASSUME NEW p \in 1..N
        PROVE  Within([from |-> k, segment |-> n, to |-> k], Pieces(n, L)[p]) <=> p = q
    <3>1. Within([from |-> k, segment |-> n, to |-> k], Pieces(n, L)[p])
             <=> (p - 1) * P + 1 <= k /\ k <= Lowest(p * P, L)
      BY <1>5 DEF Within
    <3>2. k <= Lowest(p * P, L) <=> k <= p * P
      BY <1>3 DEF Lowest
    <3> HIDE DEF Within
    <3> QED BY <2>1, <3>1, <3>2
  <2> QED BY <2>2
<1>9. \A k \in 1..L : \E q \in DOMAIN Pieces(n, L) : \A p \in DOMAIN Pieces(n, L) :
          Within([from |-> k, segment |-> n, to |-> k], Pieces(n, L)[p]) <=> p = q
  <2> DEFINE At(k, p) == Within([from |-> k, segment |-> n, to |-> k], Pieces(n, L)[p])
  <2>1. \A k \in 1..L : \E q \in 1..N : \A p \in 1..N : At(k, p) <=> p = q
    BY <1>8
  <2> HIDE DEF At
  <2>2. \A k \in 1..L : \E q \in DOMAIN Pieces(n, L) : \A p \in DOMAIN Pieces(n, L) :
            At(k, p) <=> p = q
    BY <1>6, <2>1
  <2> QED BY <2>2 DEF At
<1>10. \A p \in DOMAIN Pieces(n, L) :
           Pieces(n, L)[p].segment = n /\ Wrapped(Pieces(n, L)[p]) <= MaxChars
  BY <1>5, <1>6
<1> QED BY <1>7, <1>9, <1>10, Zenon DEF Cuts

-----------------------------------------------------------------------------
(* Where the characters are *)

Segments(chunks, n) ==
    \A i \in DOMAIN chunks : \A p \in DOMAIN chunks[i] : chunks[i][p].segment \in 1..n

(* The first n segments of d are in chunks, each character in one place.    *)
Covered(chunks, d, n) ==
    /\ Segments(chunks, n)
    /\ \A s \in 1..n : \A k \in 1..d[s] : \E at : Places(chunks, s, k) = {at}

LEMMA PlaceOf ==
    ASSUME NEW chunks, NEW s, NEW k, NEW at
    PROVE  at \in Places(chunks, s, k) <=>
               \E i \in DOMAIN chunks : \E p \in DOMAIN chunks[i] :
                   /\ at = <<i, p>>
                   /\ Within([from |-> k, segment |-> s, to |-> k], chunks[i][p])
  BY DEF Places

(* More chunks that leave what there is and add segment n.                  *)
LEMMA CoversMore ==
    ASSUME NEW d, NEW n \in Nat, n >= 1, NEW chunks, NEW more,
           Covered(chunks, d, n - 1),
           \A i \in DOMAIN chunks : \A p \in DOMAIN chunks[i] :
               i \in DOMAIN more /\ p \in DOMAIN more[i] /\ more[i][p] = chunks[i][p],
           \A i \in DOMAIN more : \A p \in DOMAIN more[i] :
               (i \in DOMAIN chunks /\ p \in DOMAIN chunks[i]) \/ more[i][p].segment = n,
           \A k \in 1..d[n] : \E at : Places(more, n, k) = {at}
    PROVE  Covered(more, d, n)
<1>1. Segments(more, n)
  <2> SUFFICES ASSUME NEW i \in DOMAIN more, NEW p \in DOMAIN more[i]
               PROVE  more[i][p].segment \in 1..n
    BY DEF Segments
  <2>1. CASE i \in DOMAIN chunks /\ p \in DOMAIN chunks[i]
    <3>1. chunks[i][p].segment \in 1..(n - 1) /\ more[i][p] = chunks[i][p]
      BY <2>1 DEF Covered, Segments
    <3> QED BY <3>1
  <2>2. CASE more[i][p].segment = n
    BY <2>2
  <2> QED BY <2>1, <2>2
<1>2. ASSUME NEW s \in 1..n, NEW k \in 1..d[s] PROVE \E at : Places(more, s, k) = {at}
  <2>1. CASE s = n
    BY <2>1
  <2>2. CASE s # n
    <3>1. PICK at : Places(chunks, s, k) = {at}
      <4>1. s \in 1..(n - 1)
        BY <2>2
      <4> QED BY <4>1 DEF Covered
    <3>2. ASSUME NEW x \in Places(chunks, s, k) PROVE x \in Places(more, s, k)
      <4>1. PICK i \in DOMAIN chunks : \E p \in DOMAIN chunks[i] :
                x = <<i, p>> /\ Within([from |-> k, segment |-> s, to |-> k], chunks[i][p])
        BY PlaceOf
      <4>2. PICK p \in DOMAIN chunks[i] :
                x = <<i, p>> /\ Within([from |-> k, segment |-> s, to |-> k], chunks[i][p])
        BY <4>1
      <4> QED BY <4>2, PlaceOf
    <3>3. ASSUME NEW x \in Places(more, s, k) PROVE x \in Places(chunks, s, k)
      <4>1. PICK i \in DOMAIN more : \E p \in DOMAIN more[i] :
                x = <<i, p>> /\ Within([from |-> k, segment |-> s, to |-> k], more[i][p])
        BY PlaceOf
      <4>2. PICK p \in DOMAIN more[i] :
                x = <<i, p>> /\ Within([from |-> k, segment |-> s, to |-> k], more[i][p])
        BY <4>1
      <4>3. more[i][p].segment = s
        BY <4>2 DEF Within
      <4>4. i \in DOMAIN chunks /\ p \in DOMAIN chunks[i] /\ more[i][p] = chunks[i][p]
        BY <2>2, <4>3
      <4> QED BY <4>2, <4>4, PlaceOf
    <3>4. Places(more, s, k) = {at}
      BY <3>1, <3>2, <3>3
    <3> QED BY <3>4
  <2> QED BY <2>1, <2>2
<1> QED BY <1>1, <1>2 DEF Covered

(* An empty chunk holds nothing. *)
LEMMA CoversSame ==
    ASSUME NEW d, NEW n, NEW chunks, NEW more, Covered(chunks, d, n),
           \A i \in DOMAIN chunks : \A p \in DOMAIN chunks[i] :
               i \in DOMAIN more /\ p \in DOMAIN more[i] /\ more[i][p] = chunks[i][p],
           \A i \in DOMAIN more : \A p \in DOMAIN more[i] :
               i \in DOMAIN chunks /\ p \in DOMAIN chunks[i]
    PROVE  Covered(more, d, n)
<1>1. Segments(more, n)
  BY DEF Covered, Segments
<1>2. ASSUME NEW s \in 1..n, NEW k \in 1..d[s] PROVE \E at : Places(more, s, k) = {at}
  <2> DEFINE Here(c, i, p) == Within([from |-> k, segment |-> s, to |-> k], c[i][p])
  <2>1. ASSUME NEW at PROVE at \in Places(more, s, k) <=> at \in Places(chunks, s, k)
    <3>1. \A i : \A p : i \in DOMAIN more /\ p \in DOMAIN more[i]
              <=> i \in DOMAIN chunks /\ p \in DOMAIN chunks[i]
      OBVIOUS
    <3>2. \A i \in DOMAIN chunks : \A p \in DOMAIN chunks[i] :
              Here(more, i, p) <=> Here(chunks, i, p)
      OBVIOUS
    <3>3. /\ at \in Places(more, s, k) <=> \E i \in DOMAIN more : \E p \in DOMAIN more[i] :
                                             at = <<i, p>> /\ Here(more, i, p)
          /\ at \in Places(chunks, s, k) <=>
                 \E i \in DOMAIN chunks : \E p \in DOMAIN chunks[i] :
                     at = <<i, p>> /\ Here(chunks, i, p)
      BY PlaceOf
    <3> HIDE DEF Here
    <3> QED BY <3>1, <3>2, <3>3
  <2>2. Places(more, s, k) = Places(chunks, s, k)
    BY <2>1
  <2> QED BY <2>2 DEF Covered
<1> QED BY <1>1, <1>2 DEF Covered

-----------------------------------------------------------------------------
(* chunk_document *)

States == [chunks : Seq(Seq(Piece)), open : Seq(Piece), size : Nat, whole : BOOLEAN]

Sized(state) ==
    /\ state.size = Size(state.open) /\ state.size <= MaxChars
    /\ \A i \in DOMAIN state.chunks : Size(state.chunks[i]) <= MaxChars
    /\ Len(state.chunks) <= MaxChunks

(* The chunks, the open one included. *)
All(state) == Append(state.chunks, state.open)

(* After n segments of d: unless something was left out, they are covered.  *)
Loop(state, d, n) ==
    /\ state \in States /\ Sized(state)
    /\ state.whole => Covered(All(state), d, n)

LEMMA CoversEmpty ==
    ASSUME NEW d, NEW n, NEW chunks \in Seq(Seq(Piece))
    PROVE  Covered(chunks, d, n) <=> Covered(Append(chunks, <<>>), d, n)
<1> DEFINE more == Append(chunks, <<>>)
<1>1. /\ DOMAIN chunks = 1..Len(chunks) /\ DOMAIN more = 1..(Len(chunks) + 1)
      /\ Len(chunks) \in Nat
      /\ \A i \in 1..Len(chunks) : more[i] = chunks[i]
      /\ more[Len(chunks) + 1] = <<>> /\ DOMAIN <<>> = {}
  OBVIOUS
<1> HIDE DEF more
<1>2. \A i \in DOMAIN chunks : i \in DOMAIN more /\ more[i] = chunks[i]
  BY <1>1
<1>3. \A i \in DOMAIN more : \A p \in DOMAIN more[i] : i \in DOMAIN chunks
  BY <1>1
<1>4. ASSUME Covered(chunks, d, n) PROVE Covered(more, d, n)
  <2>1. \A i \in DOMAIN chunks : \A p \in DOMAIN chunks[i] :
            i \in DOMAIN more /\ p \in DOMAIN more[i] /\ more[i][p] = chunks[i][p]
    BY <1>2
  <2>2. \A i \in DOMAIN more : \A p \in DOMAIN more[i] :
            i \in DOMAIN chunks /\ p \in DOMAIN chunks[i]
    BY <1>2, <1>3
  <2> QED BY <1>4, <2>1, <2>2, CoversSame
<1>5. ASSUME Covered(more, d, n) PROVE Covered(chunks, d, n)
  <2>1. \A i \in DOMAIN more : \A p \in DOMAIN more[i] :
            i \in DOMAIN chunks /\ p \in DOMAIN chunks[i] /\ chunks[i][p] = more[i][p]
    BY <1>2, <1>3
  <2>2. \A i \in DOMAIN chunks : \A p \in DOMAIN chunks[i] :
            i \in DOMAIN more /\ p \in DOMAIN more[i]
    BY <1>2
  <2> QED BY <1>5, <2>1, <2>2, CoversSame
<1> QED BY <1>4, <1>5 DEF more

LEMMA PushIs ==
    ASSUME NEW state \in States
    PROVE  /\ Push(state) \in States /\ Push(state).whole = state.whole
           /\ Push(state).open = <<>>
           /\ state.open = <<>> => Push(state) = state
           /\ state.open # <<>> => /\ Push(state).chunks = All(state)
                                   /\ Push(state).size = 0
<1>1. CASE state.open = <<>>
  BY <1>1 DEF Push, States
<1>2. CASE state.open # <<>>
  <2>1. Push(state) = [state EXCEPT !.chunks = Append(@, state.open), !.open = <<>>, !.size = 0]
    BY <1>2 DEF Push
  <2>2. Append(state.chunks, state.open) \in Seq(Seq(Piece)) /\ <<>> \in Seq(Piece)
    BY DEF States
  <2>3. /\ Push(state).chunks = All(state) /\ Push(state).open = <<>>
        /\ Push(state).size = 0 /\ Push(state).whole = state.whole
    BY <2>1 DEF States, All
  <2>4. Push(state) \in States
    <3>1. 0 \in Nat /\ state.whole \in BOOLEAN
      BY DEF States
    <3> QED BY <2>1, <2>2, <3>1 DEF States
  <2> QED BY <1>2, <2>3, <2>4
<1> QED BY <1>1, <1>2

LEMMA PushKeeps ==
    ASSUME NEW d, NEW n, NEW state, Loop(state, d, n), ~Full(state)
    PROVE  Loop(Push(state), d, n)
<1>1. state \in States /\ Sized(state) /\ (state.whole => Covered(All(state), d, n))
  BY DEF Loop
<1>2. CASE state.open = <<>>
  BY <1>1, <1>2, PushIs
<1>3. CASE state.open # <<>>
  <2>1. PICK flushed : flushed = Push(state)
    OBVIOUS
  <2>2. /\ flushed \in States /\ flushed.chunks = All(state) /\ flushed.open = <<>>
        /\ flushed.size = 0 /\ flushed.whole = state.whole
    BY <1>1, <1>3, <2>1, PushIs
  <2>3. /\ state.chunks \in Seq(Seq(Piece)) /\ state.open \in Seq(Piece)
        /\ flushed.chunks \in Seq(Seq(Piece))
    BY <1>1, <2>2 DEF States
  <2>4. /\ Len(state.chunks) \in Nat /\ DOMAIN flushed.chunks = 1..(Len(state.chunks) + 1)
        /\ DOMAIN state.chunks = 1..Len(state.chunks)
        /\ \A i \in 1..Len(state.chunks) : flushed.chunks[i] = state.chunks[i]
        /\ flushed.chunks[Len(state.chunks) + 1] = state.open
        /\ Len(flushed.chunks) = Len(state.chunks) + 1
    BY <2>2, <2>3 DEF All
  <2>5. Sized(flushed)
    <3>1. flushed.size = Size(flushed.open) /\ flushed.size <= MaxChars
      BY <2>2, SizeOfEmpty, LimitsAreNat
    <3>2. \A i \in DOMAIN flushed.chunks : Size(flushed.chunks[i]) <= MaxChars
      BY <1>1, <2>4 DEF Sized
    <3>3. Len(flushed.chunks) <= MaxChunks
      BY <2>4, LimitsAreNat DEF Full
    <3> QED BY <3>1, <3>2, <3>3 DEF Sized
  <2>6. ASSUME flushed.whole PROVE Covered(All(flushed), d, n)
    <3>1. Covered(flushed.chunks, d, n)
      BY <1>1, <2>2, <2>6
    <3> QED BY <2>2, <2>3, <3>1, CoversEmpty DEF All
  <2> QED BY <2>1, <2>2, <2>5, <2>6 DEF Loop
<1> QED BY <1>2, <1>3

(* more is q and x, its l-th.                                               *)
OneMore(more, q, x, l) ==
    /\ l \in Nat /\ l >= 1 /\ DOMAIN q = 1..(l - 1)
    /\ DOMAIN more = 1..l /\ more[l] = x
    /\ \A i \in 1..(l - 1) : more[i] = q[i]

LEMMA AppendIs ==
    ASSUME NEW S, NEW q \in Seq(S), NEW x \in S
    PROVE  OneMore(Append(q, x), q, x, Len(q) + 1)
<1>1. Len(q) \in Nat /\ DOMAIN q = 1..Len(q)
  OBVIOUS
<1>2. Append(q, x) \in Seq(S) /\ Len(Append(q, x)) = Len(q) + 1
  BY AppendProperties
<1>3. DOMAIN Append(q, x) = 1..(Len(q) + 1)
  BY <1>2
<1>4. /\ Append(q, x)[Len(q) + 1] = x
      /\ \A i \in 1..Len(q) : Append(q, x)[i] = q[i]
  BY AppendProperties
<1>5. (Len(q) + 1) - 1 = Len(q)
  BY <1>1
<1> QED BY <1>1, <1>3, <1>4, <1>5 DEF OneMore

LEMMA AddKeeps ==
    ASSUME NEW d \in Seq(Nat), NEW n \in 1..Len(d), NEW state, Loop(state, d, n - 1),
           state.size + d[n] + Label <= MaxChars,
           NEW piece, piece = [from |-> 1, segment |-> n, to |-> d[n]],
           NEW next,
           next = [chunks |-> state.chunks, open |-> Append(state.open, piece),
                   size |-> state.size + d[n] + Label, whole |-> state.whole]
    PROVE  Loop(next, d, n)
<1> DEFINE length == d[n]  last == Len(state.chunks) + 1  place == Len(state.open) + 1
<1>1. piece = [from |-> 1, segment |-> n, to |-> length]
  OBVIOUS
<1>2. /\ state \in States /\ Sized(state) /\ (state.whole => Covered(All(state), d, n - 1))
      /\ length \in Nat /\ n \in Nat /\ n >= 1
  BY DEF Loop
<1>3. /\ state.chunks \in Seq(Seq(Piece)) /\ state.open \in Seq(Piece) /\ state.size \in Nat
      /\ state.whole \in BOOLEAN /\ Len(state.chunks) \in Nat /\ Len(state.open) \in Nat
  BY <1>2 DEF States
<1> HIDE DEF length
<1>4. piece \in Piece /\ Wrapped(piece) = length + Label
  <2>1. piece.from = 1 /\ piece.segment = n /\ piece.to = length
    BY <1>1
  <2>2. Wrapped(piece) = length + Label
    BY <1>2, <2>1, LimitsAreNat DEF Wrapped
  <2>3. piece \in Piece
    BY <1>1, <1>2 DEF Piece
  <2> QED BY <2>2, <2>3
<1>5. /\ next.chunks = state.chunks /\ next.whole = state.whole
      /\ next.open = Append(state.open, piece) /\ next.size = state.size + length + Label
  BY DEF length
<1>6. next \in States
  <2>1. state.size + length + Label \in Nat
    <3>1. \A x, y, z \in Nat : x + y + z \in Nat
      OBVIOUS
    <3> QED BY <1>2, <1>3, <3>1, LimitsAreNat
  <2>2. Append(state.open, piece) \in Seq(Piece)
    BY <1>3, <1>4
  <2> QED BY <1>3, <2>1, <2>2 DEF States, length
<1>7. Sized(next)
  <2>1. Size(next.open) = Size(state.open) + Wrapped(piece)
    BY <1>3, <1>4, <1>5, SizeOfAppend
  <2>2. next.size = Size(next.open)
    BY <1>2, <1>3, <1>4, <1>5, <2>1, LimitsAreNat DEF Sized
  <2>3. next.size <= MaxChars
    BY <1>5 DEF length
  <2> QED BY <1>2, <1>5, <2>2, <2>3 DEF Sized
<1>8. ASSUME next.whole PROVE Covered(All(next), d, n)
  <2> DEFINE a == All(state)  b == All(next)
  <2>1. Covered(a, d, n - 1)
    BY <1>2, <1>5, <1>8
  <2>2. /\ DOMAIN a = 1..last /\ DOMAIN b = 1..last
        /\ \A i \in 1..(last - 1) : a[i] = state.chunks[i] /\ b[i] = state.chunks[i]
        /\ a[last] = state.open /\ b[last] = next.open
    <3>1. next.open \in Seq(Piece)
      BY <1>6 DEF States
    <3>2. a = Append(state.chunks, state.open) /\ b = Append(state.chunks, next.open)
      BY <1>5 DEF All
    <3>3. last = Len(state.chunks) + 1
      OBVIOUS
    <3> HIDE DEF a, b, last
    <3>4. /\ DOMAIN a = 1..last /\ a[last] = state.open
          /\ \A i \in 1..(last - 1) : a[i] = state.chunks[i]
      <4>1. OneMore(a, state.chunks, state.open, last)
        BY <1>3, <3>2, <3>3, AppendIs
      <4> QED BY <4>1 DEF OneMore
    <3>5. /\ DOMAIN b = 1..last /\ b[last] = next.open
          /\ \A i \in 1..(last - 1) : b[i] = state.chunks[i]
      <4>1. OneMore(b, state.chunks, next.open, last)
        BY <1>3, <3>1, <3>2, <3>3, AppendIs
      <4> QED BY <4>1 DEF OneMore
    <3> QED BY <3>4, <3>5
  <2>3. /\ DOMAIN state.open = 1..(place - 1) /\ DOMAIN next.open = 1..place
        /\ \A p \in 1..(place - 1) : next.open[p] = state.open[p]
        /\ next.open[place] = piece
    <3>1. place = Len(state.open) + 1
      OBVIOUS
    <3> HIDE DEF place
    <3>2. OneMore(next.open, state.open, piece, place)
      BY <1>3, <1>4, <1>5, <3>1, AppendIs
    <3> QED BY <3>2 DEF OneMore
  <2>4. last \in Nat /\ place \in Nat /\ last >= 1 /\ place >= 1
    BY <1>3, SMTT(30)
  <2> HIDE DEF a, b, last, place
  <2>5. \A i \in DOMAIN a : \A p \in DOMAIN a[i] :
            i \in DOMAIN b /\ p \in DOMAIN b[i] /\ b[i][p] = a[i][p]
    <3> SUFFICES ASSUME NEW i \in DOMAIN a, NEW p \in DOMAIN a[i]
                 PROVE  i \in DOMAIN b /\ p \in DOMAIN b[i] /\ b[i][p] = a[i][p]
      OBVIOUS
    <3>1. CASE i = last
      BY <2>4, <2>2, <2>3, <3>1
    <3>2. CASE i # last
      <4>1. i \in 1..(last - 1)
        BY <2>4, <2>2, <3>2
      <4>2. i \in 1..last /\ a[i] = state.chunks[i] /\ b[i] = state.chunks[i]
        BY <2>4, <2>2, <4>1
      <4> QED BY <2>2, <4>2
    <3> QED BY <3>1, <3>2
  <2>6. ASSUME NEW i \in DOMAIN b, NEW p \in DOMAIN b[i]
        PROVE  \/ i \in DOMAIN a /\ p \in DOMAIN a[i]
               \/ i = last /\ p = place
    <3>1. CASE i = last
      BY <2>4, <2>2, <2>3, <3>1
    <3>2. CASE i # last
      <4>1. i \in 1..(last - 1)
        BY <2>4, <2>2, <3>2
      <4> QED BY <2>4, <2>2, <4>1
    <3> QED BY <3>1, <3>2
  <2>7. last \in DOMAIN b /\ place \in DOMAIN b[last] /\ b[last][place] = piece
    BY <2>4, <2>2, <2>3
  <2>8. \A i \in DOMAIN b : \A p \in DOMAIN b[i] :
            (i \in DOMAIN a /\ p \in DOMAIN a[i]) \/ b[i][p].segment = n
    BY <1>1, <2>6, <2>7
  <2>9. ASSUME NEW k \in 1..d[n] PROVE \E at : Places(b, n, k) = {at}
    <3> DEFINE Here(i, p) == Within([from |-> k, segment |-> n, to |-> k], b[i][p])
    <3>1. Here(last, place)
      BY <1>1, <2>7 DEF Within, length
    <3>2. ASSUME NEW i \in DOMAIN b, NEW p \in DOMAIN b[i], Here(i, p)
          PROVE  i = last /\ p = place
      <4>1. b[i][p].segment = n
        BY <3>2 DEF Within
      <4>2. ~(i \in DOMAIN a /\ p \in DOMAIN a[i])
        BY <1>2, <2>1, <2>5, <4>1 DEF Covered, Segments
      <4> QED BY <2>6, <4>2
    <3>3. \A i \in DOMAIN b : \A p \in DOMAIN b[i] : Here(i, p) <=> i = last /\ p = place
      <4> HIDE DEF Here
      <4> QED BY <3>1, <3>2
    <3>4. \A j \in DOMAIN b : \A q \in DOMAIN b[j] :
              Within([from |-> k, segment |-> n, to |-> k], b[j][q])
                  <=> j = last /\ q = place
      BY <3>3
    <3>5. ASSUME NEW at PROVE at \in Places(b, n, k) <=> at = <<last, place>>
      BY <2>7, <3>4, PlaceOf
    <3>6. Places(b, n, k) = {<<last, place>>}
      BY <3>5
    <3> QED BY <3>6
  <2>10. Covered(b, d, n)
    BY <1>2, <2>1, <2>5, <2>8, <2>9, CoversMore, ZenonT(30)
  <2> QED BY <2>10 DEF b
<1> QED BY <1>6, <1>7, <1>8 DEF Loop

LEMMA CutKeeps ==
    ASSUME NEW d \in Seq(Nat), NEW n \in 1..Len(d), NEW state, Loop(state, d, n - 1),
           state.whole, state.open = <<>>
    PROVE  Loop(Cut(state, n, d[n]), d, n)
<1> DEFINE c == Len(state.chunks)
           room == MaxChunks - c
<1>1. PICK pieces : pieces = Pieces(n, d[n])
  OBVIOUS
<1>2. PICK m : m = Lowest(room, Len(pieces))
  OBVIOUS
<1>3. PICK singles : singles = [p \in 1..m |-> <<pieces[p]>>]
  OBVIOUS
<1>4. PICK more : more = state.chunks \o singles
  OBVIOUS
<1>5. PICK next : next = Cut(state, n, d[n])
  OBVIOUS
<1>6. /\ state \in States /\ Sized(state) /\ Covered(All(state), d, n - 1)
      /\ d[n] \in Nat /\ n \in Nat /\ n >= 1
  BY DEF Loop
<1>7. state.chunks \in Seq(Seq(Piece)) /\ c \in Nat /\ c <= MaxChunks /\ state.size \in Nat
  BY <1>6 DEF States, Sized
<1>8. /\ pieces \in Seq(Piece) /\ DOMAIN pieces = 1..Len(pieces)
      /\ \A p \in DOMAIN pieces : /\ pieces[p].segment = n /\ Wrapped(pieces[p]) <= MaxChars
                                  /\ pieces[p] \in Piece
      /\ \A k \in 1..d[n] : \E q \in DOMAIN pieces : \A p \in DOMAIN pieces :
             Within([from |-> k, segment |-> n, to |-> k], pieces[p]) <=> p = q
  <2>1. Cuts(pieces, n, d[n])
    BY <1>1, <1>6, PiecesAre
  <2>2. pieces \in Seq(Piece)
    BY <2>1 DEF Cuts
  <2>3. DOMAIN pieces = 1..Len(pieces) /\ \A p \in DOMAIN pieces : pieces[p] \in Piece
    BY <2>2
  <2> QED BY <2>1, <2>2, <2>3 DEF Cuts
<1>9. /\ Len(pieces) \in Nat /\ room \in Nat /\ m \in Nat
      /\ m <= room /\ m <= Len(pieces)
      /\ Len(pieces) <= room => m = Len(pieces)
      /\ \A p \in 1..m : p \in DOMAIN pieces
  <2>1. Len(pieces) \in Nat /\ room \in Nat
    BY <1>7, <1>8, LimitsAreNat, SMTT(30)
  <2> HIDE DEF room
  <2>2. /\ m \in Nat /\ m <= room /\ m <= Len(pieces)
        /\ Len(pieces) <= room => m = Len(pieces)
    BY <1>2, <2>1, SMTT(30) DEF Lowest
  <2>3. \A p \in 1..m : p \in 1..Len(pieces)
    BY <2>1, <2>2
  <2> QED BY <1>8, <2>1, <2>2, <2>3, Zenon
<1> HIDE DEF c, room
<1>10. singles \in Seq(Seq(Piece)) /\ Len(singles) = m
  <2>1. ASSUME NEW p \in 1..m PROVE <<pieces[p]>> \in Seq(Piece)
    <3>1. pieces[p] \in Piece
      BY <1>8, <1>9
    <3> QED BY <3>1
  <2> QED BY <1>3, <1>9, <2>1
<1>11. /\ more \in Seq(Seq(Piece)) /\ Len(more) = c + m /\ DOMAIN more = 1..(c + m)
       /\ DOMAIN state.chunks = 1..c
       /\ \A i \in 1..c : more[i] = state.chunks[i]
       /\ \A p \in 1..m : more[c + p] = <<pieces[p]>>
  <2>1. Len(state.chunks) = c /\ DOMAIN state.chunks = 1..c
    BY <1>7 DEF c
  <2>2. /\ state.chunks \o singles \in Seq(Seq(Piece))
        /\ Len(state.chunks \o singles) = Len(state.chunks) + Len(singles)
        /\ \A i \in 1..(Len(state.chunks) + Len(singles)) :
               (state.chunks \o singles)[i] =
                   IF i <= Len(state.chunks) THEN state.chunks[i]
                   ELSE singles[i - Len(state.chunks)]
    BY <1>7, <1>10, ConcatProperties, ZenonT(30)
  <2>3. /\ more \in Seq(Seq(Piece)) /\ Len(more) = c + m
        /\ \A i \in 1..(c + m) : more[i] =
               IF i <= c THEN state.chunks[i] ELSE singles[i - c]
    BY <1>4, <1>10, <2>1, <2>2
  <2>4. DOMAIN more = 1..(c + m)
    BY <2>3
  <2>5. c \in Nat /\ m \in Nat
    BY <1>7, <1>9
  <2>6. \A i \in 1..c : more[i] = state.chunks[i]
    BY <2>3, <2>5
  <2>7. ASSUME NEW p \in 1..m PROVE more[c + p] = <<pieces[p]>>
    <3>1. c + p \in 1..(c + m) /\ ~(c + p <= c) /\ (c + p) - c = p
      BY <2>5
    <3>2. more[c + p] = singles[p]
      BY <2>3, <3>1
    <3> QED BY <1>3, <3>2
  <2> QED BY <2>1, <2>3, <2>4, <2>6, <2>7
<1>12. ASSUME NEW i \in 1..(c + m), i \notin 1..c
       PROVE  i - c \in 1..m /\ i = c + (i - c)
  <2>1. c \in Nat /\ m \in Nat
    BY <1>7, <1>9
  <2> QED BY <1>12, <2>1
<1>13. next = [chunks |-> more, open |-> <<>>, size |-> state.size,
               whole |-> Len(pieces) <= room]
  BY <1>1, <1>2, <1>3, <1>4, <1>5, <1>6 DEF Cut, States, room, c
<1>14. next \in States
  <2>1. <<>> \in Seq(Piece) /\ (Len(pieces) <= room) \in BOOLEAN
    OBVIOUS
  <2> QED BY <1>7, <1>11, <1>13, <2>1 DEF States
<1>15. next.chunks = more /\ next.open = <<>> /\ next.size = state.size
       /\ next.whole = (Len(pieces) <= room)
  BY <1>13
<1>16. Sized(next)
  <2>1. ASSUME NEW i \in DOMAIN more PROVE Size(more[i]) <= MaxChars
    <3>1. CASE i \in 1..c
      BY <1>6, <1>11, <3>1 DEF Sized
    <3>2. CASE i \notin 1..c
      <4>1. i - c \in 1..m /\ more[i] = <<pieces[i - c]>>
        BY <1>11, <1>12, <3>2
      <4>2. i - c \in DOMAIN pieces
        BY <1>9, <4>1
      <4>3. pieces[i - c] \in Piece /\ Wrapped(pieces[i - c]) <= MaxChars
        BY <1>8, <4>2
      <4> QED BY <4>1, <4>3, SizeOfOne
    <3> QED BY <3>1, <3>2
  <2>2. Len(more) <= MaxChunks
    BY <1>7, <1>9, <1>11, LimitsAreNat DEF room
  <2> QED BY <1>6, <1>15, <2>1, <2>2 DEF Sized
<1>17. ASSUME next.whole PROVE Covered(All(next), d, n)
  <2>1. m = Len(pieces)
    BY <1>9, <1>15, <1>17
  <2>2. Covered(state.chunks, d, n - 1)
    BY <1>6, <1>7, CoversEmpty DEF All
  <2>3. \A i \in DOMAIN state.chunks : \A p \in DOMAIN state.chunks[i] :
            i \in DOMAIN more /\ p \in DOMAIN more[i] /\ more[i][p] = state.chunks[i][p]
    <3>1. \A i \in 1..c : i \in 1..(c + m)
      BY <1>7, <1>9
    <3> QED BY <1>11, <3>1
  <2>4. ASSUME NEW i \in DOMAIN more, NEW p \in DOMAIN more[i]
        PROVE  \/ i \in DOMAIN state.chunks /\ p \in DOMAIN state.chunks[i]
               \/ /\ i - c \in DOMAIN pieces /\ i = c + (i - c) /\ p = 1
                  /\ more[i][p] = pieces[i - c]
    <3>1. CASE i \in 1..c
      BY <1>11, <3>1
    <3>2. CASE i \notin 1..c
      <4>1. i - c \in 1..m /\ more[i] = <<pieces[i - c]>> /\ i = c + (i - c)
        BY <1>11, <1>12, <3>2
      <4>2. p = 1 /\ more[i][p] = pieces[i - c]
        BY <4>1
      <4> QED BY <1>8, <2>1, <4>1, <4>2
    <3> QED BY <3>1, <3>2
  <2>5. \A i \in DOMAIN more : \A p \in DOMAIN more[i] :
            (i \in DOMAIN state.chunks /\ p \in DOMAIN state.chunks[i])
                \/ more[i][p].segment = n
    BY <1>8, <2>4
  <2>6. ASSUME NEW k \in 1..d[n] PROVE \E at : Places(more, n, k) = {at}
    <3>1. PICK q \in DOMAIN pieces : \A p \in DOMAIN pieces :
              Within([from |-> k, segment |-> n, to |-> k], pieces[p]) <=> p = q
      BY <1>8
    <3>2. c + q \in DOMAIN more /\ 1 \in DOMAIN more[c + q] /\ more[c + q][1] = pieces[q]
      <4>1. q \in 1..m
        BY <1>8, <2>1
      <4>2. more[c + q] = <<pieces[q]>>
        BY <1>11, <4>1
      <4>3. c \in Nat /\ m \in Nat
        BY <1>7, <1>9
      <4>4. c + q \in 1..(c + m)
        BY <4>1, <4>3
      <4>5. c + q \in DOMAIN more
        BY <1>11, <4>4
      <4> QED BY <4>2, <4>5
    <3>3. ASSUME NEW i \in DOMAIN more, NEW p \in DOMAIN more[i],
                 Within([from |-> k, segment |-> n, to |-> k], more[i][p])
          PROVE  i = c + q /\ p = 1
      <4>1. more[i][p].segment = n
        BY <3>3 DEF Within
      <4>2. ~(i \in DOMAIN state.chunks /\ p \in DOMAIN state.chunks[i])
        <5> SUFFICES ASSUME i \in DOMAIN state.chunks, p \in DOMAIN state.chunks[i]
                     PROVE  FALSE
          OBVIOUS
        <5>1. state.chunks[i][p].segment \in 1..(n - 1)
          BY <2>2 DEF Covered, Segments
        <5> QED BY <1>6, <2>3, <4>1, <5>1
      <4>3. i - c \in DOMAIN pieces /\ i = c + (i - c) /\ p = 1 /\ more[i][p] = pieces[i - c]
        BY <2>4, <4>2
      <4>4. i - c = q
        BY <3>1, <3>3, <4>3
      <4> QED BY <4>3, <4>4
    <3>4. ASSUME NEW at PROVE at \in Places(more, n, k) <=> at = <<c + q, 1>>
      BY <3>1, <3>2, <3>3, PlaceOf
    <3>5. Places(more, n, k) = {<<c + q, 1>>}
      BY <3>4
    <3> QED BY <3>5
  <2>7. Covered(more, d, n)
    BY <1>6, <2>2, <2>3, <2>5, <2>6, CoversMore
  <2> QED BY <1>11, <1>15, <2>7, CoversEmpty DEF All
<1> QED BY <1>5, <1>14, <1>16, <1>17 DEF Loop

LEMMA TakeKeeps ==
    ASSUME NEW d \in Seq(Nat), NEW n \in 1..Len(d), NEW state, Loop(state, d, n - 1)
    PROVE  Loop(TakeSegment(state, n, d[n]), d, n)
<1> DEFINE length == d[n]
<1>1. /\ state \in States /\ Sized(state) /\ length \in Nat /\ n \in Nat
      /\ (state.whole => Covered(All(state), d, n - 1))
  BY DEF Loop
<1>2. state.whole \in BOOLEAN /\ state.size \in Nat
  BY <1>1 DEF States
<1>3. ASSUME NEW s \in States, Sized(s), ~s.whole PROVE Loop(s, d, n)
  BY <1>3 DEF Loop
<1>4. ASSUME NEW s \in States, Sized(s)
      PROVE  Loop([s EXCEPT !.whole = FALSE], d, n)
  <2>1. PICK r : r = [s EXCEPT !.whole = FALSE]
    OBVIOUS
  <2>2. /\ r \in States /\ r.chunks = s.chunks /\ r.open = s.open /\ r.size = s.size
        /\ ~r.whole
    BY <2>1 DEF States
  <2>3. Sized(r)
    BY <1>4, <2>2 DEF Sized
  <2> QED BY <1>3, <2>1, <2>2, <2>3
<1>5. CASE ~state.whole
  <2>1. TakeSegment(state, n, length) = state
    BY <1>5 DEF TakeSegment
  <2> QED BY <1>1, <1>3, <1>5, <2>1
<1>6. CASE state.whole /\ Full(state)
  <2>1. TakeSegment(state, n, length) = [state EXCEPT !.whole = FALSE]
    BY <1>6 DEF TakeSegment
  <2> QED BY <1>1, <1>4, <2>1
<1>7. CASE state.whole /\ ~Full(state) /\ length + Label > MaxChars
  <2>1. TakeSegment(state, n, length) = Cut(Push(state), n, length)
    BY <1>7 DEF TakeSegment
  <2>2. Loop(Push(state), d, n - 1)
    BY <1>7, PushKeeps
  <2>3. Push(state).whole /\ Push(state).open = <<>>
    BY <1>1, <1>7, PushIs
  <2> QED BY <2>1, <2>2, <2>3, CutKeeps
<1>8. CASE state.whole /\ ~Full(state) /\ ~(length + Label > MaxChars)
  <2>1. TakeSegment(state, n, length) = Fill(state, n, length)
    BY <1>8 DEF TakeSegment
  <2>2. PICK flushed :
            flushed = IF state.size + length + Label > MaxChars THEN Push(state) ELSE state
    OBVIOUS
  <2>3. Loop(flushed, d, n - 1)
    BY <1>8, <2>2, PushKeeps
  <2>4. flushed \in States /\ Sized(flushed)
    BY <2>3 DEF Loop
  <2>5. CASE flushed.open = <<>> /\ Full(flushed)
    <3>1. Fill(state, n, length) = [flushed EXCEPT !.whole = FALSE]
      BY <2>2, <2>5 DEF Fill
    <3> QED BY <1>4, <2>1, <2>4, <3>1
  <2>6. CASE ~(flushed.open = <<>> /\ Full(flushed))
    <3>1. PICK piece : piece = [from |-> 1, segment |-> n, to |-> length]
      OBVIOUS
    <3>2. Fill(state, n, length) =
              [flushed EXCEPT !.open = Append(@, piece), !.size = @ + length + Label]
      BY <2>2, <2>6, <3>1 DEF Fill
    <3>3. Fill(state, n, length) =
              [chunks |-> flushed.chunks, open |-> Append(flushed.open, piece),
               size |-> flushed.size + length + Label, whole |-> flushed.whole]
      BY <2>4, <3>2 DEF States
    <3>4. flushed.size + length + Label <= MaxChars
      <4>1. CASE state.size + length + Label > MaxChars
        <5>1. flushed = Push(state) /\ flushed.open = <<>>
          BY <1>1, <2>2, <4>1, PushIs
        <5>2. flushed.size = 0
          BY <2>4, <5>1, SizeOfEmpty DEF Sized
        <5> QED BY <1>1, <1>8, <5>2, LimitsAreNat
      <4>2. CASE ~(state.size + length + Label > MaxChars)
        BY <1>1, <1>2, <2>2, <4>2, LimitsAreNat
      <4> QED BY <4>1, <4>2
    <3> QED BY <2>1, <2>3, <3>1, <3>3, <3>4, AddKeeps
  <2> QED BY <2>5, <2>6
<1> QED BY <1>2, <1>5, <1>6, <1>7, <1>8

-----------------------------------------------------------------------------
(* All of a document *)

LEMMA LoopStarts ==
    ASSUME NEW d
    PROVE  Loop([chunks |-> <<>>, open |-> <<>>, size |-> 0, whole |-> TRUE], d, 0)
<1>1. PICK state : state = [chunks |-> <<>>, open |-> <<>>, size |-> 0, whole |-> TRUE]
  OBVIOUS
<1>2. state \in States
  <2>1. <<>> \in Seq(Seq(Piece)) /\ <<>> \in Seq(Piece)
    OBVIOUS
  <2> QED BY <1>1, <2>1 DEF States
<1>3. Sized(state)
  <2>1. Len(<<>>) = 0 /\ DOMAIN <<>> = {}
    OBVIOUS
  <2>2. /\ state.chunks = <<>> /\ state.open = <<>> /\ state.size = 0
    BY <1>1
  <2>3. 0 <= MaxChars /\ 0 <= MaxChunks
    BY LimitsAreNat
  <2> QED BY <2>1, <2>2, <2>3, SizeOfEmpty, Zenon DEF Sized
<1>4. Covered(All(state), d, 0)
  <2>1. All(state) = Append(<<>>, <<>>) /\ <<>> \in Seq(Seq(Piece))
    BY <1>1 DEF All
  <2>2. Covered(<<>>, d, 0)
    <3>1. DOMAIN <<>> = {} /\ 1..0 = {}
      OBVIOUS
    <3> QED BY <3>1, Zenon DEF Covered, Segments
  <2>3. Covered(Append(<<>>, <<>>), d, 0)
    BY <2>1, <2>2, CoversEmpty, ZenonT(30)
  <2> QED BY <2>1, <2>3
<1> QED BY <1>1, <1>2, <1>3, <1>4 DEF Loop

(* The loop goes through states that cover what was taken.                  *)
LEMMA LoopKeeps ==
    ASSUME NEW d \in Seq(Nat)
    PROVE  \A n \in 0..Len(d) : Loop(Taken(d)[n], d, n)
<1> DEFINE m == Len(d)
           Start == [chunks |-> <<>>, open |-> <<>>, size |-> 0, whole |-> TRUE]
           Value(f, k) == IF k = 0 THEN Start ELSE TakeSegment(f[k - 1], k, d[k])
           Solves(f) == f = [k \in 0..m |-> Value(f, k)]
           next == [x \in States \X (1..m) |->
                        IF TakeSegment(x[1], x[2], d[x[2]]) \in States
                        THEN TakeSegment(x[1], x[2], d[x[2]]) ELSE Start]
<1>1. m \in Nat /\ Loop(Start, d, 0) /\ Start \in States
  <2>1. Loop(Start, d, 0)
    BY LoopStarts
  <2> QED BY <2>1 DEF Loop
<1> HIDE DEF Start
<1>2. next \in [States \X (1..m) -> States]
  <2> HIDE DEF m
  <2> QED BY <1>1
<1>3. PICK h \in [0..m -> States] : Follows(h, Start, next, m)
  <2> HIDE DEF next, m
  <2> QED BY <1>1, <1>2, RecursionExists, Zenon
<1>4. ASSUME NEW f, NEW k \in 1..m, Loop(f[k - 1], d, k - 1)
      PROVE  Loop(TakeSegment(f[k - 1], k, d[k]), d, k)
  BY <1>4, TakeKeeps
<1>5. \A k \in 0..m : Loop(h[k], d, k) /\ (k # 0 => h[k] = TakeSegment(h[k - 1], k, d[k]))
  <2> DEFINE H == {k \in 0..m : /\ Loop(h[k], d, k)
                                /\ k # 0 => h[k] = TakeSegment(h[k - 1], k, d[k])}
  <2>1. 0 \in H
    BY <1>1, <1>3 DEF Follows
  <2>2. ASSUME NEW k \in 1..m, k - 1 \in H PROVE k \in H
    <3>1. Loop(TakeSegment(h[k - 1], k, d[k]), d, k)
      BY <1>4, <2>2
    <3>2. TakeSegment(h[k - 1], k, d[k]) \in States
      BY <3>1 DEF Loop
    <3>3. h[k] = next[<<h[k - 1], k>>] /\ h[k - 1] \in States
      <4>1. h[k] = next[<<h[k - 1], k>>]
        <5> HIDE DEF next, m
        <5> QED BY <1>3 DEF Follows
      <4>2. k - 1 \in 0..m
        BY <1>1
      <4> QED BY <1>3, <4>1, <4>2
    <3>4. h[k] = TakeSegment(h[k - 1], k, d[k])
      BY <3>2, <3>3
    <3>5. k \in 0..m
      BY <1>1
    <3> QED BY <3>1, <3>4, <3>5
  <2>3. \A k \in 0..m : k \in H
    <3> HIDE DEF H, m
    <3> QED BY <1>1, <2>1, <2>2, AllUpTo
  <2> QED BY <2>3
<1>6. Solves(h)
  <2>1. \A k \in 0..m : h[k] = Value(h, k)
    <3>1. h[0] = Start
      BY <1>3 DEF Follows
    <3> QED BY <1>5, <3>1
  <2> HIDE DEF Value, m
  <2> QED BY <1>3, <2>1
<1> DEFINE g == CHOOSE f : Solves(f)
<1>7. Solves(g)
  <2> HIDE DEF Solves
  <2> QED BY <1>6, Zenon
<1>8. Taken(d) = g
  BY DEF Taken, Start
<1> HIDE DEF g
<1>9. \A k \in 0..m : g[k] = Value(g, k)
  <2> HIDE DEF Value, m
  <2> QED BY <1>7
<1>10. \A k \in 0..m : Loop(g[k], d, k)
  <2> DEFINE H == {k \in 0..m : Loop(g[k], d, k)}
  <2>1. 0 \in H
    BY <1>1, <1>9
  <2>2. ASSUME NEW k \in 1..m, k - 1 \in H PROVE k \in H
    <3>1. k \in 0..m /\ k # 0
      BY <1>1
    <3>2. g[k] = TakeSegment(g[k - 1], k, d[k])
      BY <1>9, <3>1
    <3> QED BY <1>4, <2>2, <3>1, <3>2
  <2>3. \A k \in 0..m : k \in H
    <3> HIDE DEF H, m
    <3> QED BY <1>1, <2>1, <2>2, AllUpTo
  <2> QED BY <2>3
<1> QED BY <1>8, <1>10

(* What chunk_document returns, unless something was left out.              *)
LEMMA ChunkedCovers ==
    ASSUME NEW d \in Seq(Nat), Chunked(d).whole
    PROVE  /\ Chunked(d).chunks \in Seq(Seq(Piece))
           /\ Len(Chunked(d).chunks) <= MaxChunks
           /\ \A i \in DOMAIN Chunked(d).chunks : Size(Chunked(d).chunks[i]) <= MaxChars
           /\ Covered(Chunked(d).chunks, d, Len(d))
<1>1. PICK state : state = Taken(d)[Len(d)]
  OBVIOUS
<1>2. Loop(state, d, Len(d))
  BY <1>1, LoopKeeps
<1>3. state \in States
  BY <1>2 DEF Loop
<1>4. CASE Full(state)
  <2>1. Chunked(d) = [state EXCEPT !.whole = @ /\ state.open = <<>>]
    BY <1>1, <1>4 DEF Chunked
  <2>2. Chunked(d).chunks = state.chunks /\ state.whole /\ state.open = <<>>
    BY <1>3, <2>1 DEF States
  <2>3. state.chunks \in Seq(Seq(Piece))
    BY <1>3 DEF States
  <2>4. Covered(state.chunks, d, Len(d))
    BY <1>2, <2>2, <2>3, CoversEmpty DEF Loop, All
  <2> QED BY <1>2, <2>2, <2>3, <2>4 DEF Loop, Sized
<1>5. CASE ~Full(state)
  <2>1. PICK last : last = Push(state)
    OBVIOUS
  <2>2. Chunked(d) = last
    BY <1>1, <1>5, <2>1 DEF Chunked
  <2>3. Loop(last, d, Len(d)) /\ last.open = <<>>
    BY <1>2, <1>3, <1>5, <2>1, PushKeeps, PushIs
  <2>4. last.chunks \in Seq(Seq(Piece))
    BY <2>3 DEF Loop, States
  <2>5. Covered(last.chunks, d, Len(d))
    BY <2>2, <2>3, <2>4, CoversEmpty DEF Loop, All
  <2> QED BY <2>2, <2>3, <2>4, <2>5 DEF Loop, Sized
<1> QED BY <1>4, <1>5

-----------------------------------------------------------------------------
(* validate_extraction_response *)

Usable(candidates) ==
    /\ candidates \in Seq(Offered) /\ IsInjective(candidates)
    /\ \A i \in DOMAIN candidates : InDocument(candidates[i])

LEMMA KeptOneMore ==
    ASSUME NEW candidates, Usable(candidates), NEW c \in Offered, InDocument(c),
           c \notin ToSet(candidates)
    PROVE  Usable(Append(candidates, c))
<1> DEFINE n == Len(candidates)  more == Append(candidates, c)
<1>1. candidates \in Seq(Offered)
  BY DEF Usable
<1>2. /\ n \in Nat /\ more \in Seq(Offered) /\ DOMAIN more = 1..(n + 1) /\ more[n + 1] = c
      /\ DOMAIN candidates = 1..n /\ \A i \in 1..n : more[i] = candidates[i]
  BY <1>1
<1> HIDE DEF n, more
<1>3. \A i \in 1..n : InDocument(candidates[i]) /\ candidates[i] # c
  BY <1>2 DEF Usable, ToSet
<1>4. ASSUME NEW i \in DOMAIN more, NEW j \in DOMAIN more, more[i] = more[j]
      PROVE  i = j
  <2>1. (i \in 1..n \/ i = n + 1) /\ (j \in 1..n \/ j = n + 1)
    BY <1>2
  <2>2. CASE i \in 1..n /\ j \in 1..n
    BY <1>2, <1>4, <2>2 DEF Usable, IsInjective
  <2>3. CASE ~(i \in 1..n /\ j \in 1..n)
    BY <1>2, <1>3, <1>4, <2>1, <2>3
  <2> QED BY <2>2, <2>3
<1>5. IsInjective(more)
  BY <1>4 DEF IsInjective
<1>6. \A i \in DOMAIN more : InDocument(more[i])
  BY <1>2, <1>3
<1> QED BY <1>2, <1>5, <1>6 DEF Usable, more

LEMMA ValidatedIsUsable ==
    ASSUME NEW candidates \in Seq(Offered)
    PROVE  Usable(Validated(candidates))
<1> DEFINE m == Len(candidates)
           Kept(before, c) == IF c.sound /\ InDocument(c) /\ c \notin ToSet(before)
                              THEN Append(before, c) ELSE before
           Value(f, k) == IF k = 0 THEN <<>> ELSE Kept(f[k - 1], candidates[k])
           Solves(f) == f = [k \in 0..m |-> Value(f, k)]
           next == [x \in Seq(Offered) \X (1..m) |-> Kept(x[1], candidates[x[2]])]
<1>1. m \in Nat /\ \A k \in 1..m : candidates[k] \in Offered
  OBVIOUS
<1>2. ASSUME NEW before \in Seq(Offered), NEW k \in 1..m
      PROVE  Kept(before, candidates[k]) \in Seq(Offered)
  BY <1>1
<1>3. ASSUME NEW before, Usable(before), NEW k \in 1..m
      PROVE  Usable(Kept(before, candidates[k]))
  BY <1>1, <1>3, KeptOneMore
<1>4. <<>> \in Seq(Offered) /\ Usable(<<>>)
  BY DEF Usable, IsInjective
<1> HIDE DEF Kept
<1>5. next \in [Seq(Offered) \X (1..m) -> Seq(Offered)]
  <2> HIDE DEF m
  <2> QED BY <1>2
<1>6. PICK h \in [0..m -> Seq(Offered)] : Follows(h, <<>>, next, m)
  <2> HIDE DEF next, m
  <2> QED BY <1>1, <1>4, <1>5, RecursionExists, Zenon
<1>7. \A k \in 1..m : h[k] = Kept(h[k - 1], candidates[k])
  <2> SUFFICES ASSUME NEW k \in 1..m PROVE h[k] = Kept(h[k - 1], candidates[k])
    OBVIOUS
  <2>1. h[k] = next[<<h[k - 1], k>>]
    <3> HIDE DEF next, m
    <3> QED BY <1>6 DEF Follows
  <2>2. k - 1 \in 0..m
    BY <1>1
  <2>3. h[k - 1] \in Seq(Offered)
    BY <1>6, <2>2
  <2> QED BY <2>1, <2>3
<1>8. Solves(h)
  <2>1. \A k \in 0..m : h[k] = Value(h, k)
    <3>1. h[0] = <<>>
      BY <1>6 DEF Follows
    <3> QED BY <1>7, <3>1
  <2> HIDE DEF Value, m
  <2> QED BY <1>6, <2>1
<1> DEFINE g == CHOOSE f : Solves(f)
<1>9. Solves(g)
  <2> HIDE DEF Solves
  <2> QED BY <1>8, Zenon
<1>10. Validated(candidates) = g[m]
  BY DEF Validated, Kept
<1> HIDE DEF g
<1>11. \A k \in 0..m : g[k] = Value(g, k)
  <2> HIDE DEF Value, m
  <2> QED BY <1>9
<1>12. \A k \in 0..m : Usable(g[k])
  <2> DEFINE H == {k \in 0..m : Usable(g[k])}
  <2>1. 0 \in H
    BY <1>1, <1>4, <1>11
  <2>2. ASSUME NEW k \in 1..m, k - 1 \in H PROVE k \in H
    <3>1. k \in 0..m /\ k # 0
      BY <1>1
    <3>2. g[k] = Kept(g[k - 1], candidates[k])
      BY <1>11, <3>1
    <3> QED BY <1>3, <2>2, <3>1, <3>2
  <2>3. \A k \in 0..m : k \in H
    <3> HIDE DEF H, m
    <3> QED BY <1>1, <2>1, <2>2, AllUpTo
  <2> QED BY <2>3
<1> QED BY <1>1, <1>10, <1>12

LEMMA SentencesAreOffered ==
    /\ Sentences \in Seq(Offered)
    /\ SubSeq(Sentences, 1, Lowest(MaxCandidates, Len(Sentences))) \in Seq(Offered)
<1> DEFINE S == {c \in Offered : InDocument(c)}
<1>1. IsFiniteSet(S) /\ Cardinality(S) \in Nat
  <2>1. S \subseteq Offered
    OBVIOUS
  <2>2. IsFiniteSet(S)
    BY <2>1, ExtractionAssumption, FS_Subset
  <2> HIDE DEF S
  <2> QED BY <2>2, FS_CardinalityType
<1>2. \E f \in [1..Cardinality(S) -> S] : IsInjective(f)
  <2> HIDE DEF S
  <2>1. ExistsBijection(1..Cardinality(S), S)
    BY <1>1, FS_NatBijection, FS_CountingElements
  <2> QED BY <2>1 DEF ExistsBijection, Bijection, Injection, IsInjective
<1>3. Sentences = CHOOSE f \in [1..Cardinality(S) -> S] : IsInjective(f)
  BY DEF Sentences, SetToSeq
<1>4. Sentences \in [1..Cardinality(S) -> S]
  <2> HIDE DEF S
  <2> QED BY <1>2, <1>3
<1>5. Sentences \in [1..Cardinality(S) -> Offered]
  BY <1>4
<1>6. Sentences \in Seq(Offered)
  <2> HIDE DEF S
  <2> QED BY <1>1, <1>5
<1>7. Lowest(MaxCandidates, Len(Sentences)) \in 0..Len(Sentences)
  BY <1>6, LimitsAreNat DEF Lowest
<1> HIDE DEF S
<1> QED BY <1>6, <1>7

-----------------------------------------------------------------------------
(* The import *)

(* What was stored is of a document that is in its chunks, and complete     *)
(* only if every chunk was answered.                                        *)
Stored ==
    outcome.coverage # None =>
        /\ ~Extracting /\ CompletesDocument
        /\ outcome.coverage.missed = {} => failed = {}
        /\ IsInjective(outcome.candidates)
        /\ \A i \in DOMAIN outcome.candidates : InDocument(outcome.candidates[i])

ImportInv ==
    /\ document \in Documents
    /\ chunk \in Nat \ {0} /\ attempt \in {1, 2}
    /\ found \in Seq(Offered) /\ Len(found) <= MaxCandidates + MostOffered
    /\ Extracting => Len(found) <= MaxCandidates
    /\ failed \subseteq 1..Len(Chunks) /\ (chunk = 1 => failed = {})
    /\ outcome = [candidates |-> outcome.candidates, coverage |-> outcome.coverage,
                  status |-> outcome.status]
    /\ outcome.status \in {"extracting", "failed_retryable", "review_required"}
    /\ Stored

LEMMA CompleteIsCovered ==
    ASSUME ImportInv, CompletesDocument
    PROVE  /\ document \in Seq(Nat) /\ Len(Chunks) \in Nat /\ Len(Chunks) <= MaxChunks
           /\ \A n \in DOMAIN Chunks : Size(Chunks[n]) <= MaxChars
           /\ Covered(Chunks, document, Len(document))
<1>1. document \in Seq(Nat)
  BY ExtractionAssumption DEF ImportInv
<1>2. Chunked(document).whole
  BY DEF CompletesDocument
<1>3. /\ Chunks \in Seq(Seq(Piece)) /\ Len(Chunks) <= MaxChunks
      /\ \A n \in DOMAIN Chunks : Size(Chunks[n]) <= MaxChars
      /\ Covered(Chunks, document, Len(document))
  BY <1>1, <1>2, ChunkedCovers DEF Chunks
<1>4. Len(Chunks) \in Nat
  BY <1>3
<1> QED BY <1>1, <1>3, <1>4

LEMMA ImportStarts == ExtractionInit => ImportInv
<1> SUFFICES ASSUME ExtractionInit PROVE ImportInv
  OBVIOUS
<1>1. <<>> \in Seq(Offered) /\ Len(<<>>) = 0
  OBVIOUS
<1>2. /\ document \in Documents /\ chunk = 1 /\ attempt = 1 /\ found = <<>> /\ failed = {}
      /\ outcome = [candidates |-> <<>>, coverage |-> None, status |-> "extracting"]
  BY DEF ExtractionInit
<1>3. /\ outcome.candidates = <<>> /\ outcome.coverage = None
      /\ outcome.status = "extracting"
  BY <1>2
<1>4. Stored
  BY <1>3 DEF Stored
<1> QED BY <1>1, <1>2, <1>3, <1>4, LimitsAreNat DEF ImportInv

(* Nothing is stored while the import is extracting. *)
LEMMA NotYetStored ==
    ASSUME ImportInv, Extracting
    PROVE  outcome.coverage = None
  BY DEF ImportInv, Stored

LEMMA SameDocument ==
    ASSUME UNCHANGED document
    PROVE  /\ Chunks' = Chunks /\ CompletesDocument' = CompletesDocument
           /\ \A c : InDocument(c)' = InDocument(c)
  BY DEF Chunks, CompletesDocument, InDocument

LEMMA FailureKeeps ==
    ASSUME ImportInv, Extracting, ExtractionFails
    PROVE  ImportInv'
<1>1. /\ outcome' = [outcome EXCEPT !.status = "failed_retryable"]
      /\ UNCHANGED <<document, chunk, attempt, found, failed>>
  BY DEF ExtractionFails
<1>2. outcome' = [candidates |-> outcome.candidates, coverage |-> None,
                  status |-> "failed_retryable"]
  <2>1. outcome = [candidates |-> outcome.candidates, coverage |-> None,
                   status |-> outcome.status]
    BY NotYetStored DEF ImportInv
  <2> QED BY <1>1, <2>1
<1>3. /\ outcome'.candidates = outcome.candidates /\ outcome'.coverage = None
      /\ outcome'.status = "failed_retryable" /\ ~Extracting'
  BY <1>2 DEF Extracting
<1>4. Stored'
  BY <1>3 DEF Stored
<1> QED BY <1>1, <1>2, <1>3, <1>4, SameDocument DEF ImportInv

(* A chunk was asked about: the next one is asked about now, or the same    *)
(* one again.                                                               *)
LEMMA AskedKeeps ==
    ASSUME ImportInv, Asked, UNCHANGED document,
           chunk' \in {chunk, chunk + 1}, attempt' \in {1, 2},
           found' \in Seq(Offered), Len(found') <= MaxCandidates + MostOffered,
           failed' \in {failed, failed \cup {chunk}},
           chunk' = chunk => failed' = failed,
           \/ UNCHANGED outcome /\ Len(found') <= MaxCandidates
           \/ outcome' = [outcome EXCEPT !.status = "failed_retryable"]
    PROVE  ImportInv'
<1>1. Extracting /\ CompletesDocument /\ chunk <= Len(Chunks) /\ Len(Chunks) \in Nat
      /\ chunk \in Nat \ {0}
  BY CompleteIsCovered DEF Asked, ImportInv
<1>2. /\ document' \in Documents /\ chunk' \in Nat \ {0} /\ attempt' \in {1, 2}
      /\ Chunks' = Chunks
  BY <1>1, SameDocument DEF ImportInv
<1>3. failed' \subseteq 1..Len(Chunks)
  BY <1>1 DEF ImportInv
<1>4. chunk' = 1 => failed' = {}
  BY <1>1 DEF ImportInv
<1>5. CASE UNCHANGED outcome /\ Len(found') <= MaxCandidates
  <2>1. outcome'.coverage = None
    BY <1>1, <1>5, NotYetStored
  <2>2. Stored'
    BY <2>1 DEF Stored
  <2> QED BY <1>2, <1>3, <1>4, <1>5, <2>2 DEF ImportInv
<1>6. CASE outcome' = [outcome EXCEPT !.status = "failed_retryable"]
  <2>1. outcome' = [candidates |-> outcome.candidates, coverage |-> None,
                    status |-> "failed_retryable"]
    <3>1. outcome = [candidates |-> outcome.candidates, coverage |-> None,
                     status |-> outcome.status]
      BY <1>1, NotYetStored DEF ImportInv
    <3> QED BY <1>6, <3>1
  <2>2. /\ outcome'.candidates = outcome.candidates /\ outcome'.coverage = None
        /\ outcome'.status = "failed_retryable" /\ ~Extracting'
    BY <2>1 DEF Extracting
  <2>3. Stored'
    BY <2>2 DEF Stored
  <2> QED BY <1>2, <1>3, <1>4, <2>1, <2>2, <2>3 DEF ImportInv
<1> QED BY <1>5, <1>6

LEMMA AnswerKeeps ==
    ASSUME ImportInv, NEW candidates \in Answers, ChunkAnswered(candidates)
    PROVE  ImportInv'
<1>1. candidates \in Seq(Offered) /\ Len(candidates) <= MostOffered
  <2>1. PICK n \in 0..MostOffered : candidates \in [1..n -> Offered]
    BY DEF Answers
  <2> QED BY <2>1, LimitsAreNat
<1>2. /\ Asked /\ UNCHANGED document /\ chunk' = chunk + 1 /\ attempt' = 1
      /\ \/ found' = found \o candidates /\ failed' = failed
         \/ found' = found /\ failed' = failed \cup {chunk}
      /\ IF Len(found') > MaxCandidates
         THEN outcome' = [outcome EXCEPT !.status = "failed_retryable"]
         ELSE UNCHANGED outcome
  BY DEF ChunkAnswered, NextChunk
<1>3. /\ found \in Seq(Offered) /\ Len(found) <= MaxCandidates /\ Len(found) \in Nat
      /\ chunk \in Nat
  BY <1>2 DEF ImportInv, Asked
<1>4. found' \in Seq(Offered) /\ Len(found') \in Nat
      /\ Len(found') <= MaxCandidates + MostOffered
  <2>1. CASE found' = found \o candidates
    <3>1. found' \in Seq(Offered) /\ Len(found') = Len(found) + Len(candidates)
      BY <1>1, <1>3, <2>1, ConcatProperties
    <3>2. Len(candidates) \in Nat
      BY <1>1
    <3> QED BY <1>1, <1>3, <3>1, <3>2, LimitsAreNat
  <2>2. CASE found' = found
    BY <1>3, <2>2, LimitsAreNat
  <2> QED BY <1>2, <2>1, <2>2
<1>5. \/ UNCHANGED outcome /\ Len(found') <= MaxCandidates
      \/ outcome' = [outcome EXCEPT !.status = "failed_retryable"]
  BY <1>2, <1>4, LimitsAreNat
<1>6. chunk' # chunk
  BY <1>2, <1>3
<1> QED BY <1>2, <1>4, <1>5, <1>6, AskedKeeps

LEMMA StoreKeeps ==
    ASSUME ImportInv, Extracting, CompletesDocument,
           NEW candidates, Usable(candidates),
           NEW missed, missed = {} => failed = {},
           Store(candidates, Coverage(Len(Chunks), missed))
    PROVE  ImportInv'
<1>1. PICK coverage : coverage = Coverage(Len(Chunks), missed)
  OBVIOUS
<1>2. /\ outcome' = [candidates |-> candidates, coverage |-> coverage,
                     status |-> IF coverage.missed # {} THEN "failed_retryable"
                                ELSE "review_required"]
      /\ UNCHANGED <<document, chunk, attempt, found, failed>>
  BY <1>1 DEF Store
<1>3. coverage.missed = missed
  BY <1>1 DEF Coverage
<1>4. /\ outcome'.candidates = candidates /\ outcome'.coverage = coverage
      /\ outcome'.status \in {"failed_retryable", "review_required"} /\ ~Extracting'
  BY <1>2 DEF Extracting
<1>5. Stored'
  <2>1. CompletesDocument' /\ \A i \in DOMAIN candidates : InDocument(candidates[i])'
    BY <1>2, SameDocument DEF Usable
  <2>2. IsInjective(candidates)
    BY DEF Usable
  <2> QED BY <1>2, <1>3, <1>4, <2>1, <2>2 DEF Stored
<1>6. outcome' = [candidates |-> outcome'.candidates, coverage |-> outcome'.coverage,
                  status |-> outcome'.status]
  BY <1>2
<1> QED BY <1>2, <1>4, <1>5, <1>6, SameDocument DEF ImportInv

LEMMA ImportSteps == ImportInv /\ [ExtractionNext]_extractionVars => ImportInv'
<1> SUFFICES ASSUME ImportInv, [ExtractionNext]_extractionVars PROVE ImportInv'
  OBVIOUS
<1>1. CASE TooLong
  BY <1>1, FailureKeeps DEF TooLong
<1>2. CASE StorageFails
  BY <1>2, FailureKeeps DEF StorageFails
<1>3. ASSUME NEW candidates \in Answers, ChunkAnswered(candidates) PROVE ImportInv'
  BY <1>3, AnswerKeeps
<1>4. ASSUME Asked
      PROVE  /\ found \in Seq(Offered) /\ Len(found) <= MaxCandidates
             /\ Len(found) <= MaxCandidates + MostOffered
             /\ chunk \in Nat /\ attempt \in {1, 2}
  BY <1>4 DEF ImportInv, Asked
<1>5. CASE ProviderBusy
  <2>1. /\ Asked /\ UNCHANGED <<document, found, outcome>>
        /\ \/ attempt' = 2 /\ UNCHANGED <<chunk, failed>>
           \/ failed' = failed \cup {chunk} /\ chunk' = chunk + 1 /\ attempt' = 1
    BY <1>5 DEF ProviderBusy, NextChunk
  <2>2. chunk' = chunk => failed' = failed
    BY <1>4, <2>1
  <2> QED BY <1>4, <2>1, <2>2, AskedKeeps
<1>6. CASE ProviderFails
  <2>1. /\ Asked /\ UNCHANGED <<document, found, outcome>>
        /\ failed' = failed \cup {chunk} /\ chunk' = chunk + 1 /\ attempt' = 1
    BY <1>6 DEF ProviderFails, NextChunk
  <2>2. chunk' # chunk
    BY <1>4, <2>1
  <2> QED BY <1>4, <2>1, <2>2, AskedKeeps
<1>7. CASE Extracted
  <2>1. Extracting /\ CompletesDocument
        /\ Store(Validated(found), Coverage(Len(Chunks), failed))
    BY <1>7 DEF Extracted
  <2>2. Usable(Validated(found))
    BY ValidatedIsUsable DEF ImportInv
  <2> QED BY <2>1, <2>2, StoreKeeps
<1>8. CASE Scan
  <2>1. PICK taken : taken = SubSeq(Sentences, 1, Lowest(MaxCandidates, Len(Sentences)))
    OBVIOUS
  <2>2. /\ Extracting /\ CompletesDocument /\ chunk = 1
        /\ Store(Validated(taken), Coverage(Len(Chunks), {}))
    BY <1>8, <2>1 DEF Scan
  <2>3. Usable(Validated(taken))
    BY <2>1, SentencesAreOffered, ValidatedIsUsable
  <2>4. failed = {}
    BY <2>2 DEF ImportInv
  <2> QED BY <2>2, <2>3, <2>4, StoreKeeps
<1>9. CASE UNCHANGED extractionVars
  <2>1. UNCHANGED <<document, chunk, attempt, found, failed, outcome>>
    BY <1>9 DEF extractionVars
  <2>2. Stored'
    BY <2>1, SameDocument DEF ImportInv, Stored, Extracting
  <2> QED BY <2>1, <2>2, SameDocument DEF ImportInv, Extracting
<1> QED BY <1>1, <1>2, <1>3, <1>5, <1>6, <1>7, <1>8, <1>9 DEF ExtractionNext

LEMMA ImportInvariant == ExtractionSpec => []ImportInv
  BY ImportStarts, ImportSteps, PTL DEF ExtractionSpec

(* The chunks that failed are chunks of the document, and no more           *)
(* candidates are held than a last answer can bring over the limit.         *)
THEOREM ExtractionTypes == ExtractionSpec => []ExtractionTypeOK
<1>1. ImportInv => ExtractionTypeOK
  BY DEF ImportInv, ExtractionTypeOK
<1> QED BY <1>1, ImportInvariant, PTL

(* An import whose coverage is complete had every character of its document *)
(* in exactly one chunk, none over the budget and all of them answered, for *)
(* documents of any number of segments of any length, whatever the budget   *)
(* and the limits are (chunk_document; is_complete).                        *)
THEOREM CoverageHolds == ExtractionSpec => []CoverageIsTruthful
<1>1. ImportInv => CoverageIsTruthful
  <2> SUFFICES ASSUME ImportInv, outcome.coverage # None, IsComplete(outcome.coverage)
               PROVE  /\ failed = {}
                      /\ Len(Chunks) <= MaxChunks
                      /\ \A n \in DOMAIN Chunks : Size(Chunks[n]) <= MaxChars
                      /\ \A s \in DOMAIN document : \A k \in 1..document[s] :
                             Cardinality(Places(Chunks, s, k)) = 1
                      /\ IsInjective(outcome.candidates)
                      /\ \A i \in DOMAIN outcome.candidates :
                             InDocument(outcome.candidates[i])
    BY DEF CoverageIsTruthful
  <2>1. /\ CompletesDocument /\ failed = {} /\ IsInjective(outcome.candidates)
        /\ \A i \in DOMAIN outcome.candidates : InDocument(outcome.candidates[i])
    BY DEF ImportInv, Stored, IsComplete
  <2>2. /\ document \in Seq(Nat) /\ Len(Chunks) <= MaxChunks
        /\ \A n \in DOMAIN Chunks : Size(Chunks[n]) <= MaxChars
        /\ Covered(Chunks, document, Len(document))
    BY <2>1, CompleteIsCovered
  <2>3. ASSUME NEW s \in DOMAIN document, NEW k \in 1..document[s]
        PROVE  Cardinality(Places(Chunks, s, k)) = 1
    <3>1. s \in 1..Len(document)
      BY <2>2
    <3>2. PICK at : Places(Chunks, s, k) = {at}
      BY <2>2, <3>1 DEF Covered
    <3> QED BY <3>2, FS_Singleton
  <2> QED BY <2>1, <2>2, <2>3
<1> QED BY <1>1, ImportInvariant, PTL

-----------------------------------------------------------------------------
(* The versions of a collection *)

(* The rows of a version: unique imports and positions.                     *)
RowsOK(members) ==
    /\ IsFiniteSet(members)
    /\ members \subseteq [import : Imports, position : Nat]
    /\ \A m, n \in members : m.import = n.import \/ m.position = n.position => m = n

Increasing(v) == removed[v] = {} => \A m \in rows[v] : m.position < Cardinality(rows[v])

TablesInv ==
    /\ DOMAIN draft = Numbers /\ DOMAIN rows = Numbers /\ DOMAIN removed = Numbers
    /\ \A v \in Numbers :
           /\ draft[v] \in {None, TRUE, FALSE}
           /\ RowsOK(rows[v]) /\ Increasing(v)

(* What a clone has read: imports, a list.                                  *)
ReadOK(x) == x.read \in Seq(Imports)

PlaceOK(x) ==
    \/ x.step \in {"new", "done", "failed"}
    \/ x.step = "members" /\ x.from \in Numbers /\ x.to \in Numbers
    \/ x.step = "create" /\ x.to \in Numbers /\ ReadOK(x)
    \/ /\ x.step = "add" /\ x.to \in Numbers /\ ReadOK(x)
       /\ x.added \in 0..Len(x.read)
       /\ x = [added |-> x.added, read |-> x.read, step |-> "add", to |-> x.to]
    \/ x.step = "cloned" /\ x.to \in Numbers /\ ReadOK(x)

(* What request e has put into its version.                                 *)
Added(x) == IF x.step = "add" THEN 1..x.added
            ELSE IF x.step = "cloned" THEN 1..Len(x.read) ELSE {}

(* ... is there or was removed since, and is in order.                      *)
AddedStay(x) ==
    LET v == x.to  read == x.read IN
    /\ \A k \in Added(x) : read[k] \in ImportsOf(rows[v]) \cup removed[v]
    /\ removed[v] = {} =>
           \A m, n \in rows[v] : \A j, k \in Added(x) :
               j < k /\ m.import = read[j] /\ n.import = read[k] => m.position < n.position

VersionsInv ==
    /\ TablesInv
    /\ DOMAIN editor = Editors
    /\ \A e \in Editors : PlaceOK(editor[e]) /\ AddedStay(editor[e])

-----------------------------------------------------------------------------
(* In the order of positions                                                *)

Below(members, m) == {n \in members : n.position < m.position}

(* Each number below the number of rows is the rank of exactly one row.     *)
LEMMA OneOfEachRank ==
    ASSUME NEW members, RowsOK(members), NEW k \in 1..Cardinality(members)
    PROVE  \E m \in members : Cardinality(Below(members, m)) = k - 1
  <1> DEFINE n == Cardinality(members)
             rank == [m \in members |-> Cardinality(Below(members, m))]
             Ranks == 0..(n - 1)
  <1>1. IsFiniteSet(members) /\ n \in Nat
    BY FS_CardinalityType DEF RowsOK
  <1>2. ASSUME NEW m \in members
        PROVE  IsFiniteSet(Below(members, m)) /\ rank[m] \in Ranks
    <2>1. Below(members, m) \subseteq members \ {m}
      BY DEF Below, RowsOK
    <2>2. IsFiniteSet(members \ {m}) /\ Cardinality(members \ {m}) = n - 1
      BY <1>1, FS_RemoveElement
    <2>3. IsFiniteSet(Below(members, m)) /\ Cardinality(Below(members, m)) <= n - 1
      BY <2>1, <2>2, FS_Subset
    <2>4. Cardinality(Below(members, m)) \in Nat
      BY <2>3, FS_CardinalityType
    <2> QED BY <1>1, <2>3, <2>4
  <1>3. ASSUME NEW l \in members, NEW m \in members, l.position < m.position
        PROVE  rank[l] < rank[m]
    <2>1. Below(members, l) \cup {l} \subseteq Below(members, m) /\ l \notin Below(members, l)
      BY <1>3 DEF Below, RowsOK
    <2>2. Cardinality(Below(members, l) \cup {l}) = rank[l] + 1
      BY <1>2, <2>1, FS_AddElement
    <2>3. Cardinality(Below(members, l) \cup {l}) <= Cardinality(Below(members, m))
      BY <1>2, <2>1, FS_Subset
    <2>4. rank[l] \in Int /\ rank[m] \in Int
      BY <1>2
    <2> QED BY <2>2, <2>3, <2>4
  <1>4. rank \in Injection(members, Ranks)
    <2>1. rank \in [members -> Ranks]
      BY <1>2
    <2>2. ASSUME NEW l \in members, NEW m \in members, rank[l] = rank[m] PROVE l = m
      <3>1. l.position \in Nat /\ m.position \in Nat
        BY DEF RowsOK
      <3>2. rank[l] \in Int /\ rank[m] \in Int
        BY <1>2
      <3>3. ~(l.position < m.position) /\ ~(m.position < l.position)
        BY <1>3, <2>2, <3>2
      <3>4. l.position = m.position
        BY <3>1, <3>3
      <3> QED BY <3>4 DEF RowsOK
    <2> QED BY <2>1, <2>2 DEF Injection, IsInjective
  <1>5. IsFiniteSet(Ranks) /\ Cardinality(Ranks) = n
    <2>1. 0 \in Int /\ n - 1 \in Int
      BY <1>1
    <2>2. IsFiniteSet(Ranks) /\ Cardinality(Ranks) = IF 0 > n - 1 THEN 0 ELSE (n - 1) - 0 + 1
      BY <2>1, FS_Interval
    <2> QED BY <1>1, <2>2
  <1>6. rank \in Surjection(members, Ranks)
    BY <1>4, <1>5, FS_Injection
  <1>7. k - 1 \in Ranks
    BY <1>1
  <1> QED BY <1>6, <1>7 DEF Surjection

(* What a clone reads is a list of imports.                                 *)
LEMMA InOrderIsList ==
    ASSUME NEW members, RowsOK(members)
    PROVE  InOrder(members) \in Seq(Imports)
  <1>1. Cardinality(members) \in Nat
    BY FS_CardinalityType DEF RowsOK
  <1>2. ASSUME NEW k \in 1..Cardinality(members)
        PROVE  (CHOOSE m \in members :
                   Cardinality({n \in members : n.position < m.position}) = k - 1).import \in Imports
    <2>1. \E m \in members : Cardinality({n \in members : n.position < m.position}) = k - 1
      BY OneOfEachRank DEF Below
    <2>2. (CHOOSE m \in members :
              Cardinality({n \in members : n.position < m.position}) = k - 1) \in members
      BY <2>1
    <2> QED BY <2>2 DEF RowsOK
  <1>3. InOrder(members) \in [1..Cardinality(members) -> Imports]
    BY <1>2 DEF InOrder
  <1> QED BY <1>1, <1>3

-----------------------------------------------------------------------------
(* Steps                                                                    *)

(* What a step may do to the rows of a version.                             *)
Kept(v) == rows'[v] = rows[v] /\ removed'[v] = removed[v]

Grown(v) ==
    /\ removed'[v] = removed[v]
    /\ \E i \in Imports :
           /\ rows'[v] = rows[v] \cup
                  {[import |-> i, position |-> Cardinality(rows[v])]}
           /\ ~Clashes(rows[v], i, Cardinality(rows[v]))

Shrunk(v) ==
    \E i \in Imports :
        /\ rows'[v] = {m \in rows[v] : m.import # i}
        /\ removed'[v] = removed[v] \cup {i}

Changes(v) == Kept(v) \/ Grown(v) \/ Shrunk(v)

LEMMA RowsStayOK ==
    ASSUME VersionsInv, NEW v \in Numbers, Changes(v)
    PROVE  RowsOK(rows[v])' /\ Increasing(v)'
  <1>1. RowsOK(rows[v]) /\ Increasing(v)
    BY DEF VersionsInv, TablesInv
  <1>2. CASE Kept(v)
    BY <1>1, <1>2 DEF Kept, RowsOK, Increasing
  <1>3. CASE Grown(v)
    <2> DEFINE n == Cardinality(rows[v])
    <2>1. PICK i \in Imports : /\ rows'[v] = rows[v] \cup {[import |-> i, position |-> n]}
                               /\ ~Clashes(rows[v], i, n)
      BY <1>3 DEF Grown
    <2>2. n \in Nat
      BY <1>1, FS_CardinalityType DEF RowsOK
    <2> DEFINE row == [import |-> i, position |-> n]
    <2>3. \A m \in rows[v] : m.import # row.import /\ m.position # row.position
      BY <2>1 DEF Clashes
    <2>4. row \notin rows[v]
      BY <2>3
    <2>5. IsFiniteSet(rows'[v]) /\ Cardinality(rows'[v]) = n + 1
      <3> HIDE DEF row
      <3>1. IsFiniteSet(rows[v]) /\ rows'[v] = rows[v] \cup {row}
        BY <1>1, <2>1 DEF RowsOK, row
      <3> QED BY <2>4, <3>1, FS_AddElement
    <2>6. row \in [import : Imports, position : Nat]
      BY <2>2
    <2>7. rows'[v] \subseteq [import : Imports, position : Nat]
      BY <1>1, <2>1, <2>6 DEF RowsOK
    <2>8. \A l, m \in rows'[v] : l.import = m.import \/ l.position = m.position => l = m
      BY <1>1, <2>1, <2>3 DEF RowsOK
    <2>9. Increasing(v)'
      <3>1. ASSUME removed'[v] = {}, NEW m \in rows'[v]
            PROVE  m.position < n + 1
        <4>1. \A l \in rows[v] : l.position < n /\ l.position \in Nat
          BY <1>1, <1>3, <3>1 DEF Increasing, Grown, RowsOK
        <4> QED BY <2>1, <2>2, <3>1, <4>1
      <3> QED BY <2>5, <3>1 DEF Increasing
    <2> QED BY <2>5, <2>7, <2>8, <2>9 DEF RowsOK
  <1>4. CASE Shrunk(v)
    <2>1. rows'[v] \subseteq rows[v] /\ removed'[v] # {}
      BY <1>4 DEF Shrunk
    <2>2. IsFiniteSet(rows'[v])
      <3>1. rows'[v] \in SUBSET rows[v] /\ IsFiniteSet(rows[v])
        BY <1>1, <2>1 DEF RowsOK
      <3> QED BY <3>1, FS_Subset
    <2> QED BY <1>1, <2>1, <2>2 DEF RowsOK, Increasing
  <1> QED BY <1>2, <1>3, <1>4 DEF Changes

(* What others do to its version leaves what a clone has added.             *)
LEMMA AddedStays ==
    ASSUME VersionsInv, NEW x, x.to \in Numbers, AddedStay(x), Changes(x.to)
    PROVE  AddedStay(x)'
  <1> DEFINE v == x.to  read == x.read
  <1>1. /\ \A k \in Added(x) : read[k] \in ImportsOf(rows[v]) \cup removed[v]
        /\ removed[v] = {} =>
               \A m, n \in rows[v] : \A j, k \in Added(x) :
                   j < k /\ m.import = read[j] /\ n.import = read[k] => m.position < n.position
    BY DEF AddedStay
  <1>2. CASE Kept(v)
    BY <1>1, <1>2 DEF Kept, AddedStay, Added, ImportsOf
  <1>3. CASE Grown(v)
    <2>1. PICK i \in Imports :
              /\ rows'[v] = rows[v] \cup
                     {[import |-> i, position |-> Cardinality(rows[v])]}
              /\ ~Clashes(rows[v], i, Cardinality(rows[v]))
      BY <1>3 DEF Grown
    <2>2. removed'[v] = removed[v] /\ rows[v] \subseteq rows'[v]
      BY <1>3, <2>1 DEF Grown
    <2>3. \A k \in Added(x) : read[k] \in ImportsOf(rows'[v]) \cup removed'[v]
      BY <1>1, <2>2 DEF ImportsOf
    <2>4. ASSUME removed'[v] = {}, NEW m \in rows'[v], NEW n \in rows'[v],
                 NEW j \in Added(x), NEW k \in Added(x),
                 j < k, m.import = read[j], n.import = read[k]
          PROVE  m.position < n.position
      <3>1. read[j] \in ImportsOf(rows[v]) /\ read[k] \in ImportsOf(rows[v])
        BY <1>1, <2>2, <2>4
      <3>2. read[j] # i /\ read[k] # i
        BY <2>1, <3>1 DEF Clashes, ImportsOf
      <3>3. m \in rows[v] /\ n \in rows[v]
        BY <2>1, <2>4, <3>2
      <3> QED BY <1>1, <2>2, <2>4, <3>3
    <2>5. Added(x)' = Added(x)
      BY DEF Added
    <2> QED BY <2>3, <2>4 DEF AddedStay, ImportsOf, Added
  <1>4. CASE Shrunk(v)
    <2>1. PICK i \in Imports : /\ rows'[v] = {m \in rows[v] : m.import # i}
                               /\ removed'[v] = removed[v] \cup {i}
      BY <1>4 DEF Shrunk
    <2>2. ASSUME NEW k \in Added(x) PROVE read[k] \in ImportsOf(rows'[v]) \cup removed'[v]
      <3>1. CASE read[k] \in removed[v] \/ read[k] = i
        BY <2>1, <3>1
      <3>2. CASE read[k] \in ImportsOf(rows[v]) /\ read[k] # i
        BY <2>1, <3>2 DEF ImportsOf
      <3> QED BY <1>1, <3>1, <3>2
    <2>3. removed'[v] # {}
      BY <2>1
    <2> QED BY <2>2, <2>3 DEF AddedStay, ImportsOf, Added
  <1> QED BY <1>2, <1>3, <1>4 DEF Changes

(* A request that does not act keeps its place, and what it has added.      *)
LEMMA OthersStay ==
    ASSUME VersionsInv, NEW e \in Editors, editor'[e] = editor[e],
           \A v \in Numbers : Changes(v)
    PROVE  PlaceOK(editor[e])' /\ AddedStay(editor[e])'
  <1> DEFINE x == editor[e]
  <1>1. PlaceOK(x) /\ AddedStay(x)
    BY DEF VersionsInv
  <1>2. PlaceOK(x)'
    BY <1>1 DEF PlaceOK, ReadOK
  <1>3. CASE x.step \in {"add", "cloned"}
    <2>1. x.to \in Numbers
      BY <1>1, <1>3 DEF PlaceOK
    <2>2. PICK y : y = x
      OBVIOUS
    <2>3. AddedStay(y)'
      BY <1>1, <2>1, <2>2, AddedStays
    <2> QED BY <1>2, <2>2, <2>3 DEF AddedStay, Added
  <1>4. CASE x.step \notin {"add", "cloned"}
    BY <1>2, <1>4 DEF AddedStay, Added
  <1> QED BY <1>3, <1>4

(* A step of one request: what it does to the tables and where it goes.     *)
LEMMA RequestStep ==
    ASSUME VersionsInv, NEW e \in Editors, NEW place,
           Goes(e, place),
           DOMAIN draft' = Numbers, DOMAIN rows' = Numbers, DOMAIN removed' = Numbers,
           \A v \in Numbers : draft'[v] \in {None, TRUE, FALSE} /\ Changes(v),
           PlaceOK(place), AddedStay(place)'
    PROVE  VersionsInv'
  <1>1. DOMAIN editor' = Editors /\ editor'[e] = place
    BY DEF Goes, VersionsInv
  <1>2. \A f \in Editors : f # e => editor'[f] = editor[f]
    BY DEF Goes, VersionsInv
  <1>3. \A f \in Editors : PlaceOK(editor[f])' /\ AddedStay(editor[f])'
    <2> TAKE f \in Editors
    <2>1. CASE f = e
      BY <1>1, <2>1 DEF PlaceOK, ReadOK, AddedStay, Added
    <2>2. CASE f # e
      BY <1>2, <2>2, OthersStay
    <2> QED BY <2>1, <2>2
  <1>4. TablesInv'
    BY RowsStayOK DEF TablesInv
  <1> QED BY <1>1, <1>3, <1>4 DEF VersionsInv

LEMMA VersionsStart ==
    ASSUME VersionsInit
    PROVE  VersionsInv
  <1>1. TablesInv
    BY FS_EmptySet DEF VersionsInit, TablesInv, RowsOK, Increasing
  <1>2. \A e \in Editors : editor[e].step = "new"
    BY DEF VersionsInit
  <1> QED BY <1>1, <1>2 DEF VersionsInit, VersionsInv, PlaceOK, AddedStay, Added

(* Requests that end, whatever they did to the tables.                      *)
LEMMA EndStep ==
    ASSUME VersionsInv, NEW e \in Editors,
           \/ \E v \in Numbers : CreateCollection(e, v)
           \/ \E v \in Numbers, i \in Imports : AddImport(e, v, i) \/ RemoveImport(e, v, i)
           \/ Reject(e)
    PROVE  VersionsInv'
  <1> USE DEF VersionsInv, TablesInv
  <1>1. PICK place : Goes(e, place) /\ place.step \in {"done", "failed"}
    BY DEF CreateCollection, AddImport, RemoveImport, Reject, Ends
  <1>2. PlaceOK(place) /\ AddedStay(place)'
    BY <1>1 DEF PlaceOK, AddedStay, Added
  <1>3. /\ DOMAIN draft' = Numbers /\ DOMAIN rows' = Numbers /\ DOMAIN removed' = Numbers
        /\ \A v \in Numbers : draft'[v] \in {None, TRUE, FALSE}
    BY DEF CreateCollection, AddImport, RemoveImport, Reject, AddRow
  <1>4. \A v \in Numbers : Changes(v)
    <2>1. CASE (\E v \in Numbers : CreateCollection(e, v)) \/ Reject(e)
      BY <2>1 DEF CreateCollection, Reject, Changes, Kept
    <2>2. ASSUME NEW w \in Numbers, NEW i \in Imports, AddImport(e, w, i), NEW v \in Numbers
          PROVE  Changes(v)
      BY <2>2 DEF AddImport, AddRow, Addable, Changes, Kept, Grown
    <2>3. ASSUME NEW w \in Numbers, NEW i \in Imports, RemoveImport(e, w, i), NEW v \in Numbers
          PROVE  Changes(v)
      BY <2>3 DEF RemoveImport, Changes, Kept, Shrunk
    <2> QED BY <2>1, <2>2, <2>3
  <1> QED BY <1>1, <1>2, <1>3, <1>4, RequestStep

(* A clone up to its first member.                                          *)
LEMMA CloneBegins ==
    ASSUME VersionsInv, NEW e \in Editors,
           \/ \E v, w \in Numbers : CloneRead(e, v, w)
           \/ CloneMembers(e) \/ CloneCreate(e)
    PROVE  VersionsInv'
  <1> DEFINE x == editor[e]
  <1> USE DEF VersionsInv, TablesInv
  <1>1. /\ DOMAIN draft' = Numbers /\ DOMAIN rows' = Numbers /\ DOMAIN removed' = Numbers
        /\ \A v \in Numbers : draft'[v] \in {None, TRUE, FALSE} /\ Changes(v)
    BY DEF CloneRead, CloneMembers, CloneCreate, Changes, Kept
  <1>2. PICK place : Goes(e, place) /\ PlaceOK(place) /\ Added(place) = {}
    <2>1. CASE \E v, w \in Numbers : CloneRead(e, v, w)
      <3>1. PICK v \in Numbers, w \in Numbers : CloneRead(e, v, w)
        BY <2>1
      <3>2. Goes(e, [from |-> v, step |-> "members", to |-> w])
        BY <3>1 DEF CloneRead
      <3> QED BY <3>2 DEF PlaceOK, Added
    <2>2. CASE CloneMembers(e)
      <3>1. x.from \in Numbers /\ x.to \in Numbers
        BY <2>2 DEF CloneMembers, PlaceOK, Is
      <3>2. InOrder(rows[x.from]) \in Seq(Imports)
        BY <3>1, InOrderIsList
      <3>3. Goes(e, [from |-> x.from, read |-> InOrder(rows[x.from]), step |-> "create",
                     to |-> x.to])
        BY <2>2 DEF CloneMembers
      <3> QED BY <3>1, <3>2, <3>3 DEF PlaceOK, ReadOK, Added
    <2>3. CASE CloneCreate(e) /\ draft[x.to] = None
      <3>1. x.to \in Numbers /\ x.read \in Seq(Imports)
        BY <2>3 DEF CloneCreate, PlaceOK, ReadOK, Is
      <3>2. Goes(e, [added |-> 0, read |-> x.read, step |-> "add", to |-> x.to])
        BY <2>3 DEF CloneCreate
      <3>3. Len(x.read) \in Nat
        BY <3>1
      <3>4. 0 \in 0..Len(x.read) /\ 1..0 = {}
        BY <3>3
      <3> QED BY <3>1, <3>2, <3>4 DEF PlaceOK, ReadOK, Added
    <2>4. CASE CloneCreate(e) /\ draft[x.to] # None
      BY <2>4 DEF CloneCreate, Ends, PlaceOK, Added
    <2> QED BY <2>1, <2>2, <2>3, <2>4
  <1>3. AddedStay(place)'
    BY <1>2 DEF AddedStay, Added
  <1> QED BY <1>1, <1>2, <1>3, RequestStep

(* A clone puts the next member behind those it has put.                    *)
LEMMA CloneAdds ==
    ASSUME VersionsInv, NEW e \in Editors, CloneAdd(e)
    PROVE  VersionsInv'
  <1> DEFINE x == editor[e]  v == x.to  read == x.read  i == read[x.added + 1]
  <1> USE DEF VersionsInv, TablesInv
  <1>1. /\ v \in Numbers /\ read \in Seq(Imports) /\ x.added \in 0..Len(read)
        /\ x = [added |-> x.added, read |-> read, step |-> "add", to |-> v]
        /\ x.added < Len(read) /\ x.added \in Nat /\ Len(read) \in Nat
    BY DEF CloneAdd, PlaceOK, ReadOK, Is
  <1>2. i \in Imports /\ x.added + 1 \in 1..Len(read)
    BY <1>1
  <1>3. CASE ~Addable(v, i)
    <2>1. Goes(e, [step |-> "failed"]) /\ UNCHANGED <<draft, rows, removed>>
      BY <1>3 DEF CloneAdd, Ends
    <2> PICK place : place = [step |-> "failed"]
      OBVIOUS
    <2>2. PlaceOK(place) /\ AddedStay(place)'
      BY DEF PlaceOK, AddedStay, Added
    <2>3. \A w \in Numbers : Changes(w)
      BY <2>1 DEF Changes, Kept
    <2> QED BY <2>1, <2>2, <2>3, RequestStep
  <1>4. CASE Addable(v, i)
    <2> PICK place : place = [added |-> x.added + 1, read |-> read, step |-> "add", to |-> v]
      OBVIOUS
    <2> DEFINE row == [import |-> i, position |-> Cardinality(rows[v])]
    <2>1. AddRow(v, i) /\ Goes(e, [x EXCEPT !.added = @ + 1]) /\ UNCHANGED <<draft, removed>>
      BY <1>4 DEF CloneAdd
    <2>2. [x EXCEPT !.added = @ + 1] = place
      BY <1>1
    <2>3. /\ rows' = [rows EXCEPT ![v] = @ \cup {row}]
          /\ rows'[v] = rows[v] \cup {row}
          /\ ~Clashes(rows[v], i, Cardinality(rows[v]))
      BY <1>1, <1>4, <2>1 DEF AddRow, Addable
    <2>4. \A w \in Numbers : Changes(w)
      BY <1>1, <1>2, <2>1, <2>3 DEF Changes, Kept, Grown
    <2>5. PlaceOK(place)
      BY <1>1, <1>2 DEF PlaceOK, ReadOK
    <2>6. Added(x) = 1..x.added /\ Added(place) = Added(x) \cup {x.added + 1}
      BY <1>1 DEF Added
    <2>7. /\ \A k \in Added(x) : read[k] \in ImportsOf(rows[v]) \cup removed[v]
          /\ removed[v] = {} =>
                 \A m, n \in rows[v] : \A j, k \in Added(x) :
                     j < k /\ m.import = read[j] /\ n.import = read[k] => m.position < n.position
      BY DEF AddedStay
    <2>8. \A k \in Added(place) : read[k] \in ImportsOf(rows'[v]) \cup removed'[v]
      <3>1. row \in rows'[v] /\ rows[v] \subseteq rows'[v]
        BY <2>3
      <3>2. i \in ImportsOf(rows'[v])
        BY <3>1 DEF ImportsOf
      <3> QED BY <2>1, <2>6, <2>7, <3>1, <3>2 DEF ImportsOf
    <2>9. ASSUME removed'[v] = {}, NEW m \in rows'[v], NEW n \in rows'[v],
                 NEW j \in Added(place), NEW k \in Added(place),
                 j < k, m.import = read[j], n.import = read[k]
          PROVE  m.position < n.position
      <3>1. removed[v] = {}
        BY <2>1, <2>9
      <3>2. j \in Added(x)
        BY <1>1, <2>6, <2>9
      <3>3. read[j] \in ImportsOf(rows[v]) /\ read[j] # i
        BY <2>3, <2>7, <3>1, <3>2 DEF Clashes, ImportsOf
      <3>4. m \in rows[v]
        BY <2>3, <2>9, <3>3
      <3>7. m.position < Cardinality(rows[v])
        BY <1>1, <3>1, <3>4 DEF Increasing
      <3>5. CASE k = x.added + 1
        <4>1. n \notin rows[v]
          BY <2>3, <2>9, <3>5 DEF Clashes
        <4> QED BY <2>3, <2>9, <3>7, <4>1
      <3>6. CASE k \in Added(x)
        <4>1. read[k] \in ImportsOf(rows[v]) /\ read[k] # i
          BY <2>3, <2>7, <3>1, <3>6 DEF Clashes, ImportsOf
        <4>2. n \in rows[v]
          BY <2>3, <2>9, <4>1
        <4> QED BY <2>7, <2>9, <3>1, <3>2, <3>4, <3>6, <4>2
      <3> QED BY <2>6, <3>5, <3>6
    <2>10. AddedStay(place)'
      BY <2>8, <2>9 DEF AddedStay, Added, ImportsOf
    <2> QED BY <2>1, <2>2, <2>3, <2>4, <2>5, <2>10, RequestStep
  <1> QED BY <1>3, <1>4

LEMMA CloneEnds ==
    ASSUME VersionsInv, NEW e \in Editors, CloneAnswered(e)
    PROVE  VersionsInv'
  <1> DEFINE x == editor[e]
  <1> PICK place : place = [read |-> x.read, step |-> "cloned", to |-> x.to]
    OBVIOUS
  <1> USE DEF VersionsInv, TablesInv
  <1>1. /\ Goes(e, place) /\ UNCHANGED <<draft, rows, removed>>
        /\ x.step = "add" /\ x.added = Len(x.read)
    BY DEF CloneAnswered, Is
  <1>2. PlaceOK(place) /\ Added(place) = Added(x)
    BY <1>1 DEF PlaceOK, ReadOK, Added
  <1>3. AddedStay(place)'
    BY <1>1, <1>2 DEF AddedStay, Added
  <1>4. \A v \in Numbers : Changes(v)
    BY <1>1 DEF Changes, Kept
  <1> QED BY <1>1, <1>2, <1>3, <1>4, RequestStep

LEMMA CompileStep ==
    ASSUME VersionsInv, NEW v \in Numbers, CompileCollection(v)
    PROVE  VersionsInv'
  <1> USE DEF VersionsInv, TablesInv
  <1>1. UNCHANGED <<rows, removed, editor>>
    BY DEF CompileCollection
  <1>2. DOMAIN draft' = Numbers /\ \A w \in Numbers : draft'[w] \in {None, TRUE, FALSE}
    BY DEF CompileCollection
  <1>3. \A e \in Editors : PlaceOK(editor[e])' /\ AddedStay(editor[e])'
    BY <1>1 DEF PlaceOK, ReadOK, AddedStay, Added
  <1> QED BY <1>1, <1>2, <1>3 DEF RowsOK, Increasing

LEMMA VersionsKeep ==
    ASSUME VersionsInv, [VersionsNext]_versionVars
    PROVE  VersionsInv'
  <1>1. CASE UNCHANGED versionVars
    <2>1. TablesInv'
      BY <1>1 DEF versionVars, VersionsInv, TablesInv, RowsOK, Increasing
    <2>2. \A e \in Editors : PlaceOK(editor[e])' /\ AddedStay(editor[e])'
      BY <1>1 DEF versionVars, VersionsInv, PlaceOK, ReadOK, AddedStay, Added
    <2> QED BY <1>1, <2>1, <2>2 DEF versionVars, VersionsInv
  <1> QED BY <1>1, EndStep, CloneBegins, CloneAdds, CloneEnds, CompileStep DEF VersionsNext

Filled == \A v \in Numbers : draft[v] = None => rows[v] = {}

(* The rows of every version have their types, and a version has no members *)
(* before it is created.                                                    *)
THEOREM VersionsTypes ==
    ASSUME None \notin BOOLEAN
    PROVE  VersionsSpec => []VersionsTypeOK
  <1>1. ASSUME VersionsInit PROVE Filled
    BY <1>1 DEF VersionsInit, Filled
  <1>2. ASSUME VersionsInv, Filled, [VersionsNext]_versionVars PROVE Filled'
    <2> SUFFICES ASSUME NEW v \in Numbers, draft'[v] = None PROVE rows'[v] = {}
      BY DEF Filled
    <2> USE <1>2 DEF VersionsInv, TablesInv
    <2>1. CASE \E e \in Editors :
                   \/ \E w \in Numbers : CreateCollection(e, w)
                   \/ \E w, u \in Numbers : CloneRead(e, w, u)
                   \/ CloneMembers(e) \/ CloneCreate(e) \/ CloneAnswered(e) \/ Reject(e)
      BY <2>1 DEF Filled, CreateCollection, CloneRead, CloneMembers, CloneCreate, CloneAnswered,
                  Reject
    <2>2. CASE \E e \in Editors, w \in Numbers, i \in Imports : AddImport(e, w, i)
      BY <2>2 DEF Filled, AddImport, Addable, AddRow
    <2>3. CASE \E e \in Editors, w \in Numbers, i \in Imports : RemoveImport(e, w, i)
      BY <2>3 DEF Filled, RemoveImport
    <2>4. CASE \E e \in Editors : CloneAdd(e)
      BY <2>4 DEF Filled, CloneAdd, Addable, AddRow
    <2>5. CASE \E w \in Numbers : CompileCollection(w)
      BY <2>5 DEF Filled, CompileCollection
    <2>6. CASE UNCHANGED versionVars
      BY <2>6 DEF Filled, versionVars
    <2> QED BY <2>1, <2>2, <2>3, <2>4, <2>5, <2>6 DEF VersionsNext
  <1>3. VersionsInv /\ Filled => VersionsTypeOK
    BY DEF VersionsInv, TablesInv, RowsOK, Filled, VersionsTypeOK
  <1>4. VersionsInit => VersionsInv /\ Filled
    BY <1>1, VersionsStart
  <1>5. VersionsInv /\ Filled /\ [VersionsNext]_versionVars => VersionsInv' /\ Filled'
    BY <1>2, VersionsKeep
  <1> QED BY <1>3, <1>4, <1>5, PTL DEF VersionsSpec

(* A version that cloning answered with holds every member that was read,   *)
(* in its order, but for what was removed from it since, whatever others    *)
(* did to either version meanwhile (clone_policy_collection).               *)
THEOREM ClonesAreFaithful == VersionsSpec => []CloneIsFaithful
  <1>1. ASSUME VersionsInv PROVE CloneIsFaithful
    <2> SUFFICES ASSUME NEW e \in Editors, Is(e, "cloned")
                 PROVE  LET v == editor[e].to  read == editor[e].read IN
                        /\ \A k \in DOMAIN read : read[k] \in ImportsOf(rows[v]) \cup removed[v]
                        /\ removed[v] = {} =>
                               \A m, n \in rows[v] : \A j, k \in DOMAIN read :
                                   j < k /\ m.import = read[j] /\ n.import = read[k]
                                       => m.position < n.position
      BY DEF CloneIsFaithful
    <2>1. editor[e].read \in Seq(Imports) /\ AddedStay(editor[e])
      BY <1>1 DEF VersionsInv, PlaceOK, ReadOK, Is
    <2>2. Added(editor[e]) = DOMAIN editor[e].read
      BY <2>1 DEF Added, Is
    <2> QED BY <2>1, <2>2 DEF AddedStay
  <1>2. VersionsInv => CloneIsFaithful
    BY <1>1
  <1> QED BY <1>2, VersionsStart, VersionsKeep, PTL DEF VersionsSpec
================================================================================
