-------------------------- MODULE Tracker_proofs ---------------------------
(***************************************************************************)
(* The tracker: the assignment it calls and the life of its tracks.        *)
(***************************************************************************)
EXTENDS Hungarian, Tracker, BasicLemmas

-----------------------------------------------------------------------------
(***************************************************************************)
(* The assignment stays one to one while rows are added, for matrices of   *)
(* every size, float arithmetic of every width and any costs: it does not  *)
(* depend on what the search finds.  While a path is walked back, the      *)
(* column reached is a hole, whose row has already moved on.               *)
(***************************************************************************)

\* The columns whose row counts: all but the hole, which in the end is column 0.
Held == (0..N) \ (IF phase = "augment" THEN {at}
                  ELSE IF phase = "done" THEN {0} ELSE {})

OneToOne ==
  /\ \A j \in Held : p[j] <= adding
  /\ \A i \in 1..adding : \E j \in Held : p[j] = i
  /\ \A j, k \in Held : p[j] = p[k] => j = k \/ p[j] = 0

Walk ==
  /\ adding \in 1..N /\ at \in 0..N
  /\ p \in [0..N -> 0..N] /\ way \in [0..N -> 0..N]
  /\ phase \in {"search", "augment", "done"}
  /\ phase = "search" => p[0] = adding
  /\ phase = "augment" => at # 0
  /\ phase = "done" => adding = N

HungarianInv == Walk /\ OneToOne

LEMMA SizeType == N \in Nat \ {0}
BY HungarianAssumption DEF N

\* The first row is in column 0, and no other column has one.
LEMMA InitInv == HungarianInit => HungarianInv
BY SizeType DEF HungarianInit, HungarianInv, Walk, OneToOne, Held

\* A search moves no row.  The column it ends at has none.
LEMMA SearchInv == HungarianInv /\ Search => HungarianInv'
<1> SUFFICES ASSUME HungarianInv, Search PROVE HungarianInv'
  OBVIOUS
<1>0. N \in Nat \ {0}
  BY SizeType
<1> USE <1>0
<1>1. /\ at' \in 0..N
      /\ phase' = IF p[at'] = 0 THEN "augment" ELSE "search"
  <2>1. PICK near : \/ \E j \in Open : Advance(near, near[j], j)
                    \/ Advance(near, Pad, 0)
    BY DEF Search
  <2>2. QED BY <2>1 DEF Advance, Open
<1>2. /\ way' \in [0..N -> 0..N]
      /\ phase = "search" /\ p' = p /\ adding' = adding
  BY DEF Search, HungarianInv, Walk
<1>3. p[at'] = 0 => at' # 0
  <2>1. adding # 0
    BY DEF HungarianInv, Walk
  <2>2. p[0] = adding
    BY <1>2 DEF HungarianInv, Walk
  <2>3. QED BY <2>1, <2>2
<1>4. Walk'
  BY <1>1, <1>2, <1>3 DEF HungarianInv, Walk
<1>5. Held = 0..N /\ Held' = (0..N) \ (IF p[at'] = 0 THEN {at'} ELSE {})
  BY <1>1, <1>2 DEF Held
<1>6. OneToOne'
  <2>1. ASSUME NEW i \in 1..adding PROVE \E j \in Held' : p[j] = i
    <3>1. PICK j \in 0..N : p[j] = i
      BY <1>5 DEF HungarianInv, OneToOne
    <3>2. QED BY <3>1, <1>5, <1>1 DEF HungarianInv, Walk
  <2>2. QED BY <2>1, <1>2, <1>5 DEF HungarianInv, OneToOne
<1>7. QED BY <1>4, <1>6 DEF HungarianInv

\* The hole takes the row of the column before it, which becomes the hole; at
\* column 0 the walk ends, and the next row fills it.
LEMMA AugmentInv == HungarianInv /\ Augment => HungarianInv'
<1> SUFFICES ASSUME HungarianInv, Augment PROVE HungarianInv'
  OBVIOUS
<1>0. N \in Nat \ {0}
  BY SizeType
<1> USE <1>0
<1> DEFINE q == way[at]
<1>1. /\ phase = "augment" /\ at \in 1..N /\ q \in 0..N /\ at' = q
      /\ way' = way /\ Held = (0..N) \ {at}
      /\ Shifted = [p EXCEPT ![at] = p[q]] /\ Shifted \in [0..N -> 0..N]
  <2>1. phase = "augment" /\ at' = q /\ way' = way
    BY DEF Augment
  <2>2. at # 0 /\ at \in 0..N /\ Held = (0..N) \ {at}
    BY <2>1 DEF HungarianInv, Walk, Held
  <2>3. q \in 0..N /\ Shifted \in [0..N -> 0..N]
    BY <2>2 DEF Shifted, HungarianInv, Walk
  <2>4. QED BY <2>1, <2>2, <2>3 DEF Shifted
\* What holds of the columns but the new hole, before it is filled.
<1>2. /\ \A j \in (0..N) \ {q} : Shifted[j] <= adding
      /\ \A i \in 1..adding : \E j \in (0..N) \ {q} : Shifted[j] = i
      /\ \A j, k \in (0..N) \ {q} :
           Shifted[j] = Shifted[k] => j = k \/ Shifted[j] = 0
  <2>1. ASSUME NEW i \in 1..adding
        PROVE  \E j \in (0..N) \ {q} : Shifted[j] = i
    <3>1. PICK j \in Held : p[j] = i
      BY DEF HungarianInv, OneToOne
    <3>2. CASE j = q
      BY <3>1, <3>2, <1>1 DEF HungarianInv, Walk
    <3>3. CASE j # q
      BY <3>1, <3>3, <1>1 DEF HungarianInv, Walk
    <3>4. QED BY <3>2, <3>3
  <2>2. ASSUME NEW j \in (0..N) \ {q}, NEW k \in (0..N) \ {q},
               Shifted[j] = Shifted[k]
        PROVE  j = k \/ Shifted[j] = 0
    <3>1. CASE q = at
      BY <2>2, <3>1, <1>1 DEF HungarianInv, Walk, OneToOne
    <3>2. CASE q # at
      <4>1. q \in Held
        BY <3>2, <1>1
      <4>2. Shifted[j] = p[IF j = at THEN q ELSE j]
        BY <1>1 DEF HungarianInv, Walk
      <4>3. Shifted[k] = p[IF k = at THEN q ELSE k]
        BY <1>1 DEF HungarianInv, Walk
      <4>4. QED BY <2>2, <4>1, <4>2, <4>3, <1>1 DEF HungarianInv, OneToOne
    <3>3. QED BY <3>1, <3>2
  <2>3. ASSUME NEW j \in (0..N) \ {q} PROVE Shifted[j] <= adding
    BY <1>1 DEF HungarianInv, Walk, OneToOne
  <2>4. QED BY <2>1, <2>2, <2>3
<1>3. CASE q # 0
  <2>1. p' = Shifted /\ adding' = adding /\ phase' = "augment"
    BY <1>1, <1>3 DEF Augment
  <2>2. Held' = (0..N) \ {q}
    BY <2>1, <1>1 DEF Held
  <2>3. Walk'
    BY <2>1, <1>1, <1>2, <1>3 DEF HungarianInv, Walk
  <2>4. OneToOne'
    BY <2>1, <2>2, <1>2 DEF OneToOne
  <2>5. QED BY <2>3, <2>4 DEF HungarianInv
<1>4. CASE q = 0 /\ adding = N
  <2>1. p' = Shifted /\ adding' = adding /\ phase' = "done"
    BY <1>1, <1>4 DEF Augment
  <2>2. Held' = (0..N) \ {q}
    BY <2>1, <1>1, <1>4 DEF Held
  <2>3. Walk'
    BY <2>1, <1>1, <1>4 DEF HungarianInv, Walk
  <2>4. OneToOne'
    BY <2>1, <2>2, <1>1, <1>2, <1>4 DEF OneToOne
  <2>5. QED BY <2>3, <2>4 DEF HungarianInv
<1>5. CASE q = 0 /\ adding # N
  <2>1. /\ p' = [Shifted EXCEPT ![0] = adding + 1]
        /\ adding' = adding + 1 /\ phase' = "search"
    BY <1>1, <1>5 DEF Augment
  <2>2. adding \in 1..N /\ adding' \in 1..N /\ Held' = 0..N
    BY <2>1, <1>5 DEF Held, HungarianInv, Walk
  <2>3. Walk'
    <3>1. p' \in [0..N -> 0..N] /\ p'[0] = adding'
      BY <2>1, <2>2, <1>1
    <3>2. QED BY <3>1, <2>1, <2>2, <1>1, <1>5 DEF HungarianInv, Walk
  <2>4. /\ \A j \in 1..N : p'[j] = Shifted[j] /\ Shifted[j] <= adding
        /\ p'[0] = adding + 1
    BY <2>1, <1>1, <1>2, <1>5
  <2>5. ASSUME NEW i \in 1..adding' PROVE \E j \in 0..N : p'[j] = i
    BY <2>1, <2>2, <2>4, <1>2, <1>5
  <2>6. ASSUME NEW j \in 0..N, NEW k \in 0..N, p'[j] = p'[k]
        PROVE  j = k \/ p'[j] = 0
    <3>1. CASE j = 0 \/ k = 0
      BY <2>2, <2>4, <2>6, <3>1
    <3>2. CASE j # 0 /\ k # 0
      BY <2>4, <2>6, <1>2, <1>5, <3>2
    <3>3. QED BY <3>1, <3>2
  <2>7. \A j \in 0..N : p'[j] <= adding'
    BY <2>1, <2>2, <2>4, <1>1
  <2>8. QED BY <2>2, <2>3, <2>5, <2>6, <2>7 DEF HungarianInv, OneToOne
<1>6. QED BY <1>3, <1>4, <1>5, <1>1

LEMMA InvMatching == HungarianInv => Matching
<1> SUFFICES ASSUME HungarianInv, phase # "augment"
             PROVE  /\ \A i \in 1..Settled : \E j \in 1..N : p[j] = i
                    /\ \A j, k \in 1..N : p[j] = p[k] => j = k \/ p[j] = 0
  BY DEF Matching
<1>0. N \in Nat \ {0}
  BY SizeType
<1> USE <1>0
<1>1. CASE phase = "done"
  <2>1. Held = 1..N
    BY <1>1 DEF Held
  <2>2. Settled = adding
    BY <1>1 DEF HungarianInv, Walk, Settled
  <2>3. QED BY <2>1, <2>2 DEF HungarianInv, OneToOne
<1>2. CASE phase = "search"
  <2>1. Held = 0..N /\ p[0] = adding /\ Settled = adding - 1
    BY <1>2 DEF HungarianInv, Walk, Held, Settled
  <2>2. ASSUME NEW i \in 1..Settled PROVE \E j \in 1..N : p[j] = i
    <3>1. PICK j \in 0..N : p[j] = i
      BY <2>1 DEF HungarianInv, Walk, OneToOne
    <3>2. QED BY <3>1, <2>1 DEF HungarianInv, Walk
  <2>3. QED BY <2>1, <2>2 DEF HungarianInv, OneToOne
<1>3. QED BY <1>1, <1>2 DEF HungarianInv, Walk

-----------------------------------------------------------------------------
\* For matrices of every size, square or not: after each row, the rows added so
\* far are matched one to one, so no track gets a detection that another has.
THEOREM MatchingHolds == HungarianSpec => []Matching
<1>1. HungarianInv /\ [HungarianNext]_hungarianVars => HungarianInv'
  <2>1. ASSUME HungarianInv, UNCHANGED hungarianVars PROVE HungarianInv'
    BY <2>1 DEF HungarianInv, Walk, OneToOne, Held, hungarianVars
  <2>2. QED BY <2>1, SearchInv, AugmentInv DEF HungarianNext
<1>2. QED BY <1>1, InitInv, InvMatching, PTL DEF HungarianSpec

-----------------------------------------------------------------------------
(***************************************************************************)
(* The assignment of a square matrix is the best one, for every size and   *)
(* all costs up to C, if floats are exact as far as the potentials get.    *)
(***************************************************************************)

\* How far that is.
Reach(C) == (N + 1) * C

Exact(C) ==
  /\ Rows = Cols /\ C \in Nat /\ Costs \subseteq 0..C /\ Reach(C) < Pad
  /\ \A x \in (-Reach(C))..Reach(C) : Float[x] = x

\* What is left of the cost of a pair.
Left(i, j) == cost[i][j] - u[i] - v[j]

\* What the potentials have reached: each search adds C at most.
Sofar(C) == (adding - 1) * C + u[adding]

Ranges(C) ==
  /\ cost \in [1..N -> [1..N -> 0..C]]
  /\ used \subseteq 0..N /\ u[adding] <= C
  /\ \A i \in 1..N : /\ u[i] \in Int /\ 0 <= u[i] /\ u[i] <= Sofar(C)
                     /\ i > adding => u[i] = 0
  /\ \A j \in 1..N : /\ minv[j] \in Int
                     /\ v[j] \in Int /\ v[j] <= 0 /\ -v[j] <= Sofar(C)

\* The potentials stay below the costs of the rows added, and meet them where a
\* row is matched.  A column without a row has kept its potential.
Potentials ==
  /\ \A i \in 1..adding, j \in 1..N : Left(i, j) >= 0
  /\ \A j \in 1..N : p[j] # 0 => Left(p[j], j) = 0
  /\ \A j \in 1..N : p[j] = 0 => v[j] = 0
  /\ \A k \in used : p[k] # 0

\* Sets of columns that contain the way back from each of theirs.
Closed(R) == \A k \in R \ {0} : way[k] \in R

\* The way back from a column does not meet it again.
Ahead(j) == \E R \in SUBSET used : Closed(R) /\ way[j] \in R /\ j \notin R

Nearby ==
  \A j \in (1..N) \ (used \cup {at}) :
    IF used = {} THEN minv[j] = Pad
    ELSE /\ way[j] \in used /\ minv[j] = Left(p[way[j]], j)
         /\ \A k \in used : minv[j] <= Left(p[k], j)

Searching ==
  phase = "search" =>
    /\ at \notin used /\ p[at] # 0
    /\ IF at = 0 THEN used = {} ELSE 0 \in used
    /\ Nearby
    /\ \A j \in (used \cup {at}) \ {0} : Ahead(j) /\ Left(p[way[j]], j) = 0

Walking ==
  phase = "augment" =>
    /\ \A j \in used \ {0} : Ahead(j)
    /\ \E R \in SUBSET used :
         /\ Closed(R) /\ at \notin R /\ way[at] \in R
         /\ \A k \in (R \cup {at}) \ {0} : Left(p[way[k]], k) = 0

DualInv(C) == Ranges(C) /\ Potentials /\ Searching /\ Walking

LEMMA ReachBy ==
  ASSUME NEW n \in Nat, NEW a \in 1..n, NEW c \in Nat
  PROVE  /\ (a - 1) * c \in Nat /\ (a - 1) * c + c <= n * c
         /\ n * c \in Nat /\ (n + 1) * c = n * c + c
<1>1. (a - 1) * c \in Nat /\ n * c \in Nat /\ (n - a) * c \in Nat
  OBVIOUS
<1>2. (a - 1) * c + c + (n - a) * c = n * c
  OBVIOUS
<1>3. (n + 1) * c = n * c + c
  OBVIOUS
<1>4. QED BY <1>1, <1>2, <1>3

\* What is computed is exact as long as the potentials are in their ranges.
LEMMA ExactSums ==
  ASSUME NEW C, Exact(C), NEW k \in Nat, NEW w \in 0..C, k + C <= N * C
  PROVE  /\ C \in Nat /\ Reach(C) \in Nat /\ Reach(C) < Pad
         /\ \A a \in 0..C, b \in 0..(k + w), c \in (-(k + w))..0 :
              Float[Float[a - b] - c] = a - b - c /\ a - b - c <= Reach(C)
         /\ \A x \in (-Reach(C))..Reach(C) : Float[x] = x
         /\ k + C <= Reach(C)
<1>1. C \in Nat /\ N \in Nat \ {0} /\ Reach(C) = N * C + C /\ N * C \in Nat
  <2>1. C \in Nat /\ N \in Nat \ {0}
    BY SizeType DEF Exact
  <2>2. 1 \in 1..N
    BY <2>1
  <2>3. (N + 1) * C = N * C + C /\ N * C \in Nat
    BY <2>1, <2>2, ReachBy
  <2>4. QED BY <2>1, <2>3 DEF Reach
<1>2. PICK r \in Nat : r = Reach(C) /\ k + C + C <= r
  BY <1>1
<1>3. \A x \in (-r)..r : Float[x] = x
  BY <1>2 DEF Exact
<1>4. ASSUME NEW a \in 0..C, NEW b \in 0..(k + w), NEW c \in (-(k + w))..0
      PROVE  Float[Float[a - b] - c] = a - b - c /\ a - b - c <= r
  <2>1. a - b \in (-r)..r /\ a - b - c \in (-r)..r
    BY <1>1, <1>2
  <2>2. Float[a - b] = a - b
    BY <1>3, <2>1
  <2>3. Float[Float[a - b] - c] = a - b - c
    BY <1>3, <2>1, <2>2
  <2>4. QED BY <2>1, <2>3
<1>5. QED BY <1>1, <1>2, <1>3, <1>4 DEF Exact

\* While a row is being added, some column has no row.
LEMMA FreeColumn ==
  ASSUME HungarianInv, phase = "search" PROVE \E f \in 1..N : p[f] = 0
<1> SUFFICES ASSUME \A f \in 1..N : p[f] # 0 PROVE FALSE
  OBVIOUS
<1>1. N \in Nat \ {0} /\ p \in [0..N -> 0..N] /\ p[0] # 0 /\ Held = 0..N
  BY SizeType DEF HungarianInv, Walk, Held
<1>2. p \in Injection(0..N, 1..N)
  <2>1. \A j \in 0..N : p[j] # 0 /\ p[j] \in 0..N
    BY <1>1
  <2>2. p \in [0..N -> 1..N]
    BY <1>1, <2>1
  <2>3. \A j, k \in 0..N : p[j] = p[k] => j = k
    BY <1>1, <2>1 DEF HungarianInv, OneToOne
  <2>4. QED BY <2>2, <2>3 DEF Injection, IsInjective
<1>3. 0 \in Int /\ 1 \in Int /\ N \in Int
  BY <1>1
<1>4. IsFiniteSet(1..N) /\ Cardinality(1..N) = N /\ Cardinality(0..N) = N + 1
  BY <1>1, <1>3, FS_Interval
<1>5. Cardinality(0..N) <= Cardinality(1..N)
  BY <1>2, <1>4, FS_Injection
<1>6. QED BY <1>1, <1>4, <1>5

\* What one turn of the search does, with exact arithmetic.
Turned(C, next, d) ==
  /\ phase' = IF p[next] = 0 THEN "augment" ELSE "search"
  /\ used' = used \cup {at} /\ at' = next
  /\ cost' = cost /\ adding' = adding /\ p' = p
  /\ d \in Int /\ 0 <= d /\ u[adding] + d <= C
  /\ \A i \in 1..N : u'[i] = IF \E j \in used' : p[j] = i THEN u[i] + d ELSE u[i]
  /\ \A j \in 1..N : v'[j] = IF j \in used' THEN v[j] - d ELSE v[j]
  /\ \A j \in (0..N) \ Open : way'[j] = way[j]
  /\ \A j \in (1..N) \ Open : minv'[j] = minv[j]
  /\ \A j \in Open :
       /\ way'[j] \in used' /\ minv'[j] \in Int /\ minv'[j] >= 0
       /\ minv'[j] = Left(p[way'[j]], j) - d
       /\ \A k \in used' : minv'[j] <= Left(p[k], j) - d
  /\ minv'[next] = 0

\* What a search starts from.
LEMMA SearchFrom ==
  ASSUME NEW C, Exact(C), HungarianInv, DualInv(C), phase = "search"
  PROVE  /\ N \in Nat \ {0} /\ Rows = N /\ Cols = N /\ C \in Nat
         /\ adding \in 1..N /\ at \in 0..N /\ p \in [0..N -> 0..N] /\ p[0] = adding
         /\ way \in [0..N -> 0..N]
         /\ 0 \in used \cup {at} /\ used \subseteq 0..N
         /\ \A k \in used \cup {at} : k \in 0..N /\ p[k] \in 1..adding /\ p[k] \in 1..N
         /\ \A j, k \in 0..N : p[j] = p[k] => j = k \/ p[j] = 0
<1>1. /\ adding \in 1..N /\ at \in 0..N /\ p \in [0..N -> 0..N] /\ p[0] = adding
      /\ way \in [0..N -> 0..N] /\ Held = 0..N
      /\ \A j \in Held : p[j] <= adding
      /\ \A j, k \in Held : p[j] = p[k] => j = k \/ p[j] = 0
  BY DEF HungarianInv, Walk, OneToOne, Held
<1>2. N \in Nat \ {0} /\ Rows = N /\ Cols = N /\ C \in Nat
  BY SizeType DEF Exact, N
<1>3. used \subseteq 0..N /\ \A k \in used \cup {at} : p[k] # 0
  BY DEF DualInv, Ranges, Potentials, Searching
<1>4. 0 \in used \cup {at}
  BY DEF DualInv, Searching
<1>5. ASSUME NEW k \in used \cup {at} PROVE k \in 0..N /\ p[k] \in 1..adding /\ p[k] \in 1..N
  <2>1. k \in 0..N /\ p[k] # 0 /\ p[k] \in 0..N /\ p[k] <= adding
    BY <1>1, <1>3, <1>5
  <2>2. QED BY <1>1, <1>2, <2>1
<1>6. QED BY <1>1, <1>2, <1>3, <1>4, <1>5

LEMMA LeftIs ==
  ASSUME NEW C, Exact(C), Ranges(C), NEW i \in 1..N, NEW j \in 1..N
  PROVE  /\ cost[i][j] \in 0..C /\ u[i] \in Int /\ v[j] \in Int
         /\ Left(i, j) = cost[i][j] - u[i] - v[j] /\ Left(i, j) \in Int
<1>1. cost \in [1..N -> [1..N -> 0..C]] /\ u[i] \in Int /\ v[j] \in Int
  BY DEF Ranges
<1>2. cost[i] \in [1..N -> 0..C]
  BY <1>1
<1>3. cost[i][j] \in 0..C
  BY <1>2
<1>4. cost[i][j] \in Int
  BY <1>3 DEF Exact
<1>5. QED BY <1>1, <1>3, <1>4 DEF Left

\* The range of the potentials, told by numbers of their own.
LEMMA RangesIn ==
  ASSUME NEW C, Exact(C), Ranges(C), adding \in 1..N
  PROVE  \E k \in Nat, w \in 0..C :
           /\ w = u[adding] /\ k + C <= N * C /\ k = (adding - 1) * C
           /\ \A i \in 1..N : u[i] \in 0..(k + w)
           /\ \A j \in 1..N : v[j] \in (-(k + w))..0
<1>1. N \in Nat \ {0} /\ C \in Nat
  BY SizeType DEF Exact
<1>2. (adding - 1) * C \in Nat /\ (adding - 1) * C + C <= N * C
  BY <1>1, ReachBy
<1>3. PICK k \in Nat : k = (adding - 1) * C
  BY <1>2
<1>4. u[adding] \in 0..C
  BY <1>1 DEF Ranges
<1>5. PICK w \in 0..C : w = u[adding]
  BY <1>4
<1>6. Sofar(C) = k + w
  BY <1>3, <1>5 DEF Sofar
<1>7. \A i \in 1..N : u[i] \in 0..(k + w)
  BY <1>1, <1>6 DEF Ranges
<1>8. ASSUME NEW j \in 1..N PROVE v[j] \in (-(k + w))..0
  <2>1. v[j] \in Int /\ v[j] <= 0 /\ -v[j] <= k + w
    BY <1>6 DEF Ranges
  <2>2. QED BY <1>1, <2>1
<1>9. QED BY <1>2, <1>3, <1>5, <1>7, <1>8

\* The reduced costs are what is left of the costs.
LEMMA ReducedIs ==
  ASSUME NEW C, Exact(C), HungarianInv, DualInv(C), phase = "search", NEW j \in Open
  PROVE  /\ Reduced(j) = Left(p[at], j) /\ Reduced(j) \in Int
         /\ 0 <= Reduced(j) /\ Reduced(j) < Pad /\ Reduced(j) <= Reach(C)
         /\ Reach(C) \in Nat /\ Pad \in Int /\ j \in 1..N /\ Reach(C) < Pad
<1>1. /\ p[at] \in 1..N /\ p[at] \in 1..adding /\ j \in 1..N /\ adding \in 1..N
      /\ Rows = N /\ Cols = N /\ C \in Nat /\ N \in Nat \ {0}
  BY SearchFrom DEF Open
<1>2. PICK k \in Nat, w \in 0..C :
        /\ k + C <= N * C
        /\ \A i \in 1..N : u[i] \in 0..(k + w)
        /\ \A i \in 1..N : v[i] \in (-(k + w))..0
  BY <1>1, RangesIn DEF DualInv
<1>3. /\ Reach(C) \in Nat /\ Reach(C) < Pad
      /\ \A a \in 0..C, b \in 0..(k + w), c \in (-(k + w))..0 :
           Float[Float[a - b] - c] = a - b - c /\ a - b - c <= Reach(C)
  BY <1>2, ExactSums
<1>4. PICK i \in 1..N : i = p[at]
  BY <1>1
<1>5. cost[i][j] \in 0..C /\ Padded(i, j) = cost[i][j]
  <2>1. cost \in [1..N -> [1..N -> 0..C]]
    BY DEF DualInv, Ranges
  <2>2. i <= Rows /\ j <= Cols
    BY <1>1
  <2>3. QED BY <1>1, <2>1, <2>2 DEF Padded
<1>6. PICK a \in 0..C, b \in 0..(k + w), c \in (-(k + w))..0 :
        a = cost[i][j] /\ b = u[i] /\ c = v[j]
  BY <1>1, <1>2, <1>5
<1>7. Reduced(j) = a - b - c /\ Left(i, j) = a - b - c
  BY <1>3, <1>4, <1>5, <1>6 DEF Reduced, Left
<1>8. a - b - c \in Int /\ a - b - c <= Reach(C)
  <2>1. a \in Int /\ b \in Int /\ c \in Int
    BY <1>1
  <2>2. a - b - c <= Reach(C)
    BY <1>3, Zenon
  <2>3. QED BY <2>1, <2>2
<1>9. Left(i, j) >= 0
  BY <1>1, <1>4 DEF DualInv, Potentials
<1>10. Pad \in Int
  BY HungarianAssumption
<1>11. 0 <= a - b - c /\ a - b - c < Pad
  BY <1>3, <1>7, <1>8, <1>9, <1>10
<1>12. QED BY <1>1, <1>3, <1>4, <1>7, <1>8, <1>10, <1>11

\* A search takes a turn of this kind: the free column is near enough.
LEMMA SearchIs ==
  ASSUME NEW C, Exact(C), HungarianInv, DualInv(C), Search
  PROVE  \E next \in Open : \E d : Turned(C, next, d)
<1> DEFINE T == used \cup {at}
           near == Near
<1>1. /\ phase = "search" /\ used' = T /\ cost' = cost /\ adding' = adding /\ p' = p
      /\ way' = [j \in 0..N |-> IF j \in Open /\ Shorter(j) THEN at ELSE way[j]]
  BY DEF Search
<1>2. /\ N \in Nat \ {0} /\ C \in Nat /\ adding \in 1..N /\ p[0] = adding /\ 0 \in T
      /\ \A k \in T : k \in 0..N /\ p[k] \in 1..adding /\ p[k] \in 1..N
  BY <1>1, SearchFrom
<1>3. Open = (1..N) \ T
  BY DEF Open
<1>4. PICK r \in Nat : r = Reach(C) /\ r < Pad
  <2>1. PICK k \in Nat, w \in 0..C : k + C <= N * C
    BY <1>2, RangesIn DEF DualInv
  <2>2. QED BY <2>1, ExactSums
\* The ways known after the comparison.
<1>5. ASSUME NEW j \in Open
      PROVE  /\ near[j] \in 0..r /\ way'[j] \in T /\ near[j] = Left(p[way'[j]], j)
             /\ \A k \in T : near[j] <= Left(p[k], j)
  <2>1. /\ Reduced(j) = Left(p[at], j) /\ Reduced(j) \in 0..r /\ Reduced(j) < Pad
        /\ Pad \in Int /\ j \in 1..N
    BY <1>1, <1>4, ReducedIs
  <2>2. near[j] = IF Shorter(j) THEN Reduced(j) ELSE minv[j]
    BY DEF Near
  <2>3. way'[j] = IF Shorter(j) THEN at ELSE way[j]
    BY <1>1, <2>1
  <2>4. IF used = {} THEN minv[j] = Pad
        ELSE /\ way[j] \in used /\ minv[j] = Left(p[way[j]], j)
             /\ \A k \in used : minv[j] <= Left(p[k], j)
    BY <1>1, <1>3 DEF DualInv, Searching, Nearby
  <2>5. minv[j] \in Int /\ \A k \in T : Left(p[k], j) \in Int
    <3>1. minv[j] \in Int /\ v[j] \in Int
      BY <2>1 DEF DualInv, Ranges
    <3>2. ASSUME NEW k \in T PROVE Left(p[k], j) \in Int
      <4>1. PICK i \in 1..N : i = p[k]
        BY <1>2
      <4>2. QED BY <2>1, <4>1, LeftIs DEF DualInv
    <3>3. QED BY <3>1, <3>2
  <2>6. CASE Shorter(j)
    <3>1. near[j] = Reduced(j) /\ way'[j] = at /\ Reduced(j) < minv[j]
      BY <2>2, <2>3, <2>6 DEF Shorter
    <3>2. ASSUME NEW k \in T PROVE near[j] <= Left(p[k], j)
      <4>1. CASE k = at
        BY <2>1, <3>1, <4>1
      <4>2. CASE k # at
        <5>1. k \in used /\ minv[j] <= Left(p[k], j)
          BY <2>4, <4>2
        <5>2. Left(p[k], j) \in Int
          BY <2>5
        <5>3. QED BY <2>1, <2>5, <3>1, <5>1, <5>2
      <4>3. QED BY <4>1, <4>2
    <3>3. QED BY <2>1, <3>1, <3>2
  <2>7. CASE ~Shorter(j)
    <3>1. near[j] = minv[j] /\ way'[j] = way[j] /\ ~(Reduced(j) < minv[j])
      BY <2>2, <2>3, <2>7 DEF Shorter
    <3>2. minv[j] <= Reduced(j)
      BY <2>1, <2>5, <3>1
    <3>3. used # {}
      BY <2>1, <2>4, <3>2
    <3>4. /\ way[j] \in used /\ minv[j] = Left(p[way[j]], j)
          /\ \A k \in used : minv[j] <= Left(p[k], j)
      BY <2>4, <3>3
    <3>5. \A k \in T : near[j] <= Left(p[k], j)
      BY <2>1, <3>1, <3>2, <3>4
    <3>6. Left(p[way[j]], j) >= 0
      <4>1. PICK i \in 1..adding : i = p[way[j]]
        BY <1>2, <3>4
      <4>2. QED BY <2>1, <4>1 DEF DualInv, Potentials
    <3>7. near[j] \in 0..r
      BY <2>1, <2>5, <3>1, <3>2, <3>4, <3>6
    <3>8. QED BY <3>1, <3>4, <3>5, <3>7
  <2>8. QED BY <2>6, <2>7
<1>6. PICK f \in Open : p[f] = 0
  <2>1. PICK f \in 1..N : p[f] = 0
    BY <1>1, FreeColumn
  <2>2. f \notin T
    BY <1>2, <2>1
  <2>3. QED BY <1>3, <2>1, <2>2
<1>7. \A j \in Open : near[j] \in Int /\ near[j] < Pad
  <2>1. Pad \in Int
    BY HungarianAssumption
  <2>2. QED BY <1>4, <1>5, <2>1
<1>8. PICK next \in Open : Nearest(near, next) /\ Advance(near, near[next], next)
  <2>1. ~(near[f] >= Pad)
    <3>1. Pad \in Int
      BY HungarianAssumption
    <3>2. QED BY <1>7, <3>1
  <2>2. \/ \E j \in Open : near[j] < Pad /\ Nearest(near, j) /\ Advance(near, near[j], j)
        \/ (\A j \in Open : near[j] >= Pad) /\ Advance(near, Pad, 0)
    BY DEF Search
  <2>3. QED BY <2>1, <2>2
<1>9. PICK d \in 0..r : d = near[next]
  BY <1>5
<1>10. \A j \in Open : d <= near[j]
  BY <1>7, <1>9, <1>8 DEF Nearest
<1>11. PICK k \in Nat, w \in 0..C :
         /\ w = u[adding] /\ k + C <= N * C
         /\ \A i \in 1..N : u[i] \in 0..(k + w)
         /\ \A j \in 1..N : v[j] \in (-(k + w))..0
  BY <1>2, RangesIn DEF DualInv
<1>12. w + d <= C
  <2>1. near[f] <= Left(p[0], f) /\ f \in 1..N
    BY <1>2, <1>3, <1>5, <1>6
  <2>2. v[f] = 0
    BY <1>6, <2>1 DEF DualInv, Potentials
  <2>2a. /\ cost[adding][f] \in 0..C
         /\ Left(adding, f) = cost[adding][f] - u[adding] - v[f]
    BY <1>2, <2>1, LeftIs DEF DualInv
  <2>3. Left(p[0], f) = cost[adding][f] - w - 0
    BY <1>2, <1>11, <2>2, <2>2a
  <2>4. d <= near[f] /\ near[f] \in Int
    BY <1>6, <1>7, <1>10
  <2>5. PICK x \in 0..C, y \in Int : x = cost[adding][f] /\ y = near[f]
    BY <2>2a, <2>4
  <2>6. d <= y /\ y <= x - w - 0
    BY <2>1, <2>3, <2>4, <2>5
  <2>7. QED BY <1>2, <2>6
<1>13. (\A x \in (-r)..r : Float[x] = x) /\ k + C <= r
  BY <1>4, <1>11, ExactSums
<1>14. ASSUME NEW i \in 1..N
       PROVE  u'[i] = IF \E j \in used' : p[j] = i THEN u[i] + d ELSE u[i]
  <2>1. u'[i] = IF \E j \in used' : p[j] = i THEN Float[u[i] + d] ELSE u[i]
    BY <1>8, <1>9 DEF Advance
  <2>2. PICK y \in 0..(k + w) : y = u[i]
    BY <1>11
  <2>3. y + d \in (-r)..r
    BY <1>2, <1>12, <1>13
  <2>4. Float[u[i] + d] = u[i] + d
    BY <1>13, <2>2, <2>3
  <2>5. QED BY <2>1, <2>4
<1>15. ASSUME NEW j \in 1..N PROVE v'[j] = IF j \in used' THEN v[j] - d ELSE v[j]
  <2>1. v'[j] = IF j \in used' THEN Float[v[j] - d] ELSE v[j]
    BY <1>8, <1>9 DEF Advance
  <2>2. PICK y \in (-(k + w))..0 : y = v[j]
    BY <1>11
  <2>3. y - d \in (-r)..r
    BY <1>2, <1>12, <1>13
  <2>4. Float[v[j] - d] = v[j] - d
    BY <1>13, <2>2, <2>3
  <2>5. QED BY <2>1, <2>4
<1>16. ASSUME NEW j \in Open
       PROVE  minv'[j] = near[j] - d /\ near[j] - d \in Int /\ near[j] - d >= 0
  <2>1. j \in 1..N
    BY DEF Open
  <2>2. minv'[j] = Float[near[j] - d]
    BY <1>8, <1>9, <2>1 DEF Advance
  <2>3. PICK y \in 0..r : y = near[j]
    BY <1>5
  <2>4. d <= y
    BY <1>10, <2>3
  <2>5. y - d \in (-r)..r /\ y - d \in Int /\ y - d >= 0
    BY <2>4
  <2>6. Float[near[j] - d] = near[j] - d
    BY <1>13, <2>3, <2>5
  <2>7. QED BY <2>2, <2>3, <2>5, <2>6
<1>17. ASSUME NEW j \in Open
       PROVE  /\ minv'[j] = Left(p[way'[j]], j) - d
              /\ \A l \in used' : minv'[j] <= Left(p[l], j) - d
  <2>1. minv'[j] = Left(p[way'[j]], j) - d
    BY <1>5, <1>16
  <2>2. ASSUME NEW l \in T PROVE near[j] - d <= Left(p[l], j) - d
    <3>1. near[j] <= Left(p[l], j) /\ near[j] \in Int
      BY <1>5, <1>7
    <3>2. Left(p[l], j) \in Int
      <4>1. PICK i \in 1..N : i = p[l]
        BY <1>2
      <4>2. j \in 1..N
        BY DEF Open
      <4>3. QED BY <4>1, <4>2, LeftIs DEF DualInv
    <3>3. PICK x \in Int, y \in Int : x = near[j] /\ y = Left(p[l], j)
      BY <3>1, <3>2
    <3>4. x - d <= y - d
      BY <3>1, <3>3
    <3>5. QED BY <3>3, <3>4
  <2>3. QED BY <1>1, <1>16, <2>1, <2>2
<1>18. minv'[next] = 0
  <2>1. minv'[next] = d - d
    BY <1>9, <1>16
  <2>2. QED BY <2>1
<1>19. /\ \A j \in (0..N) \ Open : way'[j] = way[j]
       /\ \A j \in (1..N) \ Open : minv'[j] = minv[j]
       /\ phase' = IF p[next] = 0 THEN "augment" ELSE "search"
       /\ at' = next
  BY <1>1, <1>8 DEF Advance
<1>20. d \in Int /\ 0 <= d /\ u[adding] + d <= C
  BY <1>11, <1>12
<1>21. \A j \in Open : way'[j] \in used' /\ minv'[j] \in Int /\ minv'[j] >= 0
  BY <1>1, <1>5, <1>16
<1>22. used' = used \cup {at}
  BY <1>1
<1> HIDE DEF T, near
<1>23. QED
  BY <1>1, <1>14, <1>15, <1>17, <1>18, <1>19, <1>20, <1>21, <1>22 DEF Turned

\* What is left of the cost of a pair changes where one of the two has been reached.
LEMMA LeftTurned ==
  ASSUME NEW C, Exact(C), HungarianInv, DualInv(C), phase = "search",
         NEW next \in Open, NEW d, Turned(C, next, d), NEW i \in 1..N, NEW j \in 1..N
  PROVE  Left(i, j)' = Left(i, j) - (IF \E k \in used' : p[k] = i THEN d ELSE 0)
                                  + (IF j \in used' THEN d ELSE 0)
<1>1. /\ u'[i] = IF \E k \in used' : p[k] = i THEN u[i] + d ELSE u[i]
      /\ v'[j] = IF j \in used' THEN v[j] - d ELSE v[j]
      /\ cost' = cost /\ d \in Int
  BY DEF Turned
<1>2. /\ cost[i][j] \in 0..C /\ u[i] \in Int /\ v[j] \in Int
      /\ Left(i, j) = cost[i][j] - u[i] - v[j] /\ C \in Int
  BY LeftIs DEF DualInv, Exact
<1>3. PICK a \in Int, x \in Int, y \in Int : a = cost[i][j] /\ x = u[i] /\ y = v[j]
  BY <1>2
<1>4. Left(i, j)' = a - u'[i] - v'[j]
  BY <1>1, <1>3 DEF Left
<1>5. Left(i, j) = a - x - y
  BY <1>2, <1>3
<1>6. PICK e \in Int : /\ e = (IF \E k \in used' : p[k] = i THEN d ELSE 0)
                       /\ u'[i] = x + e
  BY <1>1, <1>3
<1>7. PICK g \in Int : g = (IF j \in used' THEN d ELSE 0) /\ v'[j] = y - g
  BY <1>1, <1>3
<1>8. a - (x + e) - (y - g) = (a - x - y) - e + g
  OBVIOUS
<1>9. QED BY <1>4, <1>5, <1>6, <1>7, <1>8

LEMMA TurnedRanges ==
  ASSUME NEW C, Exact(C), HungarianInv, DualInv(C), phase = "search",
         NEW next \in Open, NEW d, Turned(C, next, d)
  PROVE  Ranges(C)'
<1>1. /\ N \in Nat \ {0} /\ C \in Nat /\ adding \in 1..N /\ p[0] = adding
      /\ at \in 0..N /\ 0 \in used \cup {at} /\ used \subseteq 0..N
      /\ \A k \in used \cup {at} : p[k] \in 1..adding
  BY SearchFrom
<1>2. /\ used' = used \cup {at} /\ cost' = cost /\ adding' = adding
      /\ d \in Int /\ 0 <= d /\ u[adding] + d <= C
      /\ \A i \in 1..N : u'[i] = IF \E j \in used' : p[j] = i THEN u[i] + d ELSE u[i]
      /\ \A j \in 1..N : v'[j] = IF j \in used' THEN v[j] - d ELSE v[j]
      /\ \A j \in (1..N) \ Open : minv'[j] = minv[j]
      /\ \A j \in Open : minv'[j] \in Int
  BY DEF Turned
<1>3. PICK k \in Nat, w \in 0..C :
        /\ w = u[adding] /\ k = (adding - 1) * C
        /\ \A i \in 1..N : u[i] \in 0..(k + w)
        /\ \A j \in 1..N : v[j] \in (-(k + w))..0
  BY <1>1, RangesIn DEF DualInv
<1>4. u'[adding] = w + d
  BY <1>1, <1>2, <1>3
<1>5. Sofar(C)' = k + (w + d)
  <2>1. Sofar(C)' = (adding - 1) * C + u'[adding]
    BY <1>2 DEF Sofar
  <2>2. QED BY <1>3, <1>4, <2>1
<1>6. w + d \in Int /\ w + d <= C /\ u'[adding] <= C
  BY <1>1, <1>2, <1>3, <1>4
<1>7. ASSUME NEW i \in 1..N
      PROVE  u'[i] \in Int /\ 0 <= u'[i] /\ u'[i] <= k + (w + d) /\ (i > adding => u'[i] = 0)
  <2>1. PICK y \in 0..(k + w) : y = u[i]
    BY <1>3
  <2>2. u'[i] = y + d \/ u'[i] = y
    BY <1>2, <2>1
  <2>3. i > adding => y = 0 /\ u'[i] = y
    <3>1. SUFFICES ASSUME i > adding PROVE y = 0 /\ u'[i] = y
      OBVIOUS
    <3>2. y = 0
      BY <2>1, <3>1 DEF DualInv, Ranges
    <3>3. ~\E j \in used' : p[j] = i
      BY <1>1, <1>2, <3>1
    <3>4. QED BY <1>2, <2>1, <3>2, <3>3
  <2>4. QED BY <1>2, <1>6, <2>2, <2>3
<1>8. ASSUME NEW j \in 1..N
      PROVE  minv'[j] \in Int /\ v'[j] \in Int /\ v'[j] <= 0 /\ -v'[j] <= k + (w + d)
  <2>1. PICK y \in (-(k + w))..0 : y = v[j]
    BY <1>3
  <2>2. v'[j] = y - d \/ v'[j] = y
    BY <1>2, <2>1
  <2>3. minv'[j] \in Int
    BY <1>2 DEF DualInv, Ranges
  <2>4. QED BY <1>2, <1>6, <2>2, <2>3
<1>9. cost' \in [1..N -> [1..N -> 0..C]] /\ used' \subseteq 0..N
  BY <1>1, <1>2 DEF DualInv, Ranges
<1>10. QED BY <1>2, <1>5, <1>6, <1>7, <1>8, <1>9 DEF Ranges

LEMMA TurnedPotentials ==
  ASSUME NEW C, Exact(C), HungarianInv, DualInv(C), phase = "search",
         NEW next \in Open, NEW d, Turned(C, next, d)
  PROVE  Potentials'
<1>1. /\ N \in Nat \ {0} /\ adding \in 1..N /\ at \in 0..N
      /\ \A k \in used \cup {at} : k \in 0..N /\ p[k] \in 1..adding /\ p[k] \in 1..N
      /\ \A j, k \in 0..N : p[j] = p[k] => j = k \/ p[j] = 0
      /\ p \in [0..N -> 0..N]
  BY SearchFrom
<1>2. /\ used' = used \cup {at} /\ adding' = adding /\ p' = p /\ d \in Int /\ 0 <= d
      /\ \A j \in 1..N : v'[j] = IF j \in used' THEN v[j] - d ELSE v[j]
  BY DEF Turned
<1>3. \A j \in (1..N) \ used' : j \in Open
  BY <1>2 DEF Open
<1>4. ASSUME NEW i \in 1..adding, NEW j \in 1..N PROVE Left(i, j)' >= 0
  <2>1. i \in 1..N /\ Left(i, j) >= 0 /\ Left(i, j) \in Int
    <3>1. i \in 1..N
      BY <1>1
    <3>2. QED BY <3>1, LeftIs DEF DualInv, Potentials
  <2>2. PICK y \in Int : y = Left(i, j) /\ y >= 0
    BY <2>1
  <2>3. CASE (\E k \in used' : p[k] = i) /\ j \notin used'
    <3>1. Left(i, j)' = y - d + 0
      BY <2>1, <2>2, <2>3, LeftTurned
    <3>2. PICK k \in used' : p[k] = i
      BY <2>3
    <3>3. minv'[j] \in Int /\ minv'[j] >= 0 /\ minv'[j] <= Left(i, j) - d
      BY <1>3, <2>3, <3>2 DEF Turned
    <3>4. PICK m \in Int : m = minv'[j] /\ m >= 0 /\ m <= y - d
      BY <2>2, <3>3
    <3>5. y - d + 0 >= 0
      BY <1>2, <3>4
    <3>6. QED BY <3>1, <3>5
  <2>4. CASE ~((\E k \in used' : p[k] = i) /\ j \notin used')
    <3>1. PICK e \in Int, g \in Int :
            /\ e = (IF \E k \in used' : p[k] = i THEN d ELSE 0)
            /\ g = (IF j \in used' THEN d ELSE 0)
      BY <1>2
    <3>2. Left(i, j)' = y - e + g
      BY <2>1, <2>2, <3>1, LeftTurned
    <3>3. e = g \/ (e = 0 /\ g = d)
      BY <2>4, <3>1
    <3>4. y - e + g >= 0
      BY <1>2, <2>2, <3>3
    <3>5. QED BY <3>2, <3>4
  <2>5. QED BY <2>3, <2>4
<1>5. ASSUME NEW j \in 1..N, p[j] # 0 PROVE Left(p[j], j)' = 0
  <2>1. PICK i \in 1..N : i = p[j]
    BY <1>1, <1>5
  <2>2. Left(i, j) = 0
    BY <1>5, <2>1 DEF DualInv, Potentials
  <2>3. (\E k \in used' : p[k] = i) <=> j \in used'
    <3>1. ASSUME NEW k \in used', p[k] = i PROVE k = j
      <4>1. k \in used \cup {at}
        BY <1>2, <3>1
      <4>2. k \in 0..N /\ j \in 0..N
        BY <1>1, <4>1
      <4>3. p[k] = p[j] /\ p[k] # 0
        BY <1>5, <2>1, <3>1
      <4>4. QED BY <1>1, <4>2, <4>3
    <3>2. QED BY <2>1, <3>1
  <2>4. Left(i, j)' = 0
    <3>1. PICK e \in Int : /\ e = (IF \E k \in used' : p[k] = i THEN d ELSE 0)
                           /\ e = (IF j \in used' THEN d ELSE 0)
      BY <1>2, <2>3
    <3>2. Left(i, j)' = 0 - e + e
      BY <2>2, <3>1, LeftTurned
    <3>3. QED BY <3>2
  <2>5. Left(p[j], j)' = Left(i, j)'
    BY <1>2, <2>1 DEF Left
  <2>6. QED BY <2>4, <2>5
<1>6. ASSUME NEW j \in 1..N, p[j] = 0 PROVE v'[j] = 0
  <2>1. j \notin used'
    BY <1>1, <1>2, <1>6
  <2>2. v[j] = 0
    BY <1>6 DEF DualInv, Potentials
  <2>3. QED BY <1>2, <2>1, <2>2
<1>7. \A k \in used' : p[k] # 0
  BY <1>1, <1>2
<1>8. QED BY <1>2, <1>4, <1>5, <1>6, <1>7 DEF Potentials, Left

\* The columns reached stay a tree, with nothing left on its way back.
LEMMA TurnedTree ==
  ASSUME NEW C, Exact(C), HungarianInv, DualInv(C), phase = "search",
         NEW next \in Open, NEW d, Turned(C, next, d)
  PROVE  /\ \A j \in (used' \cup {next}) \ {0} : Ahead(j)' /\ Left(p[way[j]], j)' = 0
         /\ \A k \in used' \ {0} : way'[k] \in used'
         /\ next \in 1..N /\ next \notin used' /\ way'[next] \in used' /\ 0 \in used'
<1>1. /\ N \in Nat \ {0} /\ adding \in 1..N /\ at \in 0..N /\ 0 \in used \cup {at}
      /\ \A k \in used \cup {at} : k \in 0..N /\ p[k] \in 1..N
  BY SearchFrom
<1>2. /\ used' = used \cup {at} /\ p' = p /\ d \in Int
      /\ \A j \in (0..N) \ Open : way'[j] = way[j]
  BY DEF Turned
<1>3. /\ next \in 1..N /\ next \notin used' /\ way'[next] \in used'
      /\ \A j \in used' : j \in 0..N /\ way'[j] = way[j]
  <2>1. next \in 1..N /\ next \notin used'
    BY <1>2 DEF Open
  <2>2. \A j \in used' : j \in 0..N /\ j \notin Open
    BY <1>1, <1>2 DEF Open
  <2>3. QED BY <1>2, <2>1, <2>2 DEF Turned
<1>4. ASSUME NEW j \in used' \ {0}
      PROVE  /\ Left(p[way[j]], j) = 0 /\ way[j] \in used
             /\ \E R \in SUBSET used : Closed(R) /\ way[j] \in R /\ j \notin R
  BY <1>2 DEF DualInv, Searching, Ahead
<1>5. \A k \in used' \ {0} : way'[k] \in used'
  BY <1>2, <1>3, <1>4
<1>6. ASSUME NEW j \in used' \ {0} PROVE Ahead(j)' /\ Left(p[way[j]], j)' = 0
  <2>1. PICK R \in SUBSET used : Closed(R) /\ way[j] \in R /\ j \notin R
    BY <1>4
  <2>2. \A k \in R \ {0} : way'[k] \in R
    BY <1>2, <1>3, <2>1 DEF Closed
  <2>3. Ahead(j)'
    BY <1>2, <1>3, <2>1, <2>2 DEF Ahead, Closed
  <2>4. PICK i \in 1..N : i = p[way[j]]
    BY <1>1, <1>4
  <2>5. j \in 1..N
    BY <1>1, <1>3
  <2>6. \E k \in used' : p[k] = i
    BY <1>2, <1>4, <2>4
  <2>7. Left(i, j)' = Left(i, j) - d + d
    BY <2>5, <2>6, LeftTurned
  <2>8. Left(i, j)' = 0
    BY <1>2, <1>4, <2>4, <2>7
  <2>9. Left(p[way[j]], j)' = Left(i, j)'
    BY <1>2, <1>3, <2>4 DEF Left
  <2>10. QED BY <2>3, <2>8, <2>9
<1>7. Ahead(next)' /\ Left(p[way[next]], next)' = 0
  <2>1. Ahead(next)'
    <3>1. PICK R : R = used'
      OBVIOUS
    <3>2. R \in SUBSET used' /\ way'[next] \in R /\ next \notin R
      BY <1>3, <3>1
    <3>3. Closed(R)'
      BY <1>5, <3>1 DEF Closed
    <3>4. QED BY <3>2, <3>3 DEF Ahead
  <2>2. PICK i \in 1..N : i = p[way'[next]]
    BY <1>1, <1>2, <1>3
  <2>3. Left(i, next) - d = 0
    BY <2>2 DEF Turned
  <2>4. Left(i, next) \in Int
    BY <1>3, LeftIs DEF DualInv
  <2>5. Left(i, next)' = Left(i, next) - d + 0
    <3>1. \E k \in used' : p[k] = i
      BY <1>3, <2>2
    <3>2. QED BY <1>3, <3>1, LeftTurned
  <2>6. Left(i, next)' = 0
    BY <1>2, <2>3, <2>4, <2>5
  <2>7. Left(p[way[next]], next)' = Left(i, next)'
    BY <1>2, <2>2 DEF Left
  <2>8. QED BY <2>1, <2>6, <2>7
<1>8. QED BY <1>1, <1>2, <1>3, <1>5, <1>6, <1>7

LEMMA TurnedPhases ==
  ASSUME NEW C, Exact(C), HungarianInv, DualInv(C), phase = "search",
         NEW next \in Open, NEW d, Turned(C, next, d)
  PROVE  Searching' /\ Walking'
<1>1. /\ \A j \in (used' \cup {next}) \ {0} : Ahead(j)' /\ Left(p[way[j]], j)' = 0
      /\ \A k \in used' \ {0} : way'[k] \in used'
      /\ next \in 1..N /\ next \notin used' /\ way'[next] \in used' /\ 0 \in used'
  BY TurnedTree
<1>2. /\ N \in Nat \ {0} /\ at \in 0..N
      /\ \A k \in used \cup {at} : k \in 0..N /\ p[k] \in 1..N
  BY SearchFrom
<1>3. /\ used' = used \cup {at} /\ p' = p /\ d \in Int /\ at' = next
      /\ phase' = IF p[next] = 0 THEN "augment" ELSE "search"
  BY DEF Turned
<1>4. ASSUME NEW j \in (1..N) \ (used' \cup {next})
      PROVE  /\ way'[j] \in used' /\ minv'[j] = Left(p[way[j]], j)'
             /\ \A k \in used' : minv'[j] <= Left(p[k], j)'
  <2>1. j \in Open /\ j \in 1..N /\ j \notin used'
    BY <1>3 DEF Open
  <2>2. /\ way'[j] \in used' /\ minv'[j] = Left(p[way'[j]], j) - d
        /\ \A k \in used' : minv'[j] <= Left(p[k], j) - d
    BY <2>1 DEF Turned
  <2>3. ASSUME NEW k \in used' PROVE Left(p[k], j)' = Left(p[k], j) - d
    <3>1. PICK i \in 1..N : i = p[k]
      BY <1>2, <1>3
    <3>2. Left(i, j)' = Left(i, j) - d + 0
      BY <2>1, <3>1, LeftTurned
    <3>3. Left(i, j) \in Int
      BY <2>1, LeftIs DEF DualInv
    <3>4. Left(i, j) - d + 0 = Left(i, j) - d
      BY <1>3, <3>3
    <3>5. Left(p[k], j)' = Left(i, j)'
      BY <1>3, <3>1 DEF Left
    <3>6. QED BY <3>1, <3>2, <3>4, <3>5
  <2>4. QED BY <2>2, <2>3
<1>5. CASE p[next] # 0
  <2>1. phase' = "search"
    BY <1>3, <1>5
  <2>2. Nearby'
    BY <1>1, <1>3, <1>4 DEF Nearby
  <2>3. Searching'
    BY <1>1, <1>3, <1>5, <2>1, <2>2 DEF Searching
  <2>4. QED BY <2>1, <2>3 DEF Walking
<1>6. CASE p[next] = 0
  <2>1. phase' = "augment"
    BY <1>3, <1>6
  <2>2. PICK R : R = used'
    OBVIOUS
  <2>3. Closed(R)' /\ R \in SUBSET used' /\ next \notin R /\ way'[next] \in R
    BY <1>1, <2>2 DEF Closed
  <2>4. \A k \in (R \cup {next}) \ {0} : Left(p[way[k]], k)' = 0
    BY <1>1, <2>2
  <2>5. Walking'
    BY <1>1, <1>3, <2>3, <2>4 DEF Walking
  <2>6. QED BY <2>1, <2>5 DEF Searching
<1>7. QED BY <1>5, <1>6

LEMMA SearchDual ==
  ASSUME NEW C, Exact(C), HungarianInv, DualInv(C), Search PROVE DualInv(C)'
<1>1. phase = "search"
  BY DEF Search
<1>2. PICK next \in Open : \E d : Turned(C, next, d)
  BY SearchIs
<1>3. PICK d : Turned(C, next, d)
  BY <1>2
<1>4. QED
  BY <1>1, <1>3, TurnedRanges, TurnedPotentials, TurnedPhases DEF DualInv

\* The hole takes a row that costs nothing more there; the others keep theirs.
LEMMA HoleFilled ==
  ASSUME NEW C, Exact(C), HungarianInv, DualInv(C), phase = "augment",
         NEW s, s = [p EXCEPT ![at] = p[way[at]]]
  PROVE  /\ at \in 1..N /\ way[at] \in used /\ s \in [0..N -> 0..N]
         /\ \A j \in 1..N : s[j] # 0 => Left(s[j], j) = 0
         /\ \A j \in 1..N : s[j] = 0 => v[j] = 0
         /\ \A k \in used : s[k] # 0
         /\ \A k \in (0..N) \ {at} : s[k] = p[k]
<1>1. /\ at \in 0..N /\ at # 0 /\ N \in Nat \ {0} /\ p \in [0..N -> 0..N]
      /\ way \in [0..N -> 0..N]
  BY SizeType DEF HungarianInv, Walk
<1>2. PICK R \in SUBSET used :
        /\ Closed(R) /\ at \notin R /\ way[at] \in R
        /\ \A k \in (R \cup {at}) \ {0} : Left(p[way[k]], k) = 0
  BY DEF DualInv, Walking
<1>3. way[at] \in used /\ p[way[at]] # 0 /\ Left(p[way[at]], at) = 0 /\ at \in 1..N
  <2>1. way[at] \in used /\ at \in 1..N
    BY <1>1, <1>2
  <2>2. p[way[at]] # 0
    BY <2>1 DEF DualInv, Potentials
  <2>3. Left(p[way[at]], at) = 0
    BY <1>1, <1>2
  <2>4. QED BY <2>1, <2>2, <2>3
<1>4. /\ s[at] = p[way[at]] /\ \A k \in (0..N) \ {at} : s[k] = p[k]
      /\ s \in [0..N -> 0..N]
  BY <1>1
<1>5. /\ \A j \in 1..N : p[j] # 0 => Left(p[j], j) = 0
      /\ \A j \in 1..N : p[j] = 0 => v[j] = 0
      /\ \A k \in used : p[k] # 0
      /\ used \subseteq 0..N
  BY DEF DualInv, Potentials, Ranges
<1>6. ASSUME NEW j \in 1..N, s[j] # 0 PROVE Left(s[j], j) = 0
  <2>1. CASE j = at
    BY <1>3, <1>4, <2>1
  <2>2. CASE j # at
    <3>1. s[j] = p[j]
      BY <1>1, <1>4, <2>2
    <3>2. QED BY <1>5, <1>6, <3>1
  <2>3. QED BY <2>1, <2>2
<1>7. ASSUME NEW j \in 1..N, s[j] = 0 PROVE v[j] = 0
  <2>1. j # at /\ j \in 0..N
    BY <1>3, <1>4, <1>7
  <2>2. QED BY <1>4, <1>5, <1>7, <2>1
<1>8. \A k \in used : s[k] # 0
  BY <1>3, <1>4, <1>5
<1>9. QED BY <1>3, <1>4, <1>6, <1>7, <1>8

\* One step back on the path: what is behind it is as it was.
LEMMA StepBack ==
  ASSUME NEW C, Exact(C), HungarianInv, DualInv(C), phase = "augment", way[at] # 0,
         NEW s, s = [p EXCEPT ![at] = p[way[at]]]
  PROVE  \E R \in SUBSET used :
           /\ Closed(R) /\ way[at] \notin R /\ way[way[at]] \in R
           /\ \A k \in (R \cup {way[at]}) \ {0} : Left(s[way[k]], k) = 0
<1>1. PICK q : q = way[at]
  OBVIOUS
<1>2. PICK R \in SUBSET used :
        /\ Closed(R) /\ at \notin R /\ q \in R
        /\ \A k \in (R \cup {at}) \ {0} : Left(p[way[k]], k) = 0
  BY <1>1 DEF DualInv, Walking
<1>3. PICK B \in SUBSET used : Closed(B) /\ way[q] \in B /\ q \notin B
  BY <1>1, <1>2 DEF DualInv, Walking, Ahead
<1>4. PICK M : M = R \cap B
  OBVIOUS
<1>5. Closed(M) /\ q \notin M /\ way[q] \in M /\ M \in SUBSET used
  BY <1>1, <1>2, <1>3, <1>4 DEF Closed
<1>6. ASSUME NEW k \in (M \cup {q}) \ {0} PROVE Left(s[way[k]], k) = 0
  <2>1. k \in R \ {0} /\ way[k] \in R
    BY <1>2, <1>4 DEF Closed
  <2>2. way[k] # at /\ way[k] \in 0..N
    BY <1>2, <2>1 DEF DualInv, Ranges
  <2>3. s[way[k]] = p[way[k]]
    BY <2>2, HoleFilled
  <2>4. QED BY <1>2, <2>1, <2>3
<1>7. QED BY <1>1, <1>5, <1>6

LEMMA AugmentDual ==
  ASSUME NEW C, Exact(C), HungarianInv, DualInv(C), Augment PROVE DualInv(C)'
<1>1. /\ phase = "augment" /\ at' = way[at]
      /\ cost' = cost /\ u' = u /\ v' = v /\ way' = way
  BY DEF Augment
<1>2. PICK s : s = [p EXCEPT ![at] = p[way[at]]]
  OBVIOUS
<1>3. s = Shifted
  BY <1>2 DEF Shifted
<1>4. /\ at \in 1..N /\ way[at] \in used /\ s \in [0..N -> 0..N]
      /\ \A j \in 1..N : s[j] # 0 => Left(s[j], j) = 0
      /\ \A j \in 1..N : s[j] = 0 => v[j] = 0
      /\ \A k \in used : s[k] # 0
  BY <1>1, <1>2, HoleFilled
<1>5. /\ N \in Nat \ {0} /\ C \in Nat /\ adding \in 1..N /\ Pad \in Int
      /\ Ranges(C) /\ \A i \in 1..adding, j \in 1..N : Left(i, j) >= 0
  BY SizeType, HungarianAssumption DEF Exact, HungarianInv, Walk, DualInv, Potentials
<1>6. CASE way[at] # 0 \/ adding = N
  <2>1. /\ p' = s /\ adding' = adding /\ minv' = minv /\ used' = used
        /\ phase' = IF way[at] # 0 THEN "augment" ELSE "done"
    BY <1>1, <1>3, <1>6 DEF Augment
  <2>2. Ranges(C)'
    BY <1>1, <1>5, <2>1 DEF Ranges, Sofar
  <2>3. Potentials'
    BY <1>1, <1>4, <1>5, <2>1 DEF Potentials, Left
  <2>4. Searching'
    BY <2>1 DEF Searching
  <2>5. Walking'
    <3>1. SUFFICES ASSUME way[at] # 0 PROVE Walking'
      BY <2>1 DEF Walking
    <3>2. PICK R \in SUBSET used :
            /\ Closed(R) /\ way[at] \notin R /\ way[way[at]] \in R
            /\ \A k \in (R \cup {way[at]}) \ {0} : Left(s[way[k]], k) = 0
      BY <1>1, <1>2, <3>1, StepBack
    <3>3. Closed(R)' /\ R \in SUBSET used' /\ at' \notin R /\ way'[at'] \in R
      BY <1>1, <2>1, <3>2 DEF Closed
    <3>4. \A k \in (R \cup {at'}) \ {0} : Left(p[way[k]], k)' = 0
      BY <1>1, <2>1, <3>2 DEF Left
    <3>5. \A j \in used' \ {0} : Ahead(j)'
      BY <1>1, <2>1 DEF DualInv, Walking, Ahead, Closed
    <3>6. QED BY <3>3, <3>4, <3>5 DEF Walking
  <2>6. QED BY <2>2, <2>3, <2>4, <2>5 DEF DualInv
<1>7. CASE way[at] = 0 /\ adding # N
  <2>1. /\ p' = [s EXCEPT ![0] = adding + 1] /\ adding' = adding + 1
        /\ minv' = [j \in 1..N |-> Pad] /\ used' = {} /\ phase' = "search" /\ at' = 0
    BY <1>1, <1>3, <1>7 DEF Augment
  <2>2. adding + 1 \in 1..N /\ adding + 1 > adding
    BY <1>5, <1>7
  <2>3. p'[0] = adding + 1 /\ \A j \in 1..N : p'[j] = s[j]
    BY <1>4, <1>5, <2>1
  <2>4. PICK k \in Nat, w \in 0..C :
          /\ w = u[adding] /\ k = (adding - 1) * C
          /\ \A i \in 1..N : u[i] \in 0..(k + w)
          /\ \A j \in 1..N : v[j] \in (-(k + w))..0
    BY <1>5, RangesIn
  <2>5. u'[adding'] = 0
    BY <1>1, <1>5, <2>1, <2>2 DEF Ranges
  <2>6. Sofar(C)' = k + C
    <3>1. Sofar(C)' = ((adding + 1) - 1) * C + 0
      BY <2>1, <2>5 DEF Sofar
    <3>2. ((adding + 1) - 1) * C + 0 = (adding - 1) * C + C
      BY <1>5
    <3>3. QED BY <2>4, <3>1, <3>2
  <2>7. Ranges(C)'
    <3>1. ASSUME NEW i \in 1..N
          PROVE  /\ u'[i] \in Int /\ 0 <= u'[i] /\ u'[i] <= k + C
                 /\ i > adding' => u'[i] = 0
      <4>1. PICK y \in 0..(k + w) : y = u'[i]
        BY <1>1, <2>4
      <4>2. i > adding' => y = 0
        BY <1>1, <1>5, <2>1, <4>1 DEF Ranges
      <4>3. QED BY <1>5, <4>1, <4>2
    <3>2. ASSUME NEW j \in 1..N
          PROVE minv'[j] \in Int /\ v'[j] \in Int /\ v'[j] <= 0 /\ -v'[j] <= k + C
      <4>1. PICK y \in (-(k + w))..0 : y = v'[j]
        BY <1>1, <2>4
      <4>2. minv'[j] \in Int
        BY <1>5, <2>1
      <4>3. QED BY <1>5, <4>1, <4>2
    <3>3. cost' \in [1..N -> [1..N -> 0..C]] /\ used' \subseteq 0..N /\ u'[adding'] <= C
      BY <1>1, <1>5, <2>1, <2>5, SMTT(30) DEF Ranges
    <3>4. QED BY <2>6, <3>1, <3>2, <3>3 DEF Ranges
  <2>8. Potentials'
    <3>1. ASSUME NEW i \in 1..adding', NEW j \in 1..N PROVE Left(i, j)' >= 0
      <4>1. i \in 1..N /\ (i \in 1..adding \/ i = adding + 1)
        BY <1>5, <2>1, <2>2
      <4>2. Left(i, j)' = Left(i, j)
        BY <1>1 DEF Left
      <4>3. CASE i = adding + 1
        <5>1. u[i] = 0 /\ cost[i][j] \in 0..C /\ Left(i, j) = cost[i][j] - u[i] - v[j]
          BY <1>1, <1>5, <2>1, <2>5, <4>1, <4>3, LeftIs
        <5>2. PICK y \in (-(k + w))..0, x \in 0..C : y = v[j] /\ x = cost[i][j]
          BY <2>4, <5>1
        <5>3. x - 0 - y >= 0
          BY <1>5
        <5>4. QED BY <4>2, <5>1, <5>2, <5>3
      <4>4. QED BY <1>5, <4>1, <4>2, <4>3
    <3>2. \A j \in 1..N : p'[j] # 0 => Left(p[j], j)' = 0
      BY <1>1, <1>4, <2>3 DEF Left
    <3>3. \A j \in 1..N : p'[j] = 0 => v'[j] = 0
      BY <1>1, <1>4, <2>3
    <3>4. QED BY <2>1, <3>1, <3>2, <3>3 DEF Potentials
  <2>9. Searching' /\ Walking'
    <3>1. Nearby' /\ p'[at'] # 0
      BY <1>5, <2>1, <2>3 DEF Nearby
    <3>2. QED BY <2>1, <3>1 DEF Searching, Walking
  <2>10. QED BY <2>7, <2>8, <2>9 DEF DualInv
<1>8. QED BY <1>6, <1>7

LEMMA InitDual == ASSUME NEW C, Exact(C), HungarianInit PROVE DualInv(C)
<1>1. /\ N \in Nat \ {0} /\ C \in Nat /\ Rows = N /\ Cols = N /\ Pad \in Int
      /\ Costs \subseteq 0..C
  BY SizeType, HungarianAssumption DEF Exact, N
<1>2. /\ cost \in [1..N -> [1..N -> Costs]]
      /\ u = [i \in 0..N |-> 0] /\ v = [j \in 0..N |-> 0]
      /\ p = [j \in 0..N |-> IF j = 0 THEN 1 ELSE 0]
      /\ minv = [j \in 1..N |-> Pad] /\ used = {}
      /\ adding = 1 /\ at = 0 /\ phase = "search"
  BY <1>1 DEF HungarianInit
<1>3. Sofar(C) = 0
  BY <1>1, <1>2 DEF Sofar
<1>4. cost \in [1..N -> [1..N -> 0..C]]
  BY <1>1, <1>2
<1>5. Ranges(C)
  BY <1>1, <1>2, <1>3, <1>4 DEF Ranges
<1>6. Potentials
  <2>1. ASSUME NEW i \in 1..adding, NEW j \in 1..N PROVE Left(i, j) >= 0
    <3>1. i \in 1..N /\ u[i] = 0 /\ v[j] = 0
      BY <1>1, <1>2
    <3>2. cost[i][j] \in 0..C /\ Left(i, j) = cost[i][j] - 0 - 0
      BY <1>5, <3>1, LeftIs
    <3>3. QED BY <1>1, <3>2
  <2>2. \A j \in 1..N : p[j] = 0 /\ v[j] = 0
    BY <1>2
  <2>3. QED BY <1>2, <2>1, <2>2 DEF Potentials
<1>7. Searching /\ Walking
  <2>1. Nearby /\ p[at] # 0
    BY <1>1, <1>2 DEF Nearby
  <2>2. QED BY <1>2, <2>1 DEF Searching, Walking
<1>8. QED BY <1>5, <1>6, <1>7 DEF DualInv

LEMMA DualStep ==
  ASSUME NEW C, Exact(C), HungarianInv, DualInv(C), [HungarianNext]_hungarianVars
  PROVE  HungarianInv' /\ DualInv(C)'
<1>1. CASE Search
  BY <1>1, SearchInv, SearchDual
<1>2. CASE Augment
  BY <1>2, AugmentInv, AugmentDual
<1>3. CASE UNCHANGED hungarianVars
  <2>1. /\ cost' = cost /\ adding' = adding /\ at' = at /\ u' = u /\ v' = v /\ p' = p
        /\ way' = way /\ minv' = minv /\ used' = used /\ phase' = phase
    BY <1>3 DEF hungarianVars
  <2>2. HungarianInv'
    BY <2>1 DEF HungarianInv, Walk, OneToOne, Held
  <2>3. Ranges(C)' /\ Potentials'
    BY <2>1 DEF DualInv, Ranges, Sofar, Potentials, Left
  <2>4. Searching'
    BY <2>1 DEF DualInv, Searching, Nearby, Left, Ahead, Closed
  <2>5. Walking'
    BY <2>1 DEF DualInv, Walking, Left, Ahead, Closed
  <2>6. QED BY <2>2, <2>3, <2>4, <2>5 DEF DualInv
<1>4. QED BY <1>1, <1>2, <1>3 DEF HungarianNext

\* What FinalCost adds up.
LEMMA FinalCostIs ==
  ASSUME Rows \in Nat, NEW a, NEW w \in [1..Rows -> Int],
         \A i \in 1..Rows : w[i] = IF a[i] = 0 THEN 0 ELSE cost[i][a[i]]
  PROVE  \E g : Adds(g, Rows, w) /\ FinalCost(a) = g[Rows]
<1> DEFINE sum == CHOOSE sum : sum = [i \in 0..Rows |->
        IF i = 0 THEN 0
        ELSE sum[i - 1] + (IF a[i] = 0 THEN 0 ELSE cost[i][a[i]])]
<1>1. FinalCost(a) = sum[Rows]
  BY DEF FinalCost
<1>2. PICK g : Adds(g, Rows, w)
  BY AddsExist
<1>3. /\ g \in [0..Rows -> Int] /\ g[0] = 0 /\ \A i \in 1..Rows : g[i] = g[i - 1] + w[i]
  BY <1>2 DEF Adds
<1>4. g = [i \in 0..Rows |->
             IF i = 0 THEN 0
             ELSE g[i - 1] + (IF a[i] = 0 THEN 0 ELSE cost[i][a[i]])]
  <2>1. ASSUME NEW i \in 0..Rows
        PROVE  g[i] = IF i = 0 THEN 0
                      ELSE g[i - 1] + (IF a[i] = 0 THEN 0 ELSE cost[i][a[i]])
    <3>1. i = 0 \/ i \in 1..Rows
      OBVIOUS
    <3>2. QED BY <1>3, <3>1
  <2>2. QED BY <1>3, <2>1
<1>5. sum = [i \in 0..Rows |->
               IF i = 0 THEN 0
               ELSE sum[i - 1] + (IF a[i] = 0 THEN 0 ELSE cost[i][a[i]])]
  BY <1>4, Zenon
<1> HIDE DEF sum
<1> DEFINE S == {k \in 0..Rows : sum[k] = g[k]}
<1>6. 0 \in S
  BY <1>3, <1>5
<1>7. ASSUME NEW k \in 0..(Rows - 1), k \in S PROVE k + 1 \in S
  <2>1. k + 1 \in 1..Rows /\ k + 1 \in 0..Rows /\ (k + 1) - 1 = k /\ k + 1 # 0
    OBVIOUS
  <2>2. sum[k + 1] = sum[k] + (IF a[k + 1] = 0 THEN 0 ELSE cost[k + 1][a[k + 1]])
    BY <1>5, <2>1
  <2>3. g[k + 1] = g[k] + w[k + 1]
    BY <1>3, <2>1
  <2>4. QED BY <1>7, <2>1, <2>2, <2>3
<1>8. Rows \in S
  <2> HIDE DEF S
  <2>1. \A k \in 0..Rows : k \in S
    BY <1>6, <1>7, UpTo
  <2>2. QED BY <2>1
<1>9. QED BY <1>1, <1>2, <1>8

LEMMA DualOptimal ==
  ASSUME NEW C, Exact(C), HungarianInv, DualInv(C) PROVE Optimal
<1> SUFFICES ASSUME phase = "done", NEW f \in [1..Rows -> 0..Cols],
                    \A i, k \in 1..Rows : f[i] = f[k] => i = k \/ f[i] = 0,
                    Cardinality({i \in 1..Rows : f[i] # 0}) = Min({Rows, Cols})
             PROVE  FinalCost(Assignment) <= FinalCost(f)
  BY DEF Optimal
<1>1. /\ N \in Nat \ {0} /\ C \in Nat /\ Rows = N /\ Cols = N
  BY SizeType DEF Exact, N
<1>1a. \A i \in 1..N : f[i] # 0
  <2>1. PICK S : S = {i \in 1..N : f[i] # 0}
    OBVIOUS
  <2>2. Min({N, N}) = N
    BY <1>1, MinOfTwo
  <2>3. Cardinality(S) = N /\ S \subseteq 1..N
    BY <1>1, <2>1, <2>2
  <2>4. 1 \in Int /\ N \in Int
    BY <1>1
  <2>5. IsFiniteSet(1..N) /\ Cardinality(1..N) = N
    BY <1>1, <2>4, FS_Interval
  <2>6. S = 1..N
    BY <2>3, <2>5, FS_Subset
  <2>7. QED BY <2>1, <2>6
<1>2. /\ adding = N /\ p \in [0..N -> 0..N]
      /\ \A i \in 1..N : \E j \in 1..N : p[j] = i
      /\ \A j, k \in 1..N : p[j] = p[k] => j = k \/ p[j] = 0
  <2>1. Matching
    BY InvMatching
  <2>2. adding = N /\ p \in [0..N -> 0..N]
    BY DEF HungarianInv, Walk
  <2>3. QED BY <2>1, <2>2 DEF Matching, Settled
<1>3. PICK c : c = Assignment
  OBVIOUS
<1>4. c \in [1..N -> 1..N] /\ \A i \in 1..N : p[c[i]] = i
  <2>1. ASSUME NEW i \in 1..N PROVE c[i] \in 1..N /\ p[c[i]] = i
    <3>1. \E j \in 1..N : p[j] = i
      BY <1>2
    <3>2. c[i] = CHOOSE j \in 1..N : p[j] = i
      BY <1>1, <1>3, <3>1 DEF Assignment
    <3>3. QED BY <3>1, <3>2
  <2>2. c = [i \in 1..N |-> c[i]]
    BY <1>1, <1>3 DEF Assignment
  <2>3. QED BY <2>1, <2>2
<1>5. \A i, k \in 1..N : c[i] = c[k] => i = k
  BY <1>4
<1>6. PICK x : x = [i \in 1..N |-> u[i]]
  OBVIOUS
<1>7. PICK y : y = [j \in 1..N |-> v[j]]
  OBVIOUS
<1>8. x \in [1..N -> Int] /\ y \in [1..N -> Int]
  BY <1>6, <1>7 DEF DualInv, Ranges
<1>9. ASSUME NEW i \in 1..N, NEW j \in 1..N
      PROVE  /\ cost[i][j] \in Int
             /\ x[i] + y[j] <= cost[i][j]
             /\ p[j] = i => x[i] + y[j] = cost[i][j]
  <2>1. /\ cost[i][j] \in 0..C /\ u[i] \in Int /\ v[j] \in Int
        /\ Left(i, j) = cost[i][j] - u[i] - v[j]
    BY LeftIs DEF DualInv
  <2>2. /\ Left(i, j) >= 0
        /\ p[j] = i => Left(i, j) = 0
    <3>1. i \in 1..adding /\ i # 0
      BY <1>1, <1>2
    <3>2. Left(i, j) >= 0
      BY <3>1 DEF DualInv, Potentials
    <3>3. p[j] # 0 => Left(p[j], j) = 0
      BY DEF DualInv, Potentials
    <3>4. QED BY <3>1, <3>2, <3>3
  <2>3. PICK a \in Int, b \in Int, d \in Int : a = cost[i][j] /\ b = u[i] /\ d = v[j]
    BY <1>1, <2>1
  <2>4. x[i] = b /\ y[j] = d
    BY <1>6, <1>7, <2>3
  <2>5. a - b - d >= 0 /\ (p[j] = i => a - b - d = 0)
    BY <2>1, <2>2, <2>3
  <2>6. b + d <= a /\ (p[j] = i => b + d = a)
    BY <2>5
  <2>7. QED BY <2>3, <2>4, <2>6
<1>10. PICK r : r = [i \in 1..N |-> cost[i][c[i]]]
  OBVIOUS
<1>11. PICK s : s = [i \in 1..N |-> cost[i][f[i]]]
  OBVIOUS
<1>12. /\ r \in [1..N -> Int] /\ s \in [1..N -> Int]
       /\ \A i \in 1..N : x[i] + y[c[i]] = r[i]
       /\ \A i \in 1..N : x[i] + y[f[i]] <= s[i]
  <2>1. ASSUME NEW i \in 1..N
        PROVE  /\ r[i] = cost[i][c[i]] /\ s[i] = cost[i][f[i]]
               /\ c[i] \in 1..N /\ f[i] \in 1..N /\ p[c[i]] = i
    <3>1. r[i] = cost[i][c[i]] /\ s[i] = cost[i][f[i]]
      BY <1>10, <1>11
    <3>2. f[i] \in 0..N /\ f[i] # 0
      BY <1>1, <1>1a
    <3>3. f[i] \in 1..N
      BY <1>1, <3>2
    <3>4. QED BY <1>4, <3>1, <3>3
  <2>2. ASSUME NEW i \in 1..N
        PROVE  /\ r[i] \in Int /\ s[i] \in Int
               /\ x[i] + y[c[i]] = r[i] /\ x[i] + y[f[i]] <= s[i]
    BY <1>9, <2>1
  <2>3. QED BY <1>10, <1>11, <2>2
<1>13. PICK g : Adds(g, N, r) /\ FinalCost(c) = g[N]
  <2>1. \A i \in 1..Rows : r[i] = IF c[i] = 0 THEN 0 ELSE cost[i][c[i]]
    BY <1>1, <1>4, <1>10
  <2>2. Rows \in Nat /\ r \in [1..Rows -> Int]
    BY <1>1, <1>12
  <2>3. \E g : Adds(g, Rows, r) /\ FinalCost(c) = g[Rows]
    BY <2>1, <2>2, FinalCostIs
  <2>4. QED BY <1>1, <2>3
<1>14. PICK h : Adds(h, N, s) /\ FinalCost(f) = h[N]
  <2>1. \A i \in 1..Rows : s[i] = IF f[i] = 0 THEN 0 ELSE cost[i][f[i]]
    BY <1>1, <1>1a, <1>11
  <2>2. Rows \in Nat /\ s \in [1..Rows -> Int]
    BY <1>1, <1>12
  <2>3. \E h : Adds(h, Rows, s) /\ FinalCost(f) = h[Rows]
    BY <2>1, <2>2, FinalCostIs
  <2>4. QED BY <1>1, <2>3
<1>15. f \in [1..N -> 1..N] /\ \A i, k \in 1..N : f[i] = f[k] => i = k
  BY <1>1, <1>1a
<1>16. Certified(N, x, y, c, f, r, s, g, h)
  BY <1>1, <1>4, <1>5, <1>8, <1>12, <1>13, <1>14, <1>15 DEF Certified
<1>17. g[N] <= h[N]
  BY <1>16, CertifiedLeast
<1>18. QED BY <1>3, <1>13, <1>14, <1>17

-----------------------------------------------------------------------------
\* As its heading says, the function finds the global optimum: for square matrices
\* of every size, and all costs up to C, no other one-to-one assignment of the
\* rows costs less.
THEOREM AssignmentOptimal ==
  ASSUME NEW CONSTANT C, Exact(C) PROVE HungarianSpec => []Optimal
<1>1. HungarianInit => HungarianInv /\ DualInv(C)
  BY InitInv, InitDual
<1>2. HungarianInv /\ DualInv(C) /\ [HungarianNext]_hungarianVars
        => HungarianInv' /\ DualInv(C)'
  BY DualStep
<1>3. HungarianInv /\ DualInv(C) => Optimal
  BY DualOptimal
<1>4. QED BY <1>1, <1>2, <1>3, PTL DEF HungarianSpec

-----------------------------------------------------------------------------
(***************************************************************************)
(* Ids are unique and tracks stay in the order of their creation, for any  *)
(* places, thresholds, limits and numbers of tracks and detections.  It    *)
(* does not depend on what is matched: a track keeps its id, one that is   *)
(* removed leaves the order of the others alone, and a new one comes last  *)
(* with an id above all.                                                   *)
(***************************************************************************)

\* The ids of a list of tracks rise and are below n.
Rising(s, n) ==
  /\ \A i, k \in 1..Len(s) : i < k => s[i].id < s[k].id
  /\ \A i \in 1..Len(s) : s[i].id < n

\* The place of each loop, and how far the predictions have come.
Places ==
  /\ turn \in Nat
  /\ step = "idle" => where = <<>>
  /\ step = "predict" => turn \in 1..(Len(tracks) + 1) /\ Len(where) = turn - 1
  /\ step = "recover" => turn >= 1 /\ Len(where) = Len(tracks)
  /\ step = "spawn" => turn >= 1
  /\ step = "remove" => turn <= Len(tracks)

TrackerInv ==
  /\ tracks \in Seq(Tracks) /\ nextId \in Nat
  /\ dets \in Seq(Detections) /\ where \in Seq(Spots)
  /\ Places
  /\ Rising(tracks, nextId)

LEMMA TrackerConstants == ConfirmHits \in Nat \ {0} /\ Spots \subseteq Int
BY TrackerAssumption

LEMMA TrackerInitInv == TrackerInit => TrackerInv
BY DEF TrackerInit, TrackerInv, Places, Rising

\* Removing an entry keeps the order.
LEMMA WithoutOne ==
  ASSUME NEW s \in Seq(Tracks), NEW n \in Nat, Rising(s, n), NEW i \in 1..Len(s)
  PROVE  /\ Without(s, i) \in Seq(Tracks) /\ Rising(Without(s, i), n)
         /\ Len(Without(s, i)) = Len(s) - 1
<1> DEFINE r == Without(s, i)
<1>1. Len(s) \in Nat /\ Len(s) - 1 \in Nat
  OBVIOUS
<1>2. r = [k \in 1..(Len(s) - 1) |-> IF k < i THEN s[k] ELSE s[k + 1]]
  BY DEF Without
<1>3. \A k \in 1..(Len(s) - 1) : r[k] \in Tracks
  <2>1. ASSUME NEW k \in 1..(Len(s) - 1) PROVE r[k] \in Tracks
    <3>1. k \in 1..Len(s) /\ k + 1 \in 1..Len(s)
      BY <1>1
    <3>2. s[k] \in Tracks /\ s[k + 1] \in Tracks
      BY <3>1
    <3>3. QED BY <3>2, <1>2
  <2>2. QED BY <2>1
<1>4. r \in Seq(Tracks) /\ Len(r) = Len(s) - 1
  BY <1>1, <1>2, <1>3
<1>5. Rising(r, n)
  <2>1. ASSUME NEW j \in 1..Len(r), NEW k \in 1..Len(r), j < k
        PROVE  r[j].id < r[k].id
    <3>1. PICK x \in 1..Len(s) : r[j] = s[x] /\ (x = j \/ (x = j + 1 /\ j >= i))
      BY <1>1, <1>2, <1>4
    <3>2. PICK y \in 1..Len(s) : r[k] = s[y] /\ (y = k + 1 \/ (y = k /\ k < i))
      BY <1>1, <1>2, <1>4
    <3>3. x < y
      BY <2>1, <3>1, <3>2
    <3>4. QED BY <3>1, <3>2, <3>3 DEF Rising
  <2>2. ASSUME NEW k \in 1..Len(r) PROVE r[k].id < n
    <3>1. PICK y \in 1..Len(s) : r[k] = s[y]
      BY <1>1, <1>2, <1>4
    <3>2. QED BY <3>1 DEF Rising
  <2>3. QED BY <2>1, <2>2 DEF Rising
<1>6. QED BY <1>4, <1>5

\* So does a change of entries that keeps the ids.
LEMMA SameIds ==
  ASSUME NEW s \in Seq(Tracks), NEW n \in Nat, Rising(s, n), NEW r,
         r = [k \in 1..Len(s) |-> r[k]],
         \A k \in 1..Len(s) : r[k] \in Tracks /\ r[k].id = s[k].id
  PROVE  r \in Seq(Tracks) /\ Rising(r, n) /\ Len(r) = Len(s)
<1>1. Len(s) \in Nat
  OBVIOUS
<1>2. r \in Seq(Tracks) /\ Len(r) = Len(s)
  BY <1>1
<1>3. QED BY <1>1, <1>2 DEF Rising

LEMMA NewIsLast ==
  ASSUME NEW s \in Seq(Tracks), NEW n \in Nat, Rising(s, n),
         NEW t \in Tracks, t.id = n
  PROVE  Append(s, t) \in Seq(Tracks) /\ Rising(Append(s, t), n + 1)
<1>0. PICK r : r = Append(s, t)
  OBVIOUS
<1>1. /\ Len(s) \in Nat /\ r \in Seq(Tracks) /\ Len(r) = Len(s) + 1
      /\ r[Len(s) + 1] = t /\ \A k \in 1..Len(s) : r[k] = s[k]
  BY <1>0
<1>2. \A k \in 1..Len(s) : s[k].id \in Nat
  <2>1. ASSUME NEW k \in 1..Len(s) PROVE s[k].id \in Nat
    <3>1. s[k] \in Tracks
      OBVIOUS
    <3>2. QED BY <3>1 DEF Tracks
  <2>2. QED BY <2>1
<1>3. ASSUME NEW j \in 1..Len(r), NEW k \in 1..Len(r), j < k PROVE r[j].id < r[k].id
  <2>1. CASE k = Len(s) + 1
    <3>1. j \in 1..Len(s) /\ r[j] = s[j] /\ r[k] = t
      BY <1>1, <1>3, <2>1
    <3>2. QED BY <3>1 DEF Rising
  <2>2. CASE k # Len(s) + 1
    <3>1. j \in 1..Len(s) /\ k \in 1..Len(s)
      BY <1>1, <1>3, <2>2
    <3>2. QED BY <3>1, <1>1, <1>3 DEF Rising
  <2>3. QED BY <2>1, <2>2
<1>4. ASSUME NEW k \in 1..Len(r) PROVE r[k].id < n + 1
  <2>1. CASE k = Len(s) + 1
    BY <1>1, <2>1
  <2>2. CASE k # Len(s) + 1
    <3>1. k \in 1..Len(s) /\ r[k] = s[k]
      BY <1>1, <2>2
    <3>2. QED BY <3>1, <1>2 DEF Rising
  <2>3. QED BY <2>1, <2>2
<1>5. Rising(r, n + 1)
  BY <1>3, <1>4, Zenon DEF Rising
<1>6. QED BY <1>0, <1>1, <1>5, Zenon

-----------------------------------------------------------------------------
\* A match keeps the id and the shape of a track, and so does a miss.
LEMMA HitType ==
  ASSUME NEW tr \in Tracks, NEW b \in Spots, NEW jump, NEW part \in BOOLEAN
  PROVE  Hit(tr, b, jump, part) \in Tracks /\ Hit(tr, b, jump, part).id = tr.id
<1> DEFINE back == IF jump /\ tr.hits > 1 THEN Oldest(1, tr.hits - 2) ELSE tr.hits
           hits == IF back + 1 > ConfirmHits THEN ConfirmHits ELSE back + 1
<1>1. tr.hits \in 1..ConfirmHits /\ tr.confirmed \in BOOLEAN
  BY DEF Tracks
<1>2. Oldest(1, tr.hits - 2) \in Nat \ {0}
  BY <1>1, TrackerConstants DEF Oldest
<1>3. back \in Nat \ {0}
  BY <1>1, <1>2, TrackerConstants
<1>4. hits \in 1..ConfirmHits
  <2> HIDE DEF back
  <2>1. QED BY <1>3, TrackerConstants
<1>5. PICK sure \in BOOLEAN : sure = Sure(tr, back + 1)
  BY <1>1 DEF Sure
<1>6. Hit(tr, b, jump, part) =
        [id |-> tr.id, box |-> b, hits |-> hits, lost |-> 0,
         confirmed |-> sure, partial |-> part]
  BY <1>5 DEF Hit
<1> HIDE DEF back, hits
<1>7. QED BY <1>4, <1>6 DEF Tracks

LEMMA MissedType ==
  ASSUME NEW tr \in Tracks, NEW b \in Spots
  PROVE  Missed(tr, b) \in Tracks /\ Missed(tr, b).id = tr.id
<1>1. PICK n : n = tr.lost + 1
  OBVIOUS
<1>2. n \in Nat
  BY <1>1 DEF Tracks
<1>3. Missed(tr, b) = [tr EXCEPT !.box = b, !.lost = n]
  BY <1>1, Zenon DEF Missed
<1>4. QED BY <1>2, <1>3 DEF Tracks

LEMMA FrameInv == ASSUME TrackerInv, NEW ds \in Frames, Frame(ds) PROVE TrackerInv'
<1>1. ds \in Seq(Detections)
  BY DEF Frames
<1>2. /\ step = "idle" /\ step' = "predict" /\ turn' = 1 /\ dets' = ds
      /\ tracks' = tracks /\ nextId' = nextId /\ where' = where
  BY DEF Frame
<1>3. where = <<>> /\ Len(tracks) \in Nat
  BY <1>2 DEF TrackerInv, Places
<1>4. Places'
  BY <1>2, <1>3 DEF Places
<1>5. QED BY <1>1, <1>2, <1>4 DEF TrackerInv, Rising

LEMMA PredictInv == TrackerInv /\ Predict => TrackerInv'
<1> SUFFICES ASSUME TrackerInv, Predict PROVE TrackerInv'
  OBVIOUS
<1>1. /\ step = "predict" /\ step' = step /\ nextId' = nextId /\ dets' = dets
      /\ turn \in 1..Len(tracks) /\ Len(where) = turn - 1 /\ Len(tracks) \in Nat
      /\ tracks \in Seq(Tracks) /\ where \in Seq(Spots) /\ nextId \in Nat
      /\ Rising(tracks, nextId)
  BY DEF Predict, TrackerInv, Places
<1>2. ASSUME NEW b \in Spots, where' = Append(where, b), turn' = turn + 1,
             tracks' = tracks
      PROVE  TrackerInv'
  <2>1. where' \in Seq(Spots) /\ Len(where') = turn
    BY <1>1, <1>2
  <2>2. Places'
    BY <1>1, <1>2, <2>1 DEF Places
  <2>3. QED BY <1>1, <1>2, <2>1, <2>2 DEF TrackerInv, Rising
<1>3. ASSUME tracks' = Without(tracks, turn), where' = where, turn' = turn
      PROVE  TrackerInv'
  <2>1. /\ tracks' \in Seq(Tracks) /\ Rising(tracks', nextId)
        /\ Len(tracks') = Len(tracks) - 1
    BY <1>1, <1>3, WithoutOne
  <2>2. Places'
    BY <1>1, <1>3, <2>1 DEF Places
  <2>3. QED BY <1>1, <1>3, <2>1, <2>2 DEF TrackerInv
<1>4. QED BY <1>2, <1>3 DEF Predict

LEMMA CascadeInv == TrackerInv /\ Cascade => TrackerInv'
<1> SUFFICES ASSUME TrackerInv, Cascade PROVE TrackerInv'
  OBVIOUS
<1>1. /\ step = "predict" /\ step' = "recover" /\ turn' = 1
      /\ nextId' = nextId /\ dets' = dets /\ where' = where
      /\ Len(where) = Len(tracks) /\ Len(tracks) \in Nat
      /\ tracks \in Seq(Tracks) /\ DOMAIN tracks = 1..Len(tracks)
      /\ nextId \in Nat /\ Rising(tracks, nextId)
  BY DEF Cascade, TrackerInv, Places
<1>2. PICK m \in [DOMAIN tracks -> 0..Len(dets)] :
        \E jumped \in SUBSET {i \in DOMAIN tracks :
                                m[i] # 0 /\ ~tracks[i].confirmed /\ tracks[i].hits > 1} :
          tracks' = [i \in DOMAIN tracks |->
                       IF m[i] = 0 THEN tracks[i]
                       ELSE Hit(tracks[i], dets[m[i]].box, i \in jumped, FALSE)]
  BY DEF Cascade
<1>3. PICK jumped :
        tracks' = [i \in 1..Len(tracks) |->
                     IF m[i] = 0 THEN tracks[i]
                     ELSE Hit(tracks[i], dets[m[i]].box, i \in jumped, FALSE)]
  BY <1>1, <1>2
<1>4. ASSUME NEW i \in 1..Len(tracks)
      PROVE  tracks'[i] \in Tracks /\ tracks'[i].id = tracks[i].id
  <2>1. tracks[i] \in Tracks
    BY <1>1
  <2>2. CASE m[i] = 0
    BY <1>3, <2>1, <2>2
  <2>3. CASE m[i] # 0
    <3>1. m[i] \in 1..Len(dets) /\ dets \in Seq(Detections)
      <4>1. dets \in Seq(Detections)
        BY DEF TrackerInv
      <4>2. m[i] \in 0..Len(dets)
        BY <1>1, <1>2
      <4>3. Len(dets) \in Nat
        BY <4>1
      <4>4. QED BY <4>1, <4>2, <4>3, <2>3
    <3>2. dets[m[i]].box \in Spots
      <4>1. dets[m[i]] \in Detections
        BY <3>1
      <4>2. QED BY <4>1 DEF Detections
    <3>3. tracks'[i] = Hit(tracks[i], dets[m[i]].box, i \in jumped, FALSE)
      BY <1>3, <2>3
    <3>4. PICK jump : jump = (i \in jumped)
      OBVIOUS
    <3>5. tracks'[i] = Hit(tracks[i], dets[m[i]].box, jump, FALSE)
      BY <3>3, <3>4, Zenon
    <3>6. PICK part \in BOOLEAN : part = FALSE
      OBVIOUS
    <3>7. tracks'[i] = Hit(tracks[i], dets[m[i]].box, jump, part)
      BY <3>5, <3>6, Zenon
    <3>8. QED BY <2>1, <3>2, <3>7, HitType
  <2>4. QED BY <2>2, <2>3
<1>5. tracks' = [i \in 1..Len(tracks) |-> tracks'[i]]
  BY <1>3
<1>6. tracks' \in Seq(Tracks) /\ Rising(tracks', nextId) /\ Len(tracks') = Len(tracks)
  BY <1>1, <1>4, <1>5, SameIds
<1>7. Places'
  BY <1>1, <1>6 DEF Places
<1>8. QED BY <1>1, <1>6, <1>7 DEF TrackerInv

\* A change of one entry that keeps its id.
LEMMA OneChanged ==
  ASSUME NEW s \in Seq(Tracks), NEW n \in Nat, Rising(s, n), NEW i \in 1..Len(s),
         NEW t \in Tracks, t.id = s[i].id
  PROVE  LET r == [s EXCEPT ![i] = t]
         IN r \in Seq(Tracks) /\ Rising(r, n) /\ Len(r) = Len(s)
<1>1. PICK r : r = [s EXCEPT ![i] = t]
  OBVIOUS
<1>2. DOMAIN s = 1..Len(s)
  OBVIOUS
<1>3. r = [k \in 1..Len(s) |-> IF k = i THEN t ELSE s[k]]
  BY <1>1, <1>2, Zenon
<1>4. r = [k \in 1..Len(s) |-> r[k]]
  BY <1>3
<1>5. \A k \in 1..Len(s) : r[k] \in Tracks /\ r[k].id = s[k].id
  BY <1>3
<1>6. QED BY <1>1, <1>4, <1>5, SameIds

LEMMA RecoverInv == TrackerInv /\ Recover => TrackerInv'
<1> SUFFICES ASSUME TrackerInv, Recover PROVE TrackerInv'
  OBVIOUS
<1>1. /\ step = "recover" /\ step' = step /\ turn' = turn + 1
      /\ nextId' = nextId /\ dets' = dets /\ where' = where
      /\ turn \in 1..Len(tracks) /\ Len(where) = Len(tracks) /\ Len(tracks) \in Nat
      /\ tracks \in Seq(Tracks) /\ where \in Seq(Spots) /\ dets \in Seq(Detections)
      /\ nextId \in Nat /\ Rising(tracks, nextId)
  BY DEF Recover, TrackerInv, Places
<1>2. tracks[turn] \in Tracks /\ where[turn] \in Spots
  BY <1>1
<1>3. ASSUME NEW t \in Tracks, t.id = tracks[turn].id, tracks' = [tracks EXCEPT ![turn] = t]
      PROVE  TrackerInv'
  <2>1. tracks' \in Seq(Tracks) /\ Rising(tracks', nextId) /\ Len(tracks') = Len(tracks)
    BY <1>1, <1>3, OneChanged
  <2>2. Places'
    BY <1>1, <2>1 DEF Places
  <2>3. QED BY <1>1, <2>1, <2>2 DEF TrackerInv
<1>4. CASE tracks' = tracks
  <2>1. Places'
    BY <1>1, <1>4 DEF Places
  <2>2. QED BY <1>1, <1>4, <2>1 DEF TrackerInv, Rising
<1>5. ASSUME NEW d \in Free, NEW jump \in BOOLEAN, NEW usual \in BOOLEAN,
             tracks' = [tracks EXCEPT ![turn] = Hit(tracks[turn], dets[d].box, jump,
                                                    Part(d, usual))]
      PROVE  TrackerInv'
  <2>0. d \in DOMAIN dets
    BY DEF Free
  <2>1. dets[d].box \in Spots
    <3>1. d \in 1..Len(dets)
      BY <1>1, <2>0
    <3>2. dets[d] \in Detections
      BY <1>1, <3>1
    <3>3. QED BY <3>2 DEF Detections
  <2>2. Part(d, usual) \in BOOLEAN
    BY DEF Part
  <2>3. QED BY <1>2, <1>3, <1>5, <2>1, <2>2, HitType
<1>6. CASE tracks' = [tracks EXCEPT ![turn] = Missed(tracks[turn], where[turn])]
  BY <1>2, <1>3, <1>6, MissedType
<1>7. QED BY <1>4, <1>5, <1>6 DEF Recover

LEMMA SpawnStartInv == TrackerInv /\ SpawnStart => TrackerInv'
<1> SUFFICES ASSUME TrackerInv, SpawnStart PROVE TrackerInv'
  OBVIOUS
<1>1. /\ step' = "spawn" /\ turn' = 1 /\ tracks' = tracks /\ nextId' = nextId
      /\ dets' = dets /\ where' = where
  BY DEF SpawnStart
<1>2. Places'
  BY <1>1 DEF Places
<1>3. QED BY <1>1, <1>2 DEF TrackerInv, Rising

LEMMA SpawnInv == TrackerInv /\ Spawn => TrackerInv'
<1> SUFFICES ASSUME TrackerInv, Spawn PROVE TrackerInv'
  OBVIOUS
<1>1. /\ step = "spawn" /\ step' = step /\ turn' = turn + 1
      /\ dets' = dets /\ where' = where /\ turn \in Nat /\ turn >= 1
      /\ turn <= Len(dets) /\ dets \in Seq(Detections)
      /\ tracks \in Seq(Tracks) /\ where \in Seq(Spots) /\ nextId \in Nat
      /\ Rising(tracks, nextId)
  BY DEF Spawn, TrackerInv, Places
<1>2. Places'
  BY <1>1 DEF Places
<1>3. CASE tracks' = tracks /\ nextId' = nextId
  BY <1>1, <1>2, <1>3 DEF TrackerInv, Rising
<1>4. CASE tracks' = Append(tracks, NewTrack(turn)) /\ nextId' = nextId + 1
  <2>1. dets[turn] \in Detections
    <3>1. Len(dets) \in Nat
      BY <1>1
    <3>2. turn \in 1..Len(dets)
      BY <1>1, <3>1
    <3>3. QED BY <1>1, <3>2
  <2>2. PICK new : new = FALSE
    OBVIOUS
  <2>3. NewTrack(turn) = [id |-> nextId, box |-> dets[turn].box, hits |-> 1, lost |-> 0,
                          confirmed |-> new, partial |-> new]
    BY <2>2, Zenon DEF NewTrack
  <2>4. 1 \in 1..ConfirmHits /\ new \in BOOLEAN
    <3>1. 1 \in 1..ConfirmHits
      BY TrackerConstants
    <3>2. QED BY <2>2, <3>1, Zenon
  <2>5. NewTrack(turn) \in Tracks /\ NewTrack(turn).id = nextId
    BY <1>1, <2>1, <2>3, <2>4 DEF Tracks, Detections
  <2>6. tracks' \in Seq(Tracks) /\ Rising(tracks', nextId')
    BY <1>1, <1>4, <2>5, NewIsLast
  <2>7. nextId' \in Nat
    BY <1>1, <1>4
  <2>8. QED BY <1>1, <1>2, <2>6, <2>7 DEF TrackerInv
<1>5. QED BY <1>3, <1>4 DEF Spawn

LEMMA RemoveStartInv == TrackerInv /\ RemoveStart => TrackerInv'
<1> SUFFICES ASSUME TrackerInv, RemoveStart PROVE TrackerInv'
  OBVIOUS
<1>1. /\ step' = "remove" /\ turn' = Len(tracks) /\ tracks' = tracks
      /\ nextId' = nextId /\ dets' = dets /\ where' = where
  BY DEF RemoveStart
<1>2. Len(tracks) \in Nat
  BY DEF TrackerInv
<1>3. Places'
  BY <1>1, <1>2 DEF Places
<1>4. QED BY <1>1, <1>3 DEF TrackerInv, Rising

LEMMA RemoveInv == TrackerInv /\ Remove => TrackerInv'
<1> SUFFICES ASSUME TrackerInv, Remove PROVE TrackerInv'
  OBVIOUS
<1>1. /\ step = "remove" /\ step' = step /\ turn' = turn - 1
      /\ nextId' = nextId /\ dets' = dets /\ where' = where
      /\ turn \in 1..Len(tracks) /\ Len(tracks) \in Nat
      /\ tracks \in Seq(Tracks) /\ nextId \in Nat /\ Rising(tracks, nextId)
  BY DEF Remove, TrackerInv, Places
<1>2. /\ tracks' \in Seq(Tracks) /\ Rising(tracks', nextId)
      /\ Len(tracks') \in {Len(tracks), Len(tracks) - 1}
  <2>1. CASE tracks' = tracks
    BY <1>1, <2>1
  <2>2. CASE tracks' = Without(tracks, turn)
    BY <1>1, <2>2, WithoutOne
  <2>3. QED BY <2>1, <2>2 DEF Remove
<1>3. Places'
  BY <1>1, <1>2 DEF Places
<1>4. QED BY <1>1, <1>2, <1>3 DEF TrackerInv

\* The survivor keeps its id; the other one is removed.
LEMMA MergedOne ==
  ASSUME TrackerInv, NEW i \in DOMAIN tracks, NEW k \in DOMAIN tracks
  PROVE  /\ Merged(i, k) \in Seq(Tracks) /\ Rising(Merged(i, k), nextId)
         /\ Len(Merged(i, k)) = Len(tracks) - 1
<1>1. /\ i \in 1..Len(tracks) /\ k \in 1..Len(tracks) /\ tracks \in Seq(Tracks)
      /\ nextId \in Nat /\ Rising(tracks, nextId)
  BY DEF TrackerInv
<1>2. tracks[i] \in Tracks /\ tracks[k] \in Tracks
  BY <1>1
<1>3. PICK h \in 1..ConfirmHits : h = Oldest(tracks[i].hits, tracks[k].hits)
  BY <1>2 DEF Tracks, Oldest
<1>4. Survivor(i, k) = [tracks[i] EXCEPT !.box = tracks[k].box, !.lost = 0, !.hits = h]
  BY <1>3, Zenon DEF Survivor
<1>5. Survivor(i, k) \in Tracks /\ Survivor(i, k).id = tracks[i].id
  <2>1. PICK a, b : a = tracks[i] /\ b = tracks[k].box
    OBVIOUS
  <2>2. Survivor(i, k) = [a EXCEPT !.box = b, !.lost = 0, !.hits = h]
    BY <1>4, <2>1, Zenon
  <2>3. a \in Tracks /\ b \in Spots
    BY <1>2, <2>1 DEF Tracks
  <2>4. [a EXCEPT !.box = b, !.lost = 0, !.hits = h] \in Tracks
    BY <2>3 DEF Tracks
  <2>5. [a EXCEPT !.box = b, !.lost = 0, !.hits = h].id = a.id
    BY <2>3 DEF Tracks
  <2>6. QED BY <2>1, <2>2, <2>4, <2>5
<1>6. PICK r : r = [tracks EXCEPT ![i] = Survivor(i, k)]
  OBVIOUS
<1>7. r \in Seq(Tracks) /\ Rising(r, nextId) /\ Len(r) = Len(tracks)
  BY <1>1, <1>5, <1>6, OneChanged
<1>8. k \in 1..Len(r)
  BY <1>1, <1>7
<1>9. Merged(i, k) = Without(r, k)
  BY <1>6, Zenon DEF Merged
<1>10. QED BY <1>1, <1>7, <1>8, <1>9, WithoutOne

LEMMA MergeInv == TrackerInv /\ Merge => TrackerInv'
<1> SUFFICES ASSUME TrackerInv, Merge PROVE TrackerInv'
  OBVIOUS
<1>1. /\ step' = "idle" /\ turn' = 1 /\ dets' = <<>> /\ where' = <<>>
      /\ nextId' = nextId /\ nextId \in Nat
  BY DEF Merge, TrackerInv
<1>2. tracks' \in Seq(Tracks) /\ Rising(tracks', nextId)
  <2>1. CASE tracks' = tracks
    BY <2>1 DEF TrackerInv, Rising
  <2>2. ASSUME NEW i \in DOMAIN tracks, NEW k \in DOMAIN tracks, tracks' = Merged(i, k)
        PROVE  tracks' \in Seq(Tracks) /\ Rising(tracks', nextId)
    BY <2>2, MergedOne
  <2>3. QED BY <2>1, <2>2 DEF Merge
<1>3. Places'
  BY <1>1 DEF Places
<1>4. QED BY <1>1, <1>2, <1>3 DEF TrackerInv

-----------------------------------------------------------------------------
LEMMA TrackerNextInv == TrackerInv /\ [TrackerNext]_trackerVars => TrackerInv'
<1> SUFFICES ASSUME TrackerInv, [TrackerNext]_trackerVars PROVE TrackerInv'
  OBVIOUS
<1>1. ASSUME NEW ds \in Frames, Frame(ds) PROVE TrackerInv'
  BY <1>1, FrameInv
<1>2. CASE Working
  BY <1>2, PredictInv, CascadeInv, RecoverInv, SpawnStartInv, SpawnInv,
     RemoveStartInv, RemoveInv, MergeInv DEF Working
<1>3. CASE UNCHANGED trackerVars
  BY <1>3 DEF trackerVars, TrackerInv, Places, Rising
<1>4. QED BY <1>1, <1>2, <1>3 DEF TrackerNext

LEMMA RisingIsUnique == TrackerInv => UniqueIds
<1> SUFFICES ASSUME TrackerInv PROVE UniqueIds
  OBVIOUS
<1>1. DOMAIN tracks = 1..Len(tracks) /\ Rising(tracks, nextId)
  BY DEF TrackerInv
<1>2. QED BY <1>1, Zenon DEF UniqueIds, Rising

\* An id belongs to one track for good and the list is in the order of creation,
\* whatever is detected, predicted, matched, removed and merged
\* (object_tracker_update).
THEOREM IdsAreUnique == TrackerSpec => []UniqueIds
<1>1. TrackerInit => TrackerInv
  BY TrackerInitInv
<1>2. TrackerInv /\ [TrackerNext]_trackerVars => TrackerInv'
  BY TrackerNextInv
<1>3. TrackerInv => UniqueIds
  BY RisingIsUnique
<1>4. QED BY <1>1, <1>2, <1>3, PTL DEF TrackerSpec

-----------------------------------------------------------------------------
(***************************************************************************)
(* What the matching leaves.  A track seen recently enough stays without a *)
(* detection in the cascade only when its age group is larger than what is *)
(* left, and then the group takes all of it: no detection is left for an   *)
(* older track, for the recovery or for a new track.                       *)
(***************************************************************************)
PairsOnce ==
  \A i, k \in DOMAIN pairs : pairs[i] = pairs[k] => i = k \/ pairs[i] = 0

FreshBefore ==
  Highs(dets) # {} =>
    \A i, k \in DOMAIN pairs :
      ages[i] < ages[k] /\ ages[i] < MaxAge /\ pairs[k] # 0 => pairs[i] # 0

FreshMatched ==
  Highs(dets) # {} /\ Free # {} =>
    \A i \in DOMAIN pairs : ages[i] < MaxAge => pairs[i] # 0

Paired ==
  /\ ages \in Seq(Nat)
  /\ pairs \in [1..Len(ages) -> 0..Len(dets)]
  /\ PairsOnce /\ FreshBefore /\ FreshMatched

\* The detections the loop has passed that nobody took.
Passed == Free \cap 1..(turn - 1)

NewCounted ==
  /\ Len(tracks) - Len(ages) \in 0..Cardinality(Passed)
  /\ Len(tracks) # Len(ages) => Highs(dets) # {}

MatchInv ==
  /\ step \in {"recover", "spawn"} => Paired
  /\ step = "recover" => Len(tracks) = Len(ages)
  /\ step = "spawn" => NewCounted

LEMMA FreeFinite ==
  ASSUME dets \in Seq(Detections)
  PROVE  /\ Free \in SUBSET (1..Len(dets)) /\ IsFiniteSet(Free)
         /\ Cardinality(Free) \in Nat
<1>1. Free \in SUBSET (1..Len(dets))
  BY DEF Free
<1>2. 1 \in Int /\ Len(dets) \in Int
  OBVIOUS
<1>3. QED BY <1>1, <1>2, PartOfInterval, Zenon

\* Where the cascade leaves a recent track without one, it and the younger ones
\* have all the detections.
LEMMA CascadeTakesAll ==
  ASSUME TrackerInv, NEW m \in [DOMAIN tracks -> 0..Len(dets)], Cascaded(m),
         NEW i \in DOMAIN tracks, tracks[i].lost < MaxAge, m[i] = 0,
         NEW d \in DOMAIN dets
  PROVE  \E k \in DOMAIN tracks : m[k] = d /\ tracks[k].lost <= tracks[i].lost
<1> DEFINE a == tracks[i].lost + 1
           group == AgeGroup(a)
           left == LeftTo(a, m)
           got == {k \in group : m[k] # 0}
<1>1. /\ tracks \in Seq(Tracks) /\ DOMAIN tracks = 1..Len(tracks) /\ Len(tracks) \in Nat
      /\ dets \in Seq(Detections) /\ DOMAIN dets = 1..Len(dets) /\ Len(dets) \in Nat
  BY DEF TrackerInv
<1>2. \A k \in DOMAIN tracks : tracks[k].lost \in Nat
  <2>1. \A k \in DOMAIN tracks : tracks[k] \in Tracks
    BY <1>1
  <2>2. QED BY <2>1 DEF Tracks
<1>3. a \in 1..MaxAge
  BY <1>2, TrackerAssumption
<1>4. /\ IsFiniteSet(group) /\ Cardinality(group) \in Nat
      /\ IsFiniteSet(left) /\ Cardinality(left) \in Nat
  <2>1. group \in SUBSET (1..Len(tracks)) /\ left \in SUBSET (1..Len(dets))
    BY <1>1 DEF AgeGroup, LeftTo
  <2>2. 1 \in Int /\ Len(tracks) \in Int /\ Len(dets) \in Int
    BY <1>1
  <2> HIDE DEF group, left
  <2>3. QED BY <2>1, <2>2, PartOfInterval, Zenon
<1>5. Cardinality(got) = Min({Cardinality(group), Cardinality(left)})
  BY <1>3, Zenon DEF Cascaded
<1>6. i \in group /\ i \notin got /\ got \in SUBSET group
  BY DEF AgeGroup
<1>7. \A k \in group : k \in DOMAIN tracks /\ tracks[k].lost + 1 = a
  BY DEF AgeGroup
<1>8. \A k, j \in DOMAIN tracks : m[k] = m[j] => k = j \/ m[k] = 0
  BY Zenon DEF Cascaded
<1>9. \A k \in got : m[k] \in left
  <2>1. ASSUME NEW k \in got PROVE m[k] \in left
    <3>1. k \in DOMAIN tracks /\ m[k] # 0 /\ tracks[k].lost + 1 = a
      BY <1>7
    <3>2. m[k] \in DOMAIN dets
      <4>1. m[k] \in 0..Len(dets)
        BY <3>1
      <4>2. QED BY <4>1, <3>1, <1>1
    <3>3. ASSUME NEW j \in DOMAIN tracks, tracks[j].lost + 1 < a PROVE m[k] # m[j]
      <4>1. k # j
        BY <3>1, <3>3, <1>2
      <4>2. QED BY <4>1, <3>1, <1>8
    <3>4. QED BY <3>2, <3>3 DEF LeftTo
  <2>2. QED BY <2>1
<1>10. \A j \in DOMAIN dets :
         j \in left \/ \E k \in DOMAIN tracks : tracks[k].lost + 1 < a /\ m[k] = j
  BY DEF LeftTo
<1>11. a = tracks[i].lost + 1
  OBVIOUS
<1>12. \A k \in got : k \in DOMAIN tracks /\ m[k] # 0 /\ tracks[k].lost + 1 = a
  BY <1>7
<1> DEFINE f == [k \in got |-> m[k]]
<1> HIDE DEF group, left, got, a
<1>13. IsFiniteSet(got) /\ Cardinality(got) \in Nat /\ Cardinality(got) < Cardinality(group)
  <2>1. /\ IsFiniteSet(got) /\ Cardinality(got) <= Cardinality(group)
        /\ (Cardinality(group) = Cardinality(got) => group = got)
    BY <1>4, <1>6, FS_Subset
  <2>2. Cardinality(got) \in Nat
    BY <2>1, FS_CardinalityType
  <2>3. QED BY <1>4, <1>6, <2>1, <2>2
<1>14. Cardinality(got) = Cardinality(left)
  <2>1. Min({Cardinality(group), Cardinality(left)})
          = IF Cardinality(group) < Cardinality(left) THEN Cardinality(group)
                                                      ELSE Cardinality(left)
    BY <1>4, MinOfTwo
  <2>2. QED BY <2>1, <1>5, <1>13, <1>4
<1>15. f \in Injection(got, left)
  <2>1. f \in [got -> left]
    BY <1>9
  <2>2. \A k, j \in got : f[k] = f[j] => k = j
    BY <1>8, <1>12
  <2>3. QED BY <2>1, <2>2 DEF Injection, IsInjective
<1>16. f \in Surjection(got, left)
  <2> HIDE DEF f
  <2>1. QED BY <1>4, <1>14, <1>15, FS_Injection
<1>17. CASE d \in left
  <2>1. PICK k \in got : f[k] = d
    BY <1>16, <1>17 DEF Surjection
  <2>2. k \in DOMAIN tracks /\ m[k] = d /\ tracks[k].lost + 1 = a
    BY <2>1, <1>12
  <2>3. QED BY <2>2, <1>2, <1>11
<1>18. CASE d \notin left
  <2>1. PICK k \in DOMAIN tracks : tracks[k].lost + 1 < a /\ m[k] = d
    BY <1>10, <1>18
  <2>2. QED BY <2>1, <1>2, <1>11
<1>19. QED BY <1>17, <1>18

LEMMA CascadePaired == TrackerInv /\ Cascade => Paired' /\ Len(tracks') = Len(ages')
<1> SUFFICES ASSUME TrackerInv, Cascade PROVE Paired' /\ Len(tracks') = Len(ages')
  OBVIOUS
<1>1. /\ tracks \in Seq(Tracks) /\ DOMAIN tracks = 1..Len(tracks) /\ Len(tracks) \in Nat
      /\ dets \in Seq(Detections) /\ DOMAIN dets = 1..Len(dets) /\ dets' = dets
      /\ ages' = [i \in DOMAIN tracks |-> tracks[i].lost]
  BY DEF TrackerInv, Cascade
<1>2. \A k \in DOMAIN tracks : tracks[k].lost \in Nat
  <2>1. \A k \in DOMAIN tracks : tracks[k] \in Tracks
    BY <1>1
  <2>2. QED BY <2>1 DEF Tracks
<1>3. /\ ages' \in Seq(Nat) /\ Len(ages') = Len(tracks)
      /\ \A k \in DOMAIN tracks : ages'[k] = tracks[k].lost
  BY <1>1, <1>2
<1>4. PICK m \in [DOMAIN tracks -> 0..Len(dets)] :
        /\ IF Highs(dets) = {} THEN \A i \in DOMAIN tracks : m[i] = 0 ELSE Cascaded(m)
        /\ pairs' = m
  BY DEF Cascade
<1>5. /\ DOMAIN pairs' = DOMAIN tracks
      /\ pairs' \in [1..Len(ages') -> 0..Len(dets')]
  BY <1>1, <1>3, <1>4
<1>6. PairsOnce'
  <2>1. \A i, k \in DOMAIN tracks : m[i] = m[k] => i = k \/ m[i] = 0
    BY <1>4, Zenon DEF Cascaded
  <2>2. QED BY <2>1, <1>4, <1>5 DEF PairsOnce
<1>7. ASSUME Highs(dets)' # {}, NEW i \in DOMAIN tracks, ages'[i] < MaxAge, m[i] = 0,
             NEW d \in DOMAIN dets
      PROVE  \E k \in DOMAIN tracks : m[k] = d /\ ages'[k] <= ages'[i]
  <2>1. Highs(dets) # {}
    BY <1>1, <1>7 DEF Highs
  <2>2. Cascaded(m) /\ tracks[i].lost < MaxAge
    BY <2>1, <1>3, <1>4, <1>7
  <2>3. PICK k \in DOMAIN tracks : m[k] = d /\ tracks[k].lost <= tracks[i].lost
    BY <2>2, <1>7, CascadeTakesAll
  <2>4. QED BY <2>3, <1>3
<1>8. FreshBefore'
  <2> SUFFICES ASSUME Highs(dets)' # {}, NEW i \in DOMAIN tracks, NEW k \in DOMAIN tracks,
                      ages'[i] < ages'[k], ages'[i] < MaxAge, m[k] # 0, m[i] = 0
               PROVE  FALSE
    BY <1>4, <1>5 DEF FreshBefore
  <2>1. m[k] \in DOMAIN dets
    <3>1. m[k] \in 0..Len(dets) /\ Len(dets) \in Nat
      BY <1>1
    <3>2. QED BY <3>1, <1>1
  <2>2. PICK j \in DOMAIN tracks : m[j] = m[k] /\ ages'[j] <= ages'[i]
    BY <2>1, <1>7
  <2>3. j = k
    BY <2>2, <1>4, <1>5, <1>6 DEF PairsOnce
  <2>4. QED BY <2>2, <2>3, <1>2, <1>3
<1>9. FreshMatched'
  <2> SUFFICES ASSUME Highs(dets)' # {}, NEW i \in DOMAIN tracks, ages'[i] < MaxAge, m[i] = 0
               PROVE  Free' = {}
    BY <1>4, <1>5 DEF FreshMatched
  <2>1. \A d \in DOMAIN dets : \E k \in DOMAIN tracks : m[k] = d
    BY <1>7
  <2>2. Free' = DOMAIN dets \ {m[k] : k \in DOMAIN tracks}
    BY <1>1, <1>4, <1>5 DEF Free
  <2>3. QED BY <2>1, <2>2
<1>10. Len(tracks') = Len(ages')
  <2>1. tracks' = [i \in DOMAIN tracks |-> tracks'[i]]
    <3>1. PICK jumped :
            tracks' = [i \in DOMAIN tracks |->
                         IF m[i] = 0 THEN tracks[i]
                         ELSE Hit(tracks[i], dets[m[i]].box, i \in jumped, FALSE)]
      BY <1>4 DEF Cascade
    <3>2. QED BY <3>1
  <2>2. QED BY <2>1, <1>1, <1>3
<1>11. QED BY <1>3, <1>5, <1>6, <1>8, <1>9, <1>10 DEF Paired

LEMMA CascadeMatch == TrackerInv /\ Cascade => MatchInv'
<1> SUFFICES ASSUME TrackerInv, Cascade PROVE MatchInv'
  OBVIOUS
<1>1. step' = "recover"
  BY DEF Cascade
<1>2. QED BY <1>1, CascadePaired DEF MatchInv

\* The recovery takes what is free: if anything is, no recent track waits for it.
LEMMA RecoverMatch == TrackerInv /\ MatchInv /\ Recover => MatchInv'
<1> SUFFICES ASSUME TrackerInv, MatchInv, Recover PROVE MatchInv'
  OBVIOUS
<1>1. /\ step = "recover" /\ step' = step /\ dets' = dets /\ ages' = ages
      /\ turn \in 1..Len(tracks) /\ Len(tracks) = Len(ages) /\ tracks \in Seq(Tracks)
      /\ dets \in Seq(Detections) /\ Paired
  BY DEF Recover, TrackerInv, MatchInv, Places
<1>2. Len(tracks') = Len(tracks)
  <2>1. ASSUME NEW t, tracks' = [tracks EXCEPT ![turn] = t] PROVE Len(tracks') = Len(tracks)
    BY <1>1, <2>1
  <2>2. CASE tracks' = tracks
    BY <2>2
  <2>3. ASSUME NEW d \in Free, NEW jump \in BOOLEAN, NEW usual \in BOOLEAN,
               tracks' = [tracks EXCEPT ![turn] = Hit(tracks[turn], dets[d].box, jump,
                                                      Part(d, usual))]
        PROVE  Len(tracks') = Len(tracks)
    BY <2>1, <2>3
  <2>4. CASE tracks' = [tracks EXCEPT ![turn] = Missed(tracks[turn], where[turn])]
    BY <2>1, <2>4
  <2>5. QED BY <2>2, <2>3, <2>4 DEF Recover
<1>3. ASSUME pairs' = pairs PROVE Paired'
  BY <1>1, <1>3 DEF Paired, PairsOnce, FreshBefore, FreshMatched, Free, Highs
<1>4. ASSUME NEW d \in Free, pairs[turn] = 0, pairs' = [pairs EXCEPT ![turn] = d]
      PROVE  Paired'
  <2>1. /\ DOMAIN pairs = 1..Len(ages) /\ turn \in DOMAIN pairs
        /\ pairs \in [1..Len(ages) -> 0..Len(dets)]
    BY <1>1 DEF Paired
  <2>2. d \in 1..Len(dets) /\ Len(dets) \in Nat /\ \A k \in DOMAIN pairs : pairs[k] # d
    BY <1>1 DEF Free
  <2>3. d \in 0..Len(dets) /\ d # 0
    BY <2>2
  <2>4. /\ pairs' \in [1..Len(ages) -> 0..Len(dets)] /\ DOMAIN pairs' = DOMAIN pairs
        /\ pairs'[turn] = d
        /\ \A k \in DOMAIN pairs : k # turn => pairs'[k] = pairs[k]
    BY <1>4, <2>1, <2>3
  <2>5. PairsOnce'
    <3>1. ASSUME NEW i \in DOMAIN pairs, NEW k \in DOMAIN pairs, pairs'[i] = pairs'[k]
          PROVE  i = k \/ pairs'[i] = 0
      <4>1. PairsOnce
        BY <1>1 DEF Paired
      <4>2. QED BY <4>1, <3>1, <2>2, <2>4 DEF PairsOnce
    <3>2. QED BY <3>1, <2>4 DEF PairsOnce
  <2>6. Highs(dets) # {} => \A i \in DOMAIN pairs : ages[i] < MaxAge => pairs'[i] # 0
    <3>1. Highs(dets) # {} => \A i \in DOMAIN pairs : ages[i] < MaxAge => pairs[i] # 0
      BY <1>1, <1>4 DEF Paired, FreshMatched
    <3>2. QED BY <3>1, <2>3, <2>4
  <2>7. FreshBefore' /\ FreshMatched'
    BY <1>1, <2>4, <2>6 DEF FreshBefore, FreshMatched, Highs
  <2>8. QED BY <1>1, <2>4, <2>5, <2>7 DEF Paired
<1>5. Paired'
  BY <1>3, <1>4 DEF Recover
<1>6. QED BY <1>1, <1>2, <1>5 DEF MatchInv

LEMMA SpawnStartMatch == TrackerInv /\ MatchInv /\ SpawnStart => MatchInv'
<1> SUFFICES ASSUME TrackerInv, MatchInv, SpawnStart PROVE MatchInv'
  OBVIOUS
<1>1. /\ step = "recover" /\ step' = "spawn" /\ turn' = 1 /\ Len(tracks) = Len(ages)
      /\ tracks' = tracks /\ dets' = dets /\ ages' = ages /\ pairs' = pairs
      /\ Paired /\ tracks \in Seq(Tracks) /\ ages \in Seq(Nat)
  BY DEF SpawnStart, MatchInv, Paired, TrackerInv
<1>2. Paired'
  BY <1>1 DEF Paired, PairsOnce, FreshBefore, FreshMatched, Free, Highs
<1>3. NewCounted'
  <2>1. Passed' = {}
    BY <1>1 DEF Passed
  <2>2. Cardinality(Passed') = 0
    BY <2>1, FS_EmptySet
  <2>3. Len(tracks') - Len(ages') = 0 /\ Len(tracks') = Len(ages')
    BY <1>1
  <2>4. QED BY <2>2, <2>3 DEF NewCounted
<1>4. QED BY <1>1, <1>2, <1>3 DEF MatchInv

\* A new track stands for a free detection of its own.
LEMMA SpawnMatch == TrackerInv /\ MatchInv /\ Spawn => MatchInv'
<1> SUFFICES ASSUME TrackerInv, MatchInv, Spawn PROVE MatchInv'
  OBVIOUS
<1>1. /\ step = "spawn" /\ step' = step /\ turn \in Nat /\ turn >= 1 /\ turn' = turn + 1
      /\ dets' = dets /\ ages' = ages /\ pairs' = pairs
      /\ Paired /\ NewCounted /\ tracks \in Seq(Tracks) /\ dets \in Seq(Detections)
      /\ ages \in Seq(Nat) /\ turn \in DOMAIN dets
  BY DEF Spawn, MatchInv, Paired, TrackerInv, Places
<1>2. Paired'
  BY <1>1 DEF Paired, PairsOnce, FreshBefore, FreshMatched, Free, Highs
<1>3. Passed' = Free \cap 1..turn
  <2>1. Free' = Free
    BY <1>1 DEF Free
  <2>2. (turn' - 1) = turn
    BY <1>1
  <2>3. QED BY <2>1, <2>2 DEF Passed
<1>4. /\ IsFiniteSet(Passed) /\ Cardinality(Passed) \in Nat
      /\ IsFiniteSet(Passed') /\ Cardinality(Passed') \in Nat
      /\ Cardinality(Passed) <= Cardinality(Passed')
  <2>1. IsFiniteSet(Free)
    BY <1>1, FreeFinite
  <2>2. IsFiniteSet(Passed')
    BY <1>3, <2>1, FS_Subset
  <2>3. Passed \in SUBSET Passed'
    BY <1>1, <1>3 DEF Passed
  <2>4. QED BY <2>2, <2>3, FS_Subset, FS_CardinalityType
<1>5. Len(tracks) \in Nat /\ Len(ages) \in Nat
  BY <1>1
<1>6. CASE tracks' = tracks
  <2>1. NewCounted'
    BY <1>1, <1>4, <1>5, <1>6 DEF NewCounted, Highs
  <2>2. QED BY <1>1, <1>2, <2>1 DEF MatchInv
<1>7. CASE Wanted(turn) /\ tracks' = Append(tracks, NewTrack(turn))
  <2>1. turn \in Free /\ dets[turn].high
    BY <1>7 DEF Wanted
  <2>2. Passed' = Passed \cup {turn} /\ turn \notin Passed
    BY <1>1, <1>3, <2>1 DEF Passed
  <2>3. Cardinality(Passed') = Cardinality(Passed) + 1
    BY <2>2, <1>4, FS_AddElement
  <2>4. Len(tracks') = Len(tracks) + 1
    BY <1>1, <1>7
  <2>5. Highs(dets') # {}
    BY <1>1, <2>1 DEF Highs
  <2>6. NewCounted'
    BY <1>1, <1>4, <1>5, <2>3, <2>4, <2>5 DEF NewCounted
  <2>7. QED BY <1>1, <1>2, <2>6 DEF MatchInv
<1>8. QED BY <1>6, <1>7 DEF Spawn

LEMMA MatchNext ==
  TrackerInv /\ MatchInv /\ [TrackerNext]_trackerVars => MatchInv'
<1> SUFFICES ASSUME TrackerInv, MatchInv, [TrackerNext]_trackerVars PROVE MatchInv'
  OBVIOUS
<1>1. ASSUME NEW ds \in Frames, Frame(ds) PROVE MatchInv'
  BY <1>1 DEF Frame, MatchInv
<1>2. CASE Predict \/ RemoveStart \/ Remove \/ Merge
  BY <1>2 DEF Predict, RemoveStart, Remove, Merge, MatchInv
<1>3. CASE Working
  BY <1>2, <1>3, CascadeMatch, RecoverMatch, SpawnStartMatch, SpawnMatch DEF Working
<1>4. CASE UNCHANGED trackerVars
  <2>1. /\ tracks' = tracks /\ step' = step /\ turn' = turn /\ dets' = dets
        /\ pairs' = pairs /\ ages' = ages
    BY <1>4 DEF trackerVars
  <2>2. Paired' = Paired
    BY <2>1 DEF Paired, PairsOnce, FreshBefore, FreshMatched, Free, Highs
  <2>3. NewCounted' = NewCounted
    BY <2>1 DEF NewCounted, Passed, Free, Highs
  <2>4. QED BY <2>1, <2>2, <2>3 DEF MatchInv
<1>5. QED BY <1>1, <1>3, <1>4 DEF TrackerNext

\* Tracks that took detections, and detections that nobody took, are not more than
\* there are detections.
LEMMA NewIsFree == TrackerInv /\ MatchInv => NewOnlyIfMore
<1> DEFINE new == Len(tracks) - Len(ages)
           K == {i \in DOMAIN ages : ages[i] < MaxAge}
<1> SUFFICES ASSUME TrackerInv, MatchInv, step = "spawn", new # 0
             PROVE  new + Cardinality(K) <= Len(dets)
  BY DEF NewOnlyIfMore
<1>1. /\ tracks \in Seq(Tracks) /\ dets \in Seq(Detections) /\ Paired /\ NewCounted
      /\ DOMAIN dets = 1..Len(dets) /\ Len(dets) \in Nat
      /\ ages \in Seq(Nat) /\ Len(ages) \in Nat /\ DOMAIN ages = 1..Len(ages)
      /\ pairs \in [1..Len(ages) -> 0..Len(dets)]
  BY DEF TrackerInv, MatchInv, Paired
<1>2. /\ Free \in SUBSET (1..Len(dets)) /\ IsFiniteSet(Free) /\ Cardinality(Free) \in Nat
  BY <1>1, FreeFinite
<1>3. Cardinality(Passed) \in Nat /\ Cardinality(Passed) <= Cardinality(Free)
  <2>1. Passed \in SUBSET Free
    BY DEF Passed
  <2>2. QED BY <1>2, <2>1, FS_Subset, FS_CardinalityType
<1>4. new \in 1..Cardinality(Free)
  <2>1. new \in 0..Cardinality(Passed)
    BY <1>1 DEF NewCounted
  <2> HIDE DEF new
  <2>2. QED BY <2>1, <1>2, <1>3
<1>5. Highs(dets) # {} /\ Free # {}
  <2>1. Len(tracks) # Len(ages)
    BY <1>1
  <2>2. Free # {}
    BY <1>2, <1>4, FS_EmptySet
  <2>3. QED BY <1>1, <2>1, <2>2 DEF NewCounted
<1>6. \A i \in K : i \in 1..Len(ages) /\ pairs[i] # 0
  BY <1>1, <1>5 DEF Paired, FreshMatched
<1> DEFINE T == (1..Len(dets)) \ Free
           f == [i \in K |-> pairs[i]]
<1>7. f \in Injection(K, T)
  <2>1. \A i \in K : pairs[i] \in T
    <3>1. ASSUME NEW i \in K PROVE pairs[i] \in T
      <4>1. i \in 1..Len(ages) /\ pairs[i] # 0 /\ pairs[i] \in 0..Len(dets)
        BY <1>1, <1>6
      <4>2. pairs[i] \in 1..Len(dets)
        BY <4>1, <1>1
      <4>3. pairs[i] \notin Free
        BY <4>1, <1>1 DEF Free
      <4>4. QED BY <4>2, <4>3
    <3>2. QED BY <3>1
  <2>2. \A i, k \in K : pairs[i] = pairs[k] => i = k
    <3>1. \A i, k \in 1..Len(ages) : pairs[i] = pairs[k] => i = k \/ pairs[i] = 0
      BY <1>1 DEF Paired, PairsOnce
    <3>2. QED BY <3>1, <1>6
  <2> HIDE DEF K, T
  <2>3. f \in [K -> T] /\ \A i, k \in K : f[i] = f[k] => i = k
    BY <2>1, <2>2
  <2>4. QED BY <2>3 DEF Injection, IsInjective
<1>8. /\ IsFiniteSet(T) /\ Cardinality(T) = Len(dets) - Cardinality(Free)
  <2>1. PICK n \in Nat : n = Len(dets)
    BY <1>1
  <2>2. IsFiniteSet(1..n) /\ Cardinality(1..n) = n
    <3>1. /\ IsFiniteSet(1..n) /\ Cardinality(1..n) = IF 1 > n THEN 0 ELSE n - 1 + 1
      BY FS_Interval
    <3>2. QED BY <3>1
  <2>3. PICK I : I = 1..n
    OBVIOUS
  <2>4. I \cap Free = Free
    BY <1>2, <2>1, <2>3
  <2>5. IsFiniteSet(I \ Free) /\ Cardinality(I \ Free) = Cardinality(I) - Cardinality(I \cap Free)
    BY <2>2, <2>3, FS_Difference
  <2>6. T = I \ Free
    BY <2>1, <2>3
  <2> HIDE DEF T
  <2>7. QED BY <2>1, <2>2, <2>3, <2>4, <2>5, <2>6
<1>9. Cardinality(K) \in Nat /\ Cardinality(K) <= Cardinality(T)
  <2> HIDE DEF K, T, f
  <2>1. IsFiniteSet(K) /\ Cardinality(K) <= Cardinality(T)
    BY <1>7, <1>8, FS_Injection
  <2>2. QED BY <2>1, FS_CardinalityType
<1> HIDE DEF K, T, f, new
<1>10. QED BY <1>1, <1>2, <1>4, <1>8, <1>9

\* A track long out of sight never has a detection that one seen more recently goes
\* without, however many there are of each age and whatever is left for the second
\* matching (cascade_matching and the recovery after it).
THEOREM FreshTracksFirst == TrackerSpec => []FreshFirst
<1>1. TrackerInit => TrackerInv /\ MatchInv
  BY TrackerInitInv DEF TrackerInit, MatchInv
<1>2. TrackerInv /\ MatchInv /\ [TrackerNext]_trackerVars => (TrackerInv /\ MatchInv)'
  BY TrackerNextInv, MatchNext
<1>3. MatchInv => FreshFirst
  BY DEF MatchInv, Paired, FreshBefore, FreshFirst
<1>4. QED BY <1>1, <1>2, <1>3, PTL DEF TrackerSpec

\* A frame creates no more tracks than it has detections over the tracks that were
\* recent enough to take them, for any predictions and any limits
\* (object_tracker_update).
THEOREM NewTracksAreExtra == TrackerSpec => []NewOnlyIfMore
<1>1. TrackerInit => TrackerInv /\ MatchInv
  BY TrackerInitInv DEF TrackerInit, MatchInv
<1>2. TrackerInv /\ MatchInv /\ [TrackerNext]_trackerVars => (TrackerInv /\ MatchInv)'
  BY TrackerNextInv, MatchNext
<1>3. TrackerInv /\ MatchInv => NewOnlyIfMore
  BY NewIsFree
<1>4. QED BY <1>1, <1>2, <1>3, PTL DEF TrackerSpec

-----------------------------------------------------------------------------
(***************************************************************************)
(* Types: the list of tracks fits the array it is kept in, which only      *)
(* create_track tests, and every match names a detection of the frame.     *)
(***************************************************************************)
TrackerFits ==
  /\ Len(tracks) <= MaxTracks
  /\ step \in {"idle", "predict", "recover", "spawn", "remove"}
  /\ pairs \in Seq(0..Len(dets)) /\ ages \in Seq(Nat)
  /\ step \in {"idle", "predict"} => pairs = <<>>

\* Only a new track makes the list longer, and only while there is room.
LEMMA ListGrowth ==
  ASSUME TrackerInv, Working
  PROVE  \/ Len(tracks') \in {Len(tracks), Len(tracks) - 1}
         \/ Len(tracks) < MaxTracks /\ Len(tracks') = Len(tracks) + 1
<1>1. /\ tracks \in Seq(Tracks) /\ Len(tracks) \in Nat
      /\ nextId \in Nat /\ Rising(tracks, nextId)
  BY DEF TrackerInv
<1>2. CASE tracks' = tracks
  BY <1>2
<1>3. CASE Predict
  <2>1. turn \in 1..Len(tracks)
    BY <1>3 DEF Predict, TrackerInv, Places
  <2>2. CASE tracks' = Without(tracks, turn)
    BY <1>1, <2>1, <2>2, WithoutOne
  <2>3. QED BY <1>2, <1>3, <2>2 DEF Predict
\* The two matchings leave each track at its place, beside its prediction.
<1>4. CASE Cascade \/ Recover
  <2>0. TrackerInv'
    BY <1>4, CascadeInv, RecoverInv
  <2>1. step' = "recover" /\ where' = where
    BY <1>4 DEF Cascade, Recover
  <2>2. Len(where) = Len(tracks)
    <3>1. CASE Cascade
      BY <1>1, <3>1 DEF Cascade, TrackerInv, Places
    <3>2. CASE Recover
      BY <3>2 DEF Recover, TrackerInv, Places
    <3>3. QED BY <1>4, <3>1, <3>2
  <2>3. Len(tracks') = Len(where')
    BY <2>0, <2>1 DEF TrackerInv, Places
  <2>4. QED BY <2>1, <2>2, <2>3
<1>5. CASE Spawn
  <2>1. CASE Wanted(turn)
    <3>1. tracks' = Append(tracks, NewTrack(turn)) /\ Len(tracks) < MaxTracks
      BY <1>5, <2>1 DEF Spawn, Wanted
    <3>2. QED BY <1>1, <3>1
  <2>2. QED BY <1>2, <1>5, <2>1 DEF Spawn
<1>6. CASE Remove
  <2>1. turn \in 1..Len(tracks)
    BY <1>1, <1>6 DEF Remove, TrackerInv, Places
  <2>2. CASE tracks' = Without(tracks, turn)
    BY <1>1, <2>1, <2>2, WithoutOne
  <2>3. QED BY <1>2, <1>6, <2>2 DEF Remove
<1>7. CASE Merge
  <2>1. ASSUME NEW i \in DOMAIN tracks, NEW k \in DOMAIN tracks, tracks' = Merged(i, k)
        PROVE  Len(tracks') = Len(tracks) - 1
    BY <2>1, MergedOne
  <2>2. QED BY <1>2, <1>7, <2>1 DEF Merge
<1>8. CASE SpawnStart \/ RemoveStart
  BY <1>2, <1>8 DEF SpawnStart, RemoveStart
<1>9. QED BY <1>3, <1>4, <1>5, <1>6, <1>7, <1>8 DEF Working

LEMMA ChangedSeq ==
  ASSUME NEW S, NEW s \in Seq(S), NEW i, NEW x \in S
  PROVE  [s EXCEPT ![i] = x] \in Seq(S)
<1>1. PICK n \in Nat : n = Len(s) /\ DOMAIN s = 1..n
  OBVIOUS
<1>2. PICK r : r = [s EXCEPT ![i] = x]
  OBVIOUS
<1>3. r = [k \in 1..n |-> IF k = i THEN x ELSE s[k]]
  BY <1>1, <1>2, Zenon
<1>4. \A k \in 1..n : s[k] \in S
  BY <1>1
<1>5. r \in [1..n -> S]
  BY <1>3, <1>4
<1>6. QED BY <1>2, <1>5

LEMMA MatchesFit ==
  ASSUME TrackerInv, TrackerFits, Working
  PROVE  /\ step' \in {"idle", "predict", "recover", "spawn", "remove"}
         /\ pairs' \in Seq(0..Len(dets')) /\ ages' \in Seq(Nat)
         /\ step' \in {"idle", "predict"} => pairs' = <<>>
<1>1. CASE Cascade
  <2>1. Paired' /\ step' = "recover"
    BY <1>1, CascadePaired DEF Cascade
  <2>2. Len(ages') \in Nat /\ ages' \in Seq(Nat) /\ pairs' \in [1..Len(ages') -> 0..Len(dets')]
    BY <2>1 DEF Paired
  <2>3. pairs' \in Seq(0..Len(dets'))
    BY <2>2
  <2>4. QED BY <2>1, <2>2, <2>3
<1>2. CASE Recover
  <2>1. dets' = dets /\ ages' = ages /\ step' = step /\ step = "recover"
    BY <1>2 DEF Recover
  <2>2. pairs' = pairs \/ \E d \in Free : pairs' = [pairs EXCEPT ![turn] = d]
    BY <1>2 DEF Recover
  <2>3. ASSUME NEW d \in Free PROVE [pairs EXCEPT ![turn] = d] \in Seq(0..Len(dets))
    <3>1. d \in DOMAIN dets /\ dets \in Seq(Detections)
      BY DEF Free, TrackerInv
    <3>2. d \in 0..Len(dets)
      BY <3>1
    <3>3. pairs \in Seq(0..Len(dets))
      BY DEF TrackerFits
    <3>4. QED BY <3>2, <3>3, ChangedSeq
  <2>4. QED BY <2>1, <2>2, <2>3 DEF TrackerFits
<1>3. CASE Merge
  BY <1>3 DEF Merge
<1>4. CASE Predict \/ SpawnStart \/ Spawn \/ RemoveStart \/ Remove
  BY <1>4 DEF Predict, SpawnStart, Spawn, RemoveStart, Remove, TrackerFits
<1>5. QED BY <1>1, <1>2, <1>3, <1>4 DEF Working

LEMMA FitsNext == TrackerInv /\ TrackerFits /\ [TrackerNext]_trackerVars => TrackerFits'
<1> SUFFICES ASSUME TrackerInv, TrackerFits, [TrackerNext]_trackerVars PROVE TrackerFits'
  OBVIOUS
<1>1. ASSUME NEW ds \in Frames, Frame(ds) PROVE TrackerFits'
  <2>1. /\ step = "idle" /\ step' = "predict" /\ tracks' = tracks
        /\ pairs' = pairs /\ ages' = ages
    BY <1>1 DEF Frame
  <2>2. pairs' = <<>>
    BY <2>1 DEF TrackerFits
  <2>3. QED BY <2>1, <2>2 DEF TrackerFits
<1>2. CASE Working
  <2>1. Len(tracks') <= MaxTracks
    <3>1. Len(tracks) \in Nat /\ Len(tracks) <= MaxTracks /\ MaxTracks \in Nat
      BY TrackerAssumption DEF TrackerInv, TrackerFits
    <3>2. QED BY <1>2, <3>1, ListGrowth
  <2>2. QED BY <1>2, <2>1, MatchesFit DEF TrackerFits
<1>3. CASE UNCHANGED trackerVars
  BY <1>3 DEF trackerVars, TrackerFits
<1>4. QED BY <1>1, <1>2, <1>3 DEF TrackerNext

\* The list never outgrows its array and every match is with a detection of the frame,
\* for any limits, predictions and numbers of tracks and detections.
THEOREM TracksFit == TrackerSpec => []TrackerTypeOK
<1>1. TrackerInit => TrackerInv /\ TrackerFits
  BY TrackerInitInv, TrackerAssumption DEF TrackerInit, TrackerFits
<1>2. TrackerInv /\ TrackerFits /\ [TrackerNext]_trackerVars => (TrackerInv /\ TrackerFits)'
  BY TrackerNextInv, FitsNext
<1>3. TrackerInv /\ TrackerFits => TrackerTypeOK
  BY DEF TrackerInv, TrackerFits, TrackerTypeOK, Places
<1>4. QED BY <1>1, <1>2, <1>3, PTL DEF TrackerSpec

=============================================================================
