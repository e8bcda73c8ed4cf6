----------------------------- MODULE Hungarian ------------------------------
(***************************************************************************)
(* hungarian_solve (src/src/tracking_manager.c): tracks (rows) are matched *)
(* with detections (columns) at least cost, by adding one row at a time to *)
(* a matching along a cheapest path of columns.                            *)
(*                                                                         *)
(* One action per turn of the inner loops, for the question whether they   *)
(* end.  Row and column 0 are the code's: row 0 means no row, and column 0 *)
(* holds the row being added.  Numbers are floats of Bits significant bits *)
(* (24 in the code), counted in units of the smallest one that occurs.     *)
(***************************************************************************)
EXTENDS Integers, FiniteSets, FiniteSetsExt

CONSTANTS Rows,     \* tracks of one age
          Cols,     \* detections not yet matched
          Costs,    \* costs of a pair
          Pad,      \* 1e9: the cost of a row or column that is not there
          Bits      \* significant bits of a float

ASSUME HungarianAssumption ==
  /\ {Rows, Cols, Pad, Bits} \subseteq Nat \ {0}
  /\ Costs \subseteq Nat

VARIABLES cost,     \* cost_matrix
          adding,   \* i: the row being added
          at,       \* j0: the column the search or the path has reached
          u, v,     \* potentials of rows and columns
          p,        \* the row matched with a column
          way,      \* the column before this one on the path to it
          minv,     \* what the cheapest way to a column adds
          used,     \* columns the search has been at
          phase     \* the loop that is running: "search", "augment" or "done"

hungarianVars == <<cost, adding, at, u, v, p, way, minv, used, phase>>

N == IF Rows > Cols THEN Rows ELSE Cols

\* The distance of floats around x.
Ulp == [x \in Int |->
  2 ^ (CHOOSE e \in 0..(30 - Bits) :
         /\ x < 2 ^ (Bits + e) /\ -x < 2 ^ (Bits + e)
         /\ e = 0 \/ x >= 2 ^ (Bits + e - 1) \/ -x >= 2 ^ (Bits + e - 1))]

\* What a float holds of x: the nearest one, of two the even one.
Float == [x \in Int |->
  LET q == x \div Ulp[x]
      r == 2 * (x % Ulp[x])
  IN Ulp[x] * (IF r < Ulp[x] + (1 - (q % 2)) THEN q ELSE q + 1)]

\* Entry of the padded matrix.
Padded(i, j) == IF i <= Rows /\ j <= Cols THEN cost[i][j] ELSE Pad

HungarianInit ==
  /\ cost \in [1..Rows -> [1..Cols -> Costs]]
  /\ u = [i \in 0..N |-> 0] /\ v = [j \in 0..N |-> 0]
  /\ p = [j \in 0..N |-> IF j = 0 THEN 1 ELSE 0]
  /\ way = [j \in 0..N |-> 0]
  /\ minv = [j \in 1..N |-> Pad]
  /\ used = {}
  /\ adding = 1 /\ at = 0 /\ phase = "search"

\* Reduced cost of the row at this column with column j.
Reduced(j) == Float[Float[Padded(p[at], j) - u[p[at]]] - v[j]]

\* Bug: the potentials are left out of the comparison.
MutAbsolute(j) == minv[j] > Padded(p[at], j)

\* The way over this column is the cheapest to column j so far.
Shorter(j) == Reduced(j) < minv[j]

Open == (1..N) \ (used \cup {at})

\* What is left to each column after this turn's comparison.
Near == [j \in Open |-> IF Shorter(j) THEN Reduced(j) ELSE minv[j]]

\* Of the columns left, j adds least, and is the first that does.
Nearest(near, j) ==
  \A k \in Open : near[j] < near[k] \/ (near[j] = near[k] /\ j <= k)

\* The end of a turn: delta is added to what has been reached.
Advance(near, delta, next) ==
  /\ at' = next
  /\ u' = [i \in 0..N |-> IF \E j \in used' : p[j] = i THEN Float[u[i] + delta]
                                                       ELSE u[i]]
  /\ v' = [j \in 0..N |-> IF j \in used' THEN Float[v[j] - delta] ELSE v[j]]
  /\ minv' = [j \in 1..N |-> IF j \in Open THEN Float[near[j] - delta] ELSE minv[j]]
  /\ phase' = IF p[next] = 0 THEN "augment" ELSE "search"

\* One turn of the search: the ways over this column, then on to the column
\* that adds least, or to column 0 when none adds less than Pad.
Search ==
  /\ phase = "search"
  /\ used' = used \cup {at}
  /\ way' = [j \in 0..N |-> IF j \in Open /\ Shorter(j) THEN at ELSE way[j]]
  /\ \E near \in {Near} :
       \/ \E j \in Open :
            near[j] < Pad /\ Nearest(near, j) /\ Advance(near, near[j], j)
       \/ (\A j \in Open : near[j] >= Pad) /\ Advance(near, Pad, 0)
  /\ UNCHANGED <<cost, adding, p>>

\* Bug: each column on the path takes the new row.
MutShifted == [p EXCEPT ![at] = p[0]]

\* Back along the path: each column takes the row of the one before it.
Shifted == [p EXCEPT ![at] = p[way[at]]]

\* One turn of the path; at its start the next row is added, if there is one.
Augment ==
  /\ phase = "augment"
  /\ at' = way[at]
  /\ IF at' # 0
       THEN p' = Shifted /\ UNCHANGED <<adding, minv, used, phase>>
       ELSE IF adding = N
       THEN p' = Shifted /\ phase' = "done" /\ UNCHANGED <<adding, minv, used>>
       ELSE /\ p' = [Shifted EXCEPT ![0] = adding + 1]
            /\ adding' = adding + 1
            /\ minv' = [j \in 1..N |-> Pad] /\ used' = {}
            /\ phase' = "search"
  /\ UNCHANGED <<cost, u, v, way>>

HungarianNext == Search \/ Augment

\* The loops run on: nothing in the function waits.
HungarianSpec ==
  HungarianInit /\ [][HungarianNext]_hungarianVars /\ WF_hungarianVars(HungarianNext)

\* The column the caller gets for each row, 0 for none: assignment.
Assignment ==
  [i \in 1..Rows |-> IF \E j \in 1..Cols : p[j] = i
                       THEN CHOOSE j \in 1..Cols : p[j] = i ELSE 0]

\* The cost of an assignment, added up row by row.
FinalCost(a) ==
  LET sum[i \in 0..Rows] ==
        IF i = 0 THEN 0
        ELSE sum[i - 1] + (IF a[i] = 0 THEN 0 ELSE cost[i][a[i]])
  IN sum[Rows]

-----------------------------------------------------------------------------
HungarianTypeOK ==
  /\ cost \in [1..Rows -> [1..Cols -> Costs]]
  /\ adding \in 1..N /\ at \in 0..N
  /\ {u, v} \subseteq [0..N -> Int] /\ minv \in [1..N -> Int]
  /\ p \in [0..N -> 0..N] /\ way \in [0..N -> 0..N]
  /\ used \subseteq 0..N
  /\ phase \in {"search", "augment", "done"}

\* A row once added is never lost again and no two columns get one row, even
\* though every added row moves earlier ones: the rows are matched one to one.
Settled == IF phase = "done" THEN N ELSE adding - 1

Matching ==
  phase # "augment" =>
    /\ \A i \in 1..Settled : \E j \in 1..N : p[j] = i
    /\ \A j, k \in 1..N : p[j] = p[k] => j = k \/ p[j] = 0

\* The heading of the function: the assignment has the least cost of all, which a
\* greedy one has not.  No other that matches as many rows with columns costs less.
Optimal ==
  phase = "done" =>
    \A f \in [1..Rows -> 0..Cols] :
      /\ \A i, k \in 1..Rows : f[i] = f[k] => i = k \/ f[i] = 0
      /\ Cardinality({i \in 1..Rows : f[i] # 0}) = Min({Rows, Cols})
      => FinalCost(Assignment) <= FinalCost(f)

\* The function returns: the searches and the walks back along the paths end.
Returns == <>(phase = "done")

=============================================================================
