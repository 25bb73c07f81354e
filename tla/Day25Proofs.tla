----------------------------- MODULE Day25Proofs -----------------------------
(***************************************************************************)
(* For maps of every size: day25's two loops move a herd as one.           *)
(***************************************************************************)
EXTENDS Day25, FiniteSetTheorems, TLAPS

-----------------------------------------------------------------------------
(* The place ahead.                                                          *)

LEMMA NextOnRing ==
    ASSUME NEW w \in Nat \ {0}, NEW x \in 0 .. w - 1
    PROVE  (x + 1) % w = IF x = w - 1 THEN 0 ELSE x + 1
<1>1. CASE x = w - 1
  BY <1>1
<1>2. CASE x # w - 1
  BY <1>2
<1> QED
  BY <1>1, <1>2

LEMMA PlaceIsPair ==
    ASSUME NEW p \in Place
    PROVE  p[1] \in 0 .. Width - 1 /\ p[2] \in 0 .. Height - 1 /\ p = <<p[1], p[2]>>
  BY DEF Place

LEMMA ToIsPlace ==
    ASSUME NEW c \in Herd, NEW p \in Place
    PROVE  To(c, p) \in Place
<1>1. Width \in Nat \ {0} /\ Height \in Nat \ {0}
  BY SizeAssumption
<1>2. (p[1] + 1) % Width \in 0 .. Width - 1 /\ (p[2] + 1) % Height \in 0 .. Height - 1
  BY <1>1, NextOnRing, PlaceIsPair
<1> QED
  BY <1>2, PlaceIsPair DEF To, Place

LEMMA ToIsInjective ==
    ASSUME NEW c \in Herd, NEW p \in Place, NEW q \in Place, To(c, p) = To(c, q)
    PROVE  p = q
<1>1. Width \in Nat \ {0} /\ Height \in Nat \ {0}
  BY SizeAssumption
<1>2. /\ p[1] \in 0 .. Width - 1 /\ p[2] \in 0 .. Height - 1 /\ p = <<p[1], p[2]>>
      /\ q[1] \in 0 .. Width - 1 /\ q[2] \in 0 .. Height - 1 /\ q = <<q[1], q[2]>>
  BY PlaceIsPair
<1>3. CASE c = ">"
  <2>1. (p[1] + 1) % Width = (q[1] + 1) % Width /\ p[2] = q[2]
    BY <1>3 DEF To
  <2>2. p[1] = q[1]
    BY <1>1, <1>2, <2>1, NextOnRing
  <2> QED
    BY <1>2, <2>1, <2>2
<1>4. CASE c # ">"
  <2>1. (p[2] + 1) % Height = (q[2] + 1) % Height /\ p[1] = q[1]
    <3>1. To(c, p)[1] = p[1] /\ To(c, p)[2] = (p[2] + 1) % Height
      BY <1>4 DEF To
    <3>2. To(c, q)[1] = q[1] /\ To(c, q)[2] = (q[2] + 1) % Height
      BY <1>4 DEF To
    <3> QED
      BY <3>1, <3>2
  <2>2. p[2] = q[2]
    <3>1. (p[2] + 1) % Height = IF p[2] = Height - 1 THEN 0 ELSE p[2] + 1
      BY <1>1, <1>2, NextOnRing
    <3>2. (q[2] + 1) % Height = IF q[2] = Height - 1 THEN 0 ELSE q[2] + 1
      BY <1>1, <1>2, NextOnRing
    <3> QED
      BY <1>1, <1>2, <2>1, <3>1, <3>2
  <2> QED
    BY <1>2, <2>1, <2>2
<1> QED
  BY <1>3, <1>4

LEMMA OtherHerd ==
    ASSUME NEW c \in Herd
    PROVE  Other(c) \in Herd /\ Other(c) # c /\ \A d \in Herd : d = c \/ d = Other(c)
  BY DEF Herd, Other

-----------------------------------------------------------------------------
(* The inductive invariant.                                                  *)

Occupied(h, p) == \E c \in Herd : \E e \in DOMAIN h[c] : h[c][e] = p

\* At the call no two cucumbers were at one place.
WereApart ==
    \A c, d \in Herd : \A e \in DOMAIN was[c], f \in DOMAIN was[d] :
        was[c][e] = was[d][f] => c = d /\ e = f

\* The moves collected are those that were possible at the call, and all of
\* them once the first loop is through.
Decided == \A e \in DOMAIN to_move :
    /\ to_move[e] = To(turn, was[turn][e])
    /\ ~Occupied(was, to_move[e])

Complete == \A e \in DOMAIN was[turn] :
    \/ phase = "scan" /\ e \in todo
    \/ e \in DOMAIN to_move
    \/ Occupied(was, To(turn, was[turn][e]))

\* Exactly the moves the second loop has come to have been made.
MadeSoFar ==
    /\ phase # "move" => herd = was
    /\ \A c \in Herd : c # turn => herd[c] = was[c]
    /\ \A e \in DOMAIN was[turn] :
          herd[turn][e] = IF phase = "move" /\ e \in DOMAIN to_move \ todo
                          THEN to_move[e] ELSE was[turn][e]

\* What the first herd's call leaves for the second's.
FirstDone ==
    /\ turn = first => moves = 0
    /\ turn # first /\ moves = 0 =>
          \A e \in DOMAIN was[first] : Occupied(was, To(first, was[first][e]))

AtEnd ==
    phase = "done" =>
        \A c \in Herd : \A e \in DOMAIN was[c] : Occupied(was, To(c, was[c][e]))

NoResultYet == phase # "done" => p1 = 0

Inv ==
    /\ NoResultYet
    /\ TypeOK /\ MapAgrees
    /\ WereApart /\ Decided /\ Complete /\ MadeSoFar /\ FirstDone /\ AtEnd

-----------------------------------------------------------------------------
LEMMA FreeIsUnoccupied ==
    ASSUME TypeOK, MapAgrees, NEW p \in Place
    PROVE  buf[p] = "." <=> ~Occupied(herd, p)
<1>1. buf[p] \in Herd \cup {"."} /\ "." \notin Herd
  BY DEF TypeOK, Cell, Herd
<1>2. \A c \in Herd : buf[p] = c <=> \E e \in DOMAIN herd[c] : herd[c][e] = p
  BY DEF MapAgrees
<1> QED
  BY <1>1, <1>2 DEF Occupied

\* A move that is still to be made leads to a free place.
LEMMA PendingIsFree ==
    ASSUME Inv, NEW e \in DOMAIN to_move, phase = "scan" \/ e \in todo
    PROVE  to_move[e] \in Place /\ buf[to_move[e]] = "."
<1>1. /\ turn \in Herd /\ e \in DOMAIN was[turn] /\ DOMAIN to_move \subseteq DOMAIN was[turn]
      /\ \A c \in Herd : DOMAIN was[c] = DOMAIN herd[c]
      /\ \A f \in DOMAIN was[turn] : was[turn][f] \in Place
  BY DEF Inv, TypeOK
<1>2. to_move[e] \in Place
  BY DEF Inv, TypeOK
<1>3. ~Occupied(herd, to_move[e])
  <2> SUFFICES ASSUME NEW c \in Herd, NEW f \in DOMAIN herd[c], herd[c][f] = to_move[e]
               PROVE  FALSE
    BY DEF Occupied
  <2>1. ~Occupied(was, to_move[e]) /\ to_move[e] = To(turn, was[turn][e])
    BY DEF Inv, Decided
  <2>2. was[c][f] # to_move[e]
    BY <1>1, <2>1 DEF Occupied
  <2>3. /\ c = turn /\ phase = "move"
        /\ f \in DOMAIN to_move \ todo /\ herd[turn][f] = to_move[f]
    <3>1. c = turn
      BY <2>2 DEF Inv, MadeSoFar
    <3>2. herd[turn][f] = IF phase = "move" /\ f \in DOMAIN to_move \ todo
                          THEN to_move[f] ELSE was[turn][f]
      BY <1>1, <3>1 DEF Inv, MadeSoFar
    <3> QED
      BY <2>2, <3>1, <3>2
  <2>4. to_move[f] = To(turn, was[turn][f])
    BY <2>3 DEF Inv, Decided
  <2>5. was[turn][f] = was[turn][e]
    BY <1>1, <2>1, <2>3, <2>4, ToIsInjective
  <2>6. f = e
    BY <1>1, <2>3, <2>5 DEF Inv, WereApart
  <2> QED
    BY <2>3, <2>6
<1> QED
  BY <1>2, <1>3, FreeIsUnoccupied DEF Inv

LEMMA InitInv == Init => Inv
<1> SUFFICES ASSUME Init PROVE Inv
  OBVIOUS
<1>1. /\ buf \in [Place -> Cell] /\ was = herd /\ first \in Herd /\ turn = first
      /\ phase = "scan" /\ todo = DOMAIN herd[turn] /\ DOMAIN to_move = {}
      /\ moves = 0 /\ steps = 1 /\ p1 = 0 /\ to_move = NoMoves
  BY DEF Init, NoMoves
<1>2. /\ DOMAIN herd = Herd
      /\ \A c \in Herd : DOMAIN herd[c] = {q \in Place : buf[q] = c}
      /\ \A c \in Herd : \A e \in DOMAIN herd[c] : herd[c][e] = e
      /\ \A c \in Herd : herd[c] \in [DOMAIN herd[c] -> Place]
  BY DEF Init, find_herd
<1>3. TypeOK
  <2>1. steps \in 1 .. MaxSteps /\ p1 \in 0 .. MaxSteps /\ moves \in Nat
    BY <1>1, SizeAssumption
  <2>2. to_move \in [DOMAIN to_move -> Place] /\ DOMAIN to_move \subseteq DOMAIN herd[turn]
    BY <1>1 DEF NoMoves
  <2>3. \A c \in Herd : DOMAIN herd[c] \subseteq Place
    BY <1>2
  <2> QED
    BY <1>1, <1>2, <2>1, <2>2, <2>3, Zenon DEF TypeOK
<1>4. MapAgrees
  BY <1>2 DEF MapAgrees
<1>5. WereApart
  <2> SUFFICES ASSUME NEW c \in Herd, NEW d \in Herd,
                      NEW e \in DOMAIN was[c], NEW f \in DOMAIN was[d], was[c][e] = was[d][f]
               PROVE  c = d /\ e = f
    BY DEF WereApart
  <2>1. e = f /\ buf[e] = c /\ buf[f] = d
    BY <1>1, <1>2
  <2> QED
    BY <2>1
<1>6. Decided /\ Complete /\ MadeSoFar /\ FirstDone /\ AtEnd
  BY <1>1 DEF Decided, Complete, MadeSoFar, FirstDone, AtEnd
<1> QED
  BY <1>1, <1>3, <1>4, <1>5, <1>6 DEF Inv, NoResultYet

LEMMA ScanInv == ASSUME Inv, scan PROVE Inv'
<1>1. /\ phase = "scan" /\ phase' = "scan"
      /\ UNCHANGED <<buf, herd, first, turn, moves, steps, p1, was>>
  BY DEF scan
<1>2. PICK e \in todo : Look(e) /\ todo' = todo \ {e}
  BY DEF scan, First
<1>3. /\ turn \in Herd /\ e \in DOMAIN herd[turn] /\ e \in DOMAIN was[turn] /\ herd = was
      /\ was[turn][e] \in Place /\ DOMAIN to_move \subseteq DOMAIN herd[turn]
      /\ todo \subseteq DOMAIN herd[turn] /\ to_move \in [DOMAIN to_move -> Place]
  BY <1>1 DEF Inv, TypeOK, MadeSoFar
<1>4. Target(e) = To(turn, was[turn][e]) /\ Target(e) \in Place
  BY <1>3, ToIsPlace DEF Target
<1>5. buf[Target(e)] = "." <=> ~Occupied(was, Target(e))
  BY <1>3, <1>4, FreeIsUnoccupied DEF Inv
<1>6. CASE buf[Target(e)] = "."
  <2>1. to_move' = [f \in DOMAIN to_move \cup {e} |-> IF f = e THEN Target(e) ELSE to_move[f]]
    BY <1>2, <1>6 DEF Look
  <2>2. /\ DOMAIN to_move' = DOMAIN to_move \cup {e} /\ to_move'[e] = Target(e)
        /\ \A f \in DOMAIN to_move : f # e => to_move'[f] = to_move[f]
        /\ to_move' \in [DOMAIN to_move' -> Place]
    BY <1>3, <1>4, <2>1
  <2>3. TypeOK'
    BY <1>1, <1>2, <1>3, <2>2 DEF Inv, TypeOK
  <2>4. Decided'
    BY <1>1, <1>4, <1>5, <1>6, <2>2 DEF Inv, Decided, Occupied
  <2>5. Complete'
    BY <1>1, <1>2, <2>2 DEF Inv, Complete, Occupied
  <2>6. (MapAgrees /\ WereApart /\ MadeSoFar /\ FirstDone /\ AtEnd)'
    BY <1>1 DEF Inv, MapAgrees, WereApart, MadeSoFar, FirstDone, AtEnd, Occupied
  <2> QED
    BY <1>1, <2>3, <2>4, <2>5, <2>6 DEF Inv, NoResultYet
<1>7. CASE buf[Target(e)] # "."
  <2>1. to_move' = to_move
    BY <1>2, <1>7 DEF Look
  <2>2. TypeOK'
    BY <1>1, <1>2, <1>3, <2>1 DEF Inv, TypeOK
  <2>3. Decided'
    BY <1>1, <2>1 DEF Inv, Decided, Occupied
  <2>4. Complete'
    BY <1>1, <1>2, <1>4, <1>5, <1>7, <2>1 DEF Inv, Complete, Occupied
  <2>5. (MapAgrees /\ WereApart /\ MadeSoFar /\ FirstDone /\ AtEnd)'
    BY <1>1 DEF Inv, MapAgrees, WereApart, MadeSoFar, FirstDone, AtEnd, Occupied
  <2> QED
    BY <1>1, <2>2, <2>3, <2>4, <2>5 DEF Inv, NoResultYet
<1> QED
  BY <1>6, <1>7

LEMMA ScanEndsInv == ASSUME Inv, scan_ends PROVE Inv'
<1>1. /\ phase = "scan" /\ todo = {} /\ phase' = "move" /\ todo' = DOMAIN to_move
      /\ UNCHANGED <<buf, herd, first, turn, to_move, moves, steps, p1, was>>
  BY DEF scan_ends
<1>2. TypeOK'
  BY <1>1 DEF Inv, TypeOK
<1>3. (MapAgrees /\ WereApart /\ Decided /\ FirstDone /\ AtEnd)'
  BY <1>1 DEF Inv, MapAgrees, WereApart, Decided, FirstDone, AtEnd, Occupied
<1>4. Complete'
  BY <1>1 DEF Inv, Complete, Occupied
<1>5. MadeSoFar'
  BY <1>1 DEF Inv, MadeSoFar
<1> QED
  BY <1>1, <1>2, <1>3, <1>4, <1>5 DEF Inv, NoResultYet

\* Moving one cucumber to a free place keeps the map and the arrays in step.
LEMMA CarryOutAgrees ==
    ASSUME TypeOK, MapAgrees, NEW e \in DOMAIN herd[turn], CarryOut(e),
           to_move[e] \in Place, buf[to_move[e]] = ".", turn' = turn
    PROVE  MapAgrees'
<1> DEFINE from == herd[turn][e]
           to == to_move[e]
<1>1. /\ turn \in Herd /\ from \in Place /\ to \in Place
      /\ buf' = [buf EXCEPT ![from] = ".", ![to] = turn]
      /\ buf \in [Place -> Cell] /\ DOMAIN herd = Herd
      /\ herd' = [herd EXCEPT ![turn] = [herd[turn] EXCEPT ![e] = to]]
  BY DEF TypeOK, CarryOut
<1>2. /\ \A c \in Herd : c # turn => herd'[c] = herd[c]
      /\ herd'[turn] = [herd[turn] EXCEPT ![e] = to]
      /\ DOMAIN herd'[turn] = DOMAIN herd[turn]
      /\ herd'[turn][e] = to
      /\ \A f \in DOMAIN herd[turn] : f # e => herd'[turn][f] = herd[turn][f]
  BY <1>1
<1>3. buf[from] = turn /\ buf[to] = "." /\ turn # "." /\ from # to
  BY <1>1 DEF MapAgrees, Herd
<1>4. /\ buf'[to] = turn /\ buf'[from] = "."
      /\ \A p \in Place : p # to /\ p # from => buf'[p] = buf[p]
  BY <1>1, <1>3
<1>5. \A c \in Herd : \A f \in DOMAIN herd[c] : herd[c][f] # to
  BY <1>1, <1>3 DEF MapAgrees, Herd
<1> HIDE DEF from, to
<1>6. ASSUME NEW c \in Herd, NEW f \in DOMAIN herd'[c], NEW g \in DOMAIN herd'[c],
             herd'[c][f] = herd'[c][g]
      PROVE  f = g
  <2>1. CASE c # turn
    BY <1>2, <1>6, <2>1 DEF MapAgrees
  <2>2. CASE c = turn
    <3>1. CASE f = e \/ g = e
      BY <1>1, <1>2, <1>5, <1>6, <2>2, <3>1
    <3>2. CASE f # e /\ g # e
      BY <1>1, <1>2, <1>6, <2>2, <3>2 DEF MapAgrees
    <3> QED
      BY <3>1, <3>2
  <2> QED
    BY <2>1, <2>2
<1>7. ASSUME NEW c \in Herd, NEW p \in Place
      PROVE  buf'[p] = c <=> \E f \in DOMAIN herd'[c] : herd'[c][f] = p
  <2>1. CASE p = to
    <3>1. CASE c = turn
      BY <1>2, <1>4, <2>1, <3>1
    <3>2. CASE c # turn
      BY <1>2, <1>4, <1>5, <2>1, <3>2
    <3> QED
      BY <3>1, <3>2
  <2>2. CASE p = from
    <3>1. buf'[p] # c
      BY <1>4, <2>2 DEF Herd
    <3>2. ASSUME NEW f \in DOMAIN herd'[c], herd'[c][f] = p
          PROVE  FALSE
      <4>1. CASE c = turn
        <5>1. f # e /\ herd[turn][f] = from
          BY <1>2, <1>3, <2>2, <3>2, <4>1
        <5> QED
          BY <1>1, <1>2, <4>1, <5>1 DEF MapAgrees, from
      <4>2. CASE c # turn
        <5>1. herd[c][f] = from /\ f \in DOMAIN herd[c]
          BY <1>2, <2>2, <3>2, <4>2
        <5>2. buf[from] = c
          BY <1>1, <5>1 DEF MapAgrees
        <5> QED
          BY <1>3, <4>2, <5>2
      <4> QED
        BY <4>1, <4>2
    <3> QED
      BY <3>1, <3>2
  <2>3. CASE p # to /\ p # from
    <3>1. buf'[p] = buf[p] /\ (buf[p] = c <=> \E f \in DOMAIN herd[c] : herd[c][f] = p)
      BY <1>4, <2>3 DEF MapAgrees
    <3>2. CASE c # turn
      BY <1>2, <3>1, <3>2
    <3>3. CASE c = turn
      <4>1. herd[turn][e] # p
        BY <2>3 DEF from
      <4>2. \A f \in DOMAIN herd[turn] : herd'[turn][f] = p <=> herd[turn][f] = p
        BY <1>2, <2>3, <4>1
      <4> QED
        BY <1>2, <3>1, <3>3, <4>2
    <3> QED
      BY <3>2, <3>3
  <2> QED
    BY <2>1, <2>2, <2>3
<1> QED
  BY <1>6, <1>7 DEF MapAgrees

LEMMA MoveInv == ASSUME Inv, move PROVE Inv'
<1>1. /\ phase = "move" /\ phase' = "move"
      /\ UNCHANGED <<first, turn, to_move, moves, steps, p1, was>>
  BY DEF move
<1>2. PICK e \in todo : CarryOut(e) /\ todo' = todo \ {e}
  BY DEF move, First
<1>3. /\ turn \in Herd /\ e \in DOMAIN to_move /\ e \in DOMAIN herd[turn]
      /\ DOMAIN herd = Herd /\ todo \subseteq DOMAIN to_move
      /\ DOMAIN was[turn] = DOMAIN herd[turn] /\ herd[turn] \in [DOMAIN herd[turn] -> Place]
      /\ buf \in [Place -> Cell] /\ herd[turn][e] \in Place
  BY <1>1 DEF Inv, TypeOK
<1>4. to_move[e] \in Place /\ buf[to_move[e]] = "."
  BY <1>3, PendingIsFree
<1>5. MapAgrees'
  BY <1>1, <1>2, <1>3, <1>4, CarryOutAgrees DEF Inv
<1>6. /\ \A c \in Herd : c # turn => herd'[c] = herd[c]
      /\ DOMAIN herd' = Herd /\ DOMAIN herd'[turn] = DOMAIN herd[turn]
      /\ herd'[turn] \in [DOMAIN herd[turn] -> Place]
      /\ herd'[turn][e] = to_move[e]
      /\ \A f \in DOMAIN herd[turn] : f # e => herd'[turn][f] = herd[turn][f]
  BY <1>2, <1>3, <1>4 DEF CarryOut
<1>7. buf' \in [Place -> Cell]
  BY <1>2, <1>3, <1>4 DEF CarryOut, Cell
<1>8. TypeOK'
  BY <1>1, <1>2, <1>3, <1>6, <1>7 DEF Inv, TypeOK
<1>9. (WereApart /\ Decided /\ FirstDone /\ AtEnd)'
  BY <1>1 DEF Inv, WereApart, Decided, FirstDone, AtEnd, Occupied
<1>10. Complete'
  BY <1>1 DEF Inv, Complete, Occupied
<1>11. MadeSoFar'
  BY <1>1, <1>2, <1>3, <1>6 DEF Inv, MadeSoFar
<1> QED
  BY <1>1, <1>5, <1>8, <1>9, <1>10, <1>11 DEF Inv, NoResultYet

\* Once the second loop is through, the cucumbers are apart again.
LEMMA HerdsApart ==
    ASSUME TypeOK, MapAgrees
    PROVE  \A c, d \in Herd : \A e \in DOMAIN herd[c], f \in DOMAIN herd[d] :
              herd[c][e] = herd[d][f] => c = d /\ e = f
<1> SUFFICES ASSUME NEW c \in Herd, NEW d \in Herd, NEW e \in DOMAIN herd[c],
                    NEW f \in DOMAIN herd[d], herd[c][e] = herd[d][f]
             PROVE  c = d /\ e = f
  OBVIOUS
<1>1. herd[c][e] \in Place
  BY DEF TypeOK
<1>2. buf[herd[c][e]] = c /\ buf[herd[c][e]] = d
  BY <1>1 DEF MapAgrees
<1> QED
  BY <1>2 DEF MapAgrees

LEMMA MovesAreFinite ==
    ASSUME TypeOK
    PROVE  /\ Cardinality(DOMAIN to_move) \in Nat
           /\ Cardinality(DOMAIN to_move) = 0 <=> DOMAIN to_move = {}
<1>1. IsFiniteSet(0 .. Width - 1) /\ IsFiniteSet(0 .. Height - 1)
  BY SizeAssumption, FS_Interval
<1>2. IsFiniteSet(Place)
  BY <1>1, FS_Product DEF Place
<1>3. IsFiniteSet(DOMAIN to_move)
  BY <1>2, FS_Subset DEF TypeOK
<1> QED
  BY <1>3, FS_CardinalityType, FS_EmptySet

\* With nothing to move, the herds are where they were.
LEMMA NobodyMoved ==
    ASSUME Inv, phase = "move", DOMAIN to_move = {}
    PROVE  \A c \in Herd : herd[c] = was[c]
<1>1. turn \in Herd /\ \A c \in Herd : was[c] \in [DOMAIN herd[c] -> Place]
                                       /\ herd[c] \in [DOMAIN herd[c] -> Place]
  BY DEF Inv, TypeOK
<1>2. \A e \in DOMAIN herd[turn] : herd[turn][e] = was[turn][e]
  BY <1>1 DEF Inv, MadeSoFar
<1>3. herd[turn] = was[turn]
  BY <1>1, <1>2
<1> QED
  BY <1>3 DEF Inv, MadeSoFar

\* The call of move_herd begins with everything in order.
LEMMA CallInv ==
    ASSUME Inv, NEW c \in Herd, Call(c), UNCHANGED <<buf, herd, first, p1>>,
           moves' \in Nat, steps' \in 1 .. MaxSteps
    PROVE  (TypeOK /\ MapAgrees /\ WereApart /\ Decided /\ Complete /\ MadeSoFar /\ AtEnd)'
<1>1. /\ turn' = c /\ phase' = "scan" /\ todo' = DOMAIN herd[c]
      /\ to_move' = NoMoves /\ was' = herd
  BY DEF Call
<1>2. DOMAIN to_move' = {} /\ to_move' \in [DOMAIN to_move' -> Place]
  BY <1>1 DEF NoMoves
<1>3. TypeOK'
  <2>1. /\ buf' \in [Place -> Cell] /\ DOMAIN herd' = Herd /\ DOMAIN was' = Herd
        /\ \A d \in Herd : /\ DOMAIN herd'[d] \subseteq Place
                           /\ herd'[d] \in [DOMAIN herd'[d] -> Place]
                           /\ was'[d] \in [DOMAIN herd'[d] -> Place]
        /\ first' \in Herd /\ turn' \in Herd
        /\ p1' \in 0 .. MaxSteps
    BY <1>1 DEF Inv, TypeOK
  <2>2. /\ phase' \in {"scan", "move", "done"}
        /\ DOMAIN to_move' \subseteq DOMAIN herd'[turn']
        /\ todo' \subseteq IF phase' = "scan" THEN DOMAIN herd'[turn'] ELSE DOMAIN to_move'
    BY <1>1, <1>2
  <2> QED
    BY <1>2, <2>1, <2>2, Zenon DEF TypeOK
<1>4. MapAgrees'
  BY DEF Inv, MapAgrees
<1>5. WereApart'
  <2>1. TypeOK /\ MapAgrees
    BY DEF Inv
  <2>2. was' = herd
    BY <1>1
  <2>3. \A d, g \in Herd : \A e \in DOMAIN herd[d], f \in DOMAIN herd[g] :
           herd[d][e] = herd[g][f] => d = g /\ e = f
    BY <2>1, HerdsApart
  <2> QED
    BY <2>2, <2>3 DEF WereApart
<1>6. Decided' /\ AtEnd'
  BY <1>1, <1>2 DEF Decided, AtEnd
<1>7. Complete'
  BY <1>1 DEF Complete
<1>8. MadeSoFar'
  BY <1>1 DEF MadeSoFar
<1> QED
  BY <1>3, <1>4, <1>5, <1>6, <1>7, <1>8

LEMMA FirstReturnsInv == ASSUME Inv, first_returns PROVE Inv'
<1>1. /\ phase = "move" /\ todo = {} /\ turn = first /\ moves' = Total /\ Call(Other(turn))
      /\ UNCHANGED <<buf, herd, first, steps, p1>>
  BY DEF first_returns
<1>2. turn \in Herd /\ Other(turn) \in Herd /\ Other(turn) # turn
  BY OtherHerd DEF Inv, TypeOK
<1>3. Total \in Nat /\ (Total = 0 => DOMAIN to_move = {})
  BY MovesAreFinite DEF Inv, TypeOK, Total
<1>4. (TypeOK /\ MapAgrees /\ WereApart /\ Decided /\ Complete /\ MadeSoFar /\ AtEnd)'
  BY <1>1, <1>2, <1>3, CallInv DEF Inv, TypeOK
<1>5. FirstDone'
  <2>1. turn' = Other(turn) /\ first' = first /\ was' = herd /\ turn' # first'
    BY <1>1, <1>2 DEF Call
  <2>2. SUFFICES ASSUME moves' = 0, NEW e \in DOMAIN herd[first]
                 PROVE  Occupied(herd, To(first, herd[first][e]))
    BY <2>1 DEF FirstDone
  <2>3. DOMAIN to_move = {}
    BY <1>1, <1>3, <2>2
  <2>4. \A c \in Herd : herd[c] = was[c]
    BY <1>1, <2>3, NobodyMoved
  <2>5. Occupied(was, To(turn, was[turn][e]))
    BY <1>1, <1>2, <2>2, <2>3, <2>4 DEF Inv, Complete
  <2> QED
    BY <1>1, <1>2, <2>4, <2>5 DEF Occupied
<1> QED
  BY <1>1, <1>4, <1>5 DEF Inv, NoResultYet

LEMMA SecondReturnsInv == ASSUME Inv, second_returns PROVE Inv'
<1>1. /\ steps < MaxSteps /\ steps' = steps + 1 /\ moves' = 0 /\ Call(first)
      /\ UNCHANGED <<buf, herd, first, p1>>
  BY DEF second_returns
<1>2. first \in Herd /\ steps' \in 1 .. MaxSteps /\ moves' \in Nat
  BY <1>1, SizeAssumption DEF Inv, TypeOK
<1>3. (TypeOK /\ MapAgrees /\ WereApart /\ Decided /\ Complete /\ MadeSoFar /\ AtEnd)'
  BY <1>1, <1>2, CallInv
<1>4. FirstDone'
  BY <1>1 DEF FirstDone, Call
<1>5. phase = "move"
  BY DEF second_returns
<1> QED
  BY <1>1, <1>3, <1>4, <1>5 DEF Inv, NoResultYet

LEMMA Day25ReturnsInv == ASSUME Inv, day25_returns PROVE Inv'
<1>1. /\ phase = "move" /\ todo = {} /\ turn # first /\ Total = 0
      /\ p1' = steps /\ phase' = "done" /\ was' = herd
      /\ UNCHANGED <<buf, herd, first, turn, todo, to_move, moves, steps>>
  BY DEF day25_returns
<1>2. moves = 0 /\ DOMAIN to_move = {}
  BY <1>1, MovesAreFinite DEF Inv, TypeOK, Total
<1>3. \A c \in Herd : herd[c] = was[c]
  BY <1>1, <1>2, NobodyMoved
<1>4. DOMAIN herd = Herd /\ DOMAIN was = Herd /\ turn \in Herd /\ first \in Herd
  BY DEF Inv, TypeOK
<1>5. TypeOK'
  <2>1. p1' \in 0 .. MaxSteps /\ phase' \in {"scan", "move", "done"} /\ todo' \subseteq DOMAIN to_move'
    BY <1>1, SizeAssumption DEF Inv, TypeOK
  <2> QED
    BY <1>1, <1>3, <2>1 DEF Inv, TypeOK
<1>6. MapAgrees'
  BY <1>1 DEF Inv, MapAgrees
<1>7. WereApart'
  BY <1>1, <1>3 DEF Inv, WereApart
<1>8. Decided' /\ MadeSoFar'
  BY <1>1, <1>2 DEF Decided, MadeSoFar
<1>9. \A p \in Place : Occupied(herd, p) <=> Occupied(was, p)
  BY <1>3 DEF Occupied
<1>10. \A c \in Herd : \A e \in DOMAIN herd[c] : Occupied(herd, To(c, herd[c][e]))
  <2> SUFFICES ASSUME NEW c \in Herd, NEW e \in DOMAIN herd[c]
               PROVE  Occupied(herd, To(c, herd[c][e]))
    OBVIOUS
  <2>1. was[c] = herd[c]
    BY <1>3
  <2>2. CASE c = turn
    <3>1. Occupied(was, To(turn, was[turn][e]))
      BY <1>1, <1>2, <2>1, <2>2 DEF Inv, Complete
    <3> QED
      BY <1>3, <2>1, <2>2, <3>1 DEF Occupied
  <2>3. CASE c # turn
    <3>1. c = first
      BY <1>1, <1>4, <2>3, OtherHerd
    <3>2. Occupied(was, To(first, was[first][e]))
      BY <1>1, <1>2, <2>1, <3>1 DEF Inv, FirstDone
    <3> QED
      BY <1>3, <2>1, <3>1, <3>2 DEF Occupied
  <2> QED
    BY <2>2, <2>3
<1>11. (Complete /\ FirstDone /\ AtEnd)'
  BY <1>1, <1>4, <1>10 DEF Complete, FirstDone, AtEnd, Occupied
<1> QED
  BY <1>1, <1>5, <1>6, <1>7, <1>8, <1>11 DEF Inv, NoResultYet

LEMMA NextInv == ASSUME Inv, [Next]_vars PROVE Inv'
<1>1. CASE UNCHANGED vars
  BY <1>1 DEF vars, Inv, TypeOK, MapAgrees, WereApart, Decided, Complete, MadeSoFar,
              FirstDone, AtEnd, Occupied, NoResultYet
<1> QED
  BY <1>1, ScanInv, ScanEndsInv, MoveInv, FirstReturnsInv, SecondReturnsInv,
     Day25ReturnsInv DEF Next

-----------------------------------------------------------------------------
\* The map, the arrays and the moves of day25 keep their types.
THEOREM TypeCorrect == Spec => []TypeOK
<1>1. Inv => TypeOK
  BY DEF Inv
<1> QED
  BY <1>1, InitInv, NextInv, PTL DEF Spec

\* The map and the two arrays, written one after the other in the second loop of
\* move_herd, show the same cucumbers after every assignment (day25.c:62-64).
THEOREM MapAndArraysAgree == Spec => []MapAgrees
<1>1. Inv => MapAgrees
  BY DEF Inv
<1> QED
  BY <1>1, InitInv, NextInv, PTL DEF Spec

\* What the first loop decided is still possible when the second loop does it,
\* which does not look again (day25.c:51-65).
THEOREM DecisionsHold == Spec => []MovesStayPossible
<1>1. Inv => MovesStayPossible
  BY PendingIsFree DEF MovesStayPossible
<1> QED
  BY <1>1, InitInv, NextInv, PTL DEF Spec

\* When day25 returns, no cucumber can move, whichever herd's call the compiler
\* evaluates first (day25.c:95-98).
THEOREM ReturnsAtRest == Spec => []EndsAtRest
<1>1. Inv => EndsAtRest
  <2> SUFFICES ASSUME Inv, phase = "done", NEW c \in Herd, NEW e \in DOMAIN herd[c]
               PROVE  buf[To(c, herd[c][e])] # "."
    BY DEF EndsAtRest
  <2>1. herd = was /\ herd[c][e] \in Place
    BY DEF Inv, MadeSoFar, TypeOK
  <2>2. Occupied(herd, To(c, herd[c][e]))
    BY <2>1 DEF Inv, AtEnd
  <2> QED
    BY <2>1, <2>2, ToIsPlace, FreeIsUnoccupied DEF Inv
<1> QED
  BY <1>1, InitInv, NextInv, PTL DEF Spec

-----------------------------------------------------------------------------
(* The refinement.                                                           *)

LEMMA SameAhead ==
    ASSUME NEW c, NEW p
    PROVE  S!Ahead(c, p) = To(c, p)
  BY DEF S!Ahead, To

LEMMA SameHerds == S!Herd = Herd /\ S!Place = Place
  BY DEF S!Herd, Herd, S!Place, Place

LEMMA PlacesAreSets ==
    ASSUME TypeOK
    PROVE  Places(was) \in [Herd -> SUBSET Place] /\ Places(herd) \in [Herd -> SUBSET Place]
<1>1. \A c \in Herd : {was[c][e] : e \in DOMAIN was[c]} \in SUBSET Place
  BY DEF TypeOK
<1>2. \A c \in Herd : {herd[c][e] : e \in DOMAIN herd[c]} \in SUBSET Place
  BY DEF TypeOK
<1> QED
  BY <1>1, <1>2 DEF Places

\* A cucumber is blocked at the call if the place ahead of it is occupied.
LEMMA BlockedIsOccupied ==
    ASSUME TypeOK, NEW c \in Herd, NEW p \in Place
    PROVE  S!Blocked(Places(was), c, p) <=> Occupied(was, To(c, p))
<1>1. \A d \in Herd : Places(was)[d] = {was[d][e] : e \in DOMAIN was[d]}
  BY DEF Places
<1>2. S!Blocked(Places(was), c, p) <=> \E d \in Herd : To(c, p) \in Places(was)[d]
  BY SameAhead, SameHerds DEF S!Blocked
<1> QED
  BY <1>1, <1>2 DEF Occupied

\* At the end of the first loop the moves collected are those of the movers.
LEMMA MoversAreCollected ==
    ASSUME Inv, phase = "move"
    PROVE  S!Movers(Places(was), turn) = {was[turn][e] : e \in DOMAIN to_move}
<1>1. /\ turn \in Herd /\ DOMAIN to_move \subseteq DOMAIN was[turn]
      /\ \A e \in DOMAIN was[turn] : was[turn][e] \in Place
      /\ Places(was)[turn] = {was[turn][e] : e \in DOMAIN was[turn]}
  BY DEF Inv, TypeOK, Places
<1>2. \A e \in DOMAIN was[turn] :
         e \in DOMAIN to_move <=> ~Occupied(was, To(turn, was[turn][e]))
  BY DEF Inv, Decided, Complete
<1>3. \A e \in DOMAIN was[turn] :
         S!Blocked(Places(was), turn, was[turn][e]) <=> Occupied(was, To(turn, was[turn][e]))
  BY <1>1, BlockedIsOccupied DEF Inv
<1> QED
  BY <1>1, <1>2, <1>3 DEF S!Movers

\* At the end of the second loop the herd is where the abstract step takes it.
LEMMA LoopsMoveHerd ==
    ASSUME Inv, phase = "move", todo = {}
    PROVE  Places(herd) = S!Moved(Places(was), turn)
<1> DEFINE old   == Places(was)
           goers == {was[turn][e] : e \in DOMAIN to_move}
<1>1. /\ turn \in Herd /\ DOMAIN to_move \subseteq DOMAIN was[turn]
      /\ \A c \in Herd : DOMAIN was[c] = DOMAIN herd[c]
      /\ \A c \in Herd : c # turn => herd[c] = was[c]
  BY DEF Inv, TypeOK, MadeSoFar
<1>2. \A e \in DOMAIN was[turn] :
         herd[turn][e] = IF e \in DOMAIN to_move THEN To(turn, was[turn][e]) ELSE was[turn][e]
  BY <1>1 DEF Inv, MadeSoFar, Decided
<1>3. S!Movers(old, turn) = goers
  BY MoversAreCollected
<1>4. S!Moved(old, turn) = [old EXCEPT ![turn] =
          (old[turn] \ goers) \cup {To(turn, p) : p \in goers}]
  BY <1>3, SameAhead DEF S!Moved
<1>5. \A c \in Herd : /\ old[c] = {was[c][e] : e \in DOMAIN was[c]}
                      /\ Places(herd)[c] = {herd[c][e] : e \in DOMAIN herd[c]}
  BY DEF Places
<1>6. \A e \in DOMAIN was[turn] : was[turn][e] \in goers <=> e \in DOMAIN to_move
  BY <1>1 DEF Inv, WereApart
<1>7. (old[turn] \ goers) \cup {To(turn, p) : p \in goers} = Places(herd)[turn]
  <2>1. ASSUME NEW q \in Places(herd)[turn]
        PROVE  q \in (old[turn] \ goers) \cup {To(turn, p) : p \in goers}
    <3>1. PICK e \in DOMAIN was[turn] : q = herd[turn][e]
      BY <1>1, <1>5, <2>1
    <3> QED
      BY <1>1, <1>2, <1>5, <1>6, <3>1
  <2>2. ASSUME NEW q \in old[turn] \ goers
        PROVE  q \in Places(herd)[turn]
    <3>1. PICK e \in DOMAIN was[turn] : q = was[turn][e]
      BY <1>1, <1>5, <2>2
    <3>2. q = herd[turn][e]
      BY <1>2, <1>6, <2>2, <3>1
    <3> QED
      BY <1>1, <1>5, <3>1, <3>2
  <2>3. ASSUME NEW p \in goers
        PROVE  To(turn, p) \in Places(herd)[turn]
    <3>1. PICK e \in DOMAIN to_move : p = was[turn][e]
      BY <2>3
    <3>2. To(turn, p) = herd[turn][e] /\ e \in DOMAIN herd[turn]
      BY <1>1, <1>2, <3>1
    <3> QED
      BY <1>1, <1>5, <3>2
  <2> QED
    BY <2>1, <2>2, <2>3
<1>8. \A c \in Herd : c # turn => old[c] = Places(herd)[c]
  <2> SUFFICES ASSUME NEW c \in Herd, c # turn PROVE old[c] = Places(herd)[c]
    OBVIOUS
  <2>1. herd[c] = was[c]
    BY <1>1
  <2>2. old[c] = {was[c][e] : e \in DOMAIN was[c]}
    BY <1>5
  <2>3. Places(herd)[c] = {herd[c][e] : e \in DOMAIN herd[c]}
    BY <1>5
  <2> HIDE DEF old
  <2> QED
    BY <2>1, <2>2, <2>3
<1>9. old \in [Herd -> SUBSET Place] /\ Places(herd) \in [Herd -> SUBSET Place]
  BY PlacesAreSets DEF Inv
<1> HIDE DEF old, goers
<1>10. [old EXCEPT ![turn] = Places(herd)[turn]] = Places(herd)
  BY <1>8, <1>9
<1> QED
  BY <1>4, <1>7, <1>10 DEF old

LEMMA InitMaps == Init => S!Init
<1> SUFFICES ASSUME Init PROVE S!Init
  OBVIOUS
<1>1. Inv /\ was = herd
  BY InitInv DEF Init
<1>2. \A c \in Herd : Places(was)[c] = {was[c][e] : e \in DOMAIN was[c]}
  BY DEF Places
<1>3. \A c \in Herd : Places(was)[c] \in SUBSET Place
  BY <1>1, <1>2 DEF Inv, TypeOK
<1>4. Places(was) \in [Herd -> SUBSET Place]
  BY <1>3 DEF Places
<1>5. Places(was)[">"] \cap Places(was)["v"] = {}
  <2>1. ">" \in Herd /\ "v" \in Herd
    BY DEF Herd
  <2> QED
    BY <1>1, <1>2, <2>1 DEF Inv, WereApart
<1> QED
  BY <1>4, <1>5, SameHerds DEF S!Init, Init

\* Some cucumber of the herd moves if some move was collected.
LEMMA SomeMoveIsTotal ==
    ASSUME Inv, phase = "move"
    PROVE  S!SomeMove <=> Total # 0
<1>1. /\ Cardinality(DOMAIN to_move) \in Nat /\ moves \in Nat
      /\ Cardinality(DOMAIN to_move) = 0 <=> DOMAIN to_move = {}
  BY MovesAreFinite DEF Inv, TypeOK
<1>2. S!Movers(Places(was), turn) = {} <=> DOMAIN to_move = {}
  BY MoversAreCollected
<1> QED
  BY <1>1, <1>2 DEF S!SomeMove, Total

LEMMA StepMaps ==
    ASSUME Inv, Inv', [Next]_vars
    PROVE  [S!Next]_<<Places(was), first, turn, moves # 0, steps, p1>>
<1> DEFINE seen == <<Places(was), first, turn, moves # 0, steps, p1>>
<1>1. CASE scan \/ scan_ends \/ move \/ UNCHANGED vars
  <2>1. UNCHANGED <<was, first, turn, moves, steps, p1>>
    BY <1>1 DEF scan, scan_ends, move, vars
  <2> QED
    BY <2>1
<1>2. CASE first_returns
  <2>1. /\ phase = "move" /\ todo = {} /\ turn = first /\ moves' = Total
        /\ turn' = Other(turn) /\ was' = herd /\ UNCHANGED <<first, steps, p1>>
    BY <1>2 DEF first_returns, Call
  <2>2. Places(was') = S!Moved(Places(was), turn)
    BY <2>1, LoopsMoveHerd
  <2>3. (moves' # 0) <=> S!SomeMove
    BY <2>1, SomeMoveIsTotal
  <2>4. p1 = 0
    BY <2>1 DEF Inv, NoResultYet
  <2> QED
    BY <2>1, <2>2, <2>3, <2>4 DEF S!Next, S!FirstMoves, S!Other, Other
<1>3. CASE second_returns
  <2>1. /\ phase = "move" /\ todo = {} /\ turn # first /\ moves' = 0 /\ Total # 0
        /\ turn' = first /\ was' = herd /\ steps' = steps + 1 /\ UNCHANGED <<first, p1>>
    BY <1>3 DEF second_returns, Call
  <2>2. Places(was') = S!Moved(Places(was), turn)
    BY <2>1, LoopsMoveHerd
  <2>3. S!SomeMove
    BY <2>1, SomeMoveIsTotal
  <2>4. p1 = 0
    BY <2>1 DEF Inv, NoResultYet
  <2> QED
    BY <2>1, <2>2, <2>3, <2>4 DEF S!Next, S!SecondMoves
<1>4. CASE day25_returns
  <2>1. /\ phase = "move" /\ todo = {} /\ turn # first /\ Total = 0 /\ p1' = steps
        /\ was' = herd /\ UNCHANGED <<first, turn, moves, steps>>
    BY <1>4 DEF day25_returns
  <2>2. Places(was') = S!Moved(Places(was), turn)
    BY <2>1, LoopsMoveHerd
  <2>3. ~S!SomeMove /\ moves' = 0
    BY <2>1, SomeMoveIsTotal, MovesAreFinite DEF Inv, TypeOK, Total
  <2>4. p1 = 0
    BY <2>1 DEF Inv, NoResultYet
  <2> QED
    BY <2>1, <2>2, <2>3, <2>4 DEF S!Next, S!SecondMoves
<1> QED
  BY <1>1, <1>2, <1>3, <1>4 DEF Next

\* move_herd is the simultaneous move of the herd, and day25 counts the rounds of
\* such moves up to the first in which none moves (day25.c:47-67, 93-102).
THEOREM HerdsMoveAtOnce == Spec => HerdMovesAtOnce
<1>1. Inv /\ Inv' /\ [Next]_vars =>
         [S!Next]_<<Places(was), first, turn, moves # 0, steps, p1>>
  BY StepMaps
<1> QED
  BY <1>1, InitMaps, InitInv, NextInv, PTL DEF Spec, HerdMovesAtOnce, S!Spec

===============================================================================
