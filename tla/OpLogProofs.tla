---------------------------- MODULE OpLogProofs ----------------------------
(***************************************************************************)
(* Proofs about OpLog: every mint is sound, and the views the watermark    *)
(* vouches for are the fold of the whole log, for any processes, any       *)
(* received ops in any order and any interleaving.                         *)
(***************************************************************************)
EXTENDS OpLog, FiniteSetTheorems, WellFoundedInduction, TLAPS

-----------------------------------------------------------------------------
(* The inductive invariant.                                                *)

\* An op of this replica's log: one of another replica, or one it minted.
OpType == [id : {op.id : op \in Foreign} \cup ({Me} \X (0..MaxOwn)), lamport : Nat, site : Nat,
           shape : (UNION {Foldable[r] : r \in DOMAIN Foldable}) \cup {op.shape : op \in Foreign}, own : BOOLEAN]

PcType == {"closed", "bind", "look", "refold", "advance", "open"}
ProcType == [pc : PcType, clock : Nat, upgraded : BOOLEAN, boundary : Nat]

\* The types of the state.
Types ==
  /\ given \in DOMAIN Settings
  /\ log \in Seq(OpType)
  /\ unique \in BOOLEAN /\ schema \in BOOLEAN /\ panicked \in BOOLEAN
  /\ view \in 0..Len(log)
  /\ mark \in [through : 0..Len(log), rev : Nat, revThrough : 0..Len(log)]
  /\ minted \in 0..MaxOwn
  /\ proc \in [Proc -> ProcType]
  /\ \A p \in Proc : proc[p].boundary <= Len(log) /\ (p \notin Product => proc[p].pc \in {"closed", "open"})

\* What is this replica's own is on its site; what is not is one of the ops that arrive.
Origins == \A n \in Rows : IF log[n].own THEN log[n].site = Me ELSE log[n] \in Foreign

\* The lamports this replica has minted.
OwnLamports == {log[n].lamport : n \in {k \in Rows : log[k].own}}

\* Every mint takes one lamport.
Counted == IsFiniteSet(OwnLamports) /\ Cardinality(OwnLamports) <= minted

\* Above the ceiling no coordinate of this site is left out below an op of its own: what a mint stepped over was taken.
Filled == \A n \in Rows : log[n].own => \A x \in (Ceiling + 1)..log[n].lamport : Taken(x, Me)

\* A clock is above the ceiling only by what this replica minted.
ClockBound(c, rows) == c <= Ceiling \/ \E n \in DOMAIN rows : rows[n].own /\ c <= rows[n].lamport
Clocks == \A p \in Proc : ClockBound(proc[p].clock, log)

MintInv == Origins /\ Counted /\ Filled /\ Clocks /\ OwnOpsClimb /\ OwnCoordinates /\ NeverPanics /\ OwnOpsFold

\* A register's row that the shapes admit.
Proper(shapes, rows, v) == v # None => Folds(shapes, rows[v])

\* The register is not behind the first n rows.
Covers(shapes, rows, v, n) ==
  \A k \in DOMAIN rows : k <= n /\ Folds(shapes, rows[k]) => v # None /\ ~Beats(rows[k], rows[v])

\* Beside a sync pass: the rows the watermark vouches for, and those of a boundary that is about to be written, are folded.
BesideSync ==
  SameRevision /\ Old = <<>> =>
    \A p \in Product :
      /\ ~proc[p].upgraded
      /\ mark.rev = Revision[p] => /\ Proper(Shapes(p), log, view)
                                   /\ Covers(Shapes(p), log, view, mark.revThrough)
      /\ mark.rev # Revision[p] => proc[p].pc \in {"closed", "bind"} /\ mark.rev < Revision[p]
      /\ proc[p].pc = "advance" => Covers(Shapes(p), log, view, proc[p].boundary)

\* Several revisions: nothing is ever behind folded_through, so nobody refolds, and whole views are vouched for.
BesideRevisions ==
  Proc = Product /\ Old = <<>> =>
    /\ mark.through = Len(log)
    /\ \A p \in Product :
         /\ ~proc[p].upgraded
         /\ proc[p].pc \notin {"refold", "advance"}
         /\ mark.rev = Revision[p] /\ mark.revThrough = Len(log) => IsFold(Shapes(p), log, view)

\* A file of before the upgrade: once the process that was told has refolded it, every row is folded and stays so.
BesideUpgrade ==
  Proc = Product /\ SameRevision =>
    \A p \in Product :
      /\ mark.rev = Revision[p] => Proper(Shapes(p), log, view)
      /\ mark.rev # Revision[p] => proc[p].pc \in {"closed", "bind"} /\ mark.rev < Revision[p]
      /\ proc[p].pc = "look" => ~proc[p].upgraded
      /\ proc[p].upgraded /\ proc[p].pc \in {"advance", "open"} => Covers(Shapes(p), log, view, Len(log))

\* An empty file is up to date.
SchemaInv == Old = <<>> => schema

ViewInv == SchemaInv /\ BesideSync /\ BesideRevisions /\ BesideUpgrade

IInv == Types /\ MintInv /\ ViewInv

-----------------------------------------------------------------------------
(* Sets of numbers.                                                        *)

\* A set of naturals that is not empty has a least element.
LEMMA LeastExists ==
  ASSUME NEW S, S \subseteq Nat, S # {}
  PROVE  \E m \in S : \A k \in S : m <= k
<1>1. PICK m \in S : \A q \in S : ~(<<q, m>> \in OpToRel(<, Nat))
  BY NatLessThanWellFounded, WFMin
<1>2. \A q \in S : ~(q < m)
  <2> TAKE q \in S
  <2>1. <<q, m>> \in Nat \X Nat
    BY Zenon
  <2>2. ~(<<q, m>> \in OpToRel(<, Nat))
    BY <1>1, Zenon
  <2> QED BY <2>1, <2>2, Zenon DEF OpToRel
<1> QED BY <1>2

\* A bounded set of naturals that is not empty has a greatest element.
LEMMA GreatestExists ==
  ASSUME NEW S, S \subseteq Nat, S # {}, NEW b \in Nat, \A k \in S : k <= b
  PROVE  \E m \in S : \A k \in S : k <= m
<1> DEFINE D == {b - k : k \in S}
<1>1. D \subseteq Nat /\ D # {}
  <2>1. \A k \in S : k \in Nat /\ k <= b /\ b - k \in Nat
    OBVIOUS
  <2>2. D \subseteq Nat
    BY <2>1
  <2>3. PICK k \in S : TRUE
    OBVIOUS
  <2>4. b - k \in D
    BY <2>3
  <2> QED BY <2>2, <2>4
<1> HIDE DEF D
<1>2. PICK d \in D : \A e \in D : d <= e
  BY <1>1, LeastExists
<1>3. PICK m \in S : d = b - m
  BY DEF D
<1>4. \A k \in S : d <= b - k
  BY <1>2 DEF D
<1>5. \A k \in S : k <= m
  BY <1>3, <1>4
<1> QED BY <1>5

\* A finite set of naturals is bounded.
LEMMA FiniteIsBounded ==
  ASSUME NEW S, S \subseteq Nat, IsFiniteSet(S)
  PROVE  \E b \in Nat : \A k \in S : k <= b
<1> DEFINE Loose == {n \in Nat : \E T \in SUBSET Nat : /\ IsFiniteSet(T) /\ Cardinality(T) = n
                                                       /\ ~ \E b \in Nat : \A k \in T : k <= b}
<1>1. SUFFICES ASSUME ~ \E b \in Nat : \A k \in S : k <= b
               PROVE  FALSE
  OBVIOUS
<1>2. Cardinality(S) \in Loose
  BY <1>1, FS_CardinalityType
<1>3. PICK n \in Loose : \A k \in Loose : n <= k
  <2>1. Loose \subseteq Nat /\ Loose # {}
    BY <1>2
  <2> HIDE DEF Loose
  <2> QED BY <2>1, LeastExists
<1>4. PICK T \in SUBSET Nat : IsFiniteSet(T) /\ Cardinality(T) = n /\ ~ \E b \in Nat : \A k \in T : k <= b
  BY <1>3
<1>5. T # {}
  BY <1>4
<1>6. PICK x \in T : TRUE
  BY <1>5
<1>7. IsFiniteSet(T \ {x}) /\ Cardinality(T \ {x}) = n - 1
  BY <1>4, <1>6, FS_RemoveElement
<1>8. n \in Nat /\ n # 0
  BY <1>3, <1>4, <1>5, FS_EmptySet
<1>9. PICK b \in Nat : \A k \in T \ {x} : k <= b
  <2>1. n - 1 \notin Loose
    BY <1>3, <1>8
  <2> QED BY <2>1, <1>7, <1>8, <1>4
<1>10. x \in Nat
  BY <1>4, <1>6
<1>11. CASE x <= b
  BY <1>4, <1>9, <1>11
<1>12. CASE x > b
  <2>1. \A k \in T : k <= x
    BY <1>4, <1>9, <1>10, <1>12
  <2> QED BY <1>4, <2>1, <1>10
<1> QED BY <1>10, <1>11, <1>12

\* MaxOf of a bounded set is above all of it, and in it or zero.
LEMMA MaxOfBounds ==
  ASSUME NEW S, S \subseteq Nat, NEW b \in Nat, \A k \in S : k <= b
  PROVE  /\ MaxOf(S) \in Nat
         /\ \A k \in S : k <= MaxOf(S)
         /\ MaxOf(S) \in S \/ (S = {} /\ MaxOf(S) = 0)
<1>1. CASE S = {}
  BY <1>1 DEF MaxOf
<1>2. CASE S # {}
  <2>1. \E m \in S : \A k \in S : k <= m
    BY <1>2, GreatestExists
  <2>2. MaxOf(S) \in S /\ \A k \in S : k <= MaxOf(S)
    BY <1>2, <2>1 DEF MaxOf
  <2> QED BY <2>2
<1> QED BY <1>1, <1>2

-----------------------------------------------------------------------------
(* The fold of a register.                                                 *)

\* Rows with numbers for coordinates.
Coordinates(rows) == \A n \in DOMAIN rows : rows[n].lamport \in Nat /\ rows[n].site \in Nat

\* What is beaten by what does not beat a third does not beat it either.
LEMMA BeatsIsOrder ==
  ASSUME NEW a, NEW b, NEW c, a.lamport \in Nat, a.site \in Nat, b.lamport \in Nat, b.site \in Nat,
         c.lamport \in Nat, c.site \in Nat
  PROVE  /\ ~Beats(a, a)
         /\ ~Beats(a, b) /\ ~Beats(b, c) => ~Beats(a, c)
         /\ ~Beats(a, b) /\ Beats(c, b) => ~Beats(a, c)
BY DEF Beats

\* Folding a row admits only what the shapes admit, leaves nothing behind that was covered, and covers the row.
LEMMA FoldOneCovers ==
  ASSUME NEW shapes, NEW rows, NEW k \in Nat, DOMAIN rows = 1..k, Coordinates(rows), NEW v \in 0..k, NEW n \in 1..k
  PROVE  /\ FoldOne(shapes, rows, v, n) \in 0..k
         /\ Proper(shapes, rows, v) => Proper(shapes, rows, FoldOne(shapes, rows, v, n))
         /\ \A m \in Nat : Covers(shapes, rows, v, m) => Covers(shapes, rows, FoldOne(shapes, rows, v, n), m)
         /\ Covers(shapes, rows, v, n - 1) => Covers(shapes, rows, FoldOne(shapes, rows, v, n), n)
<1> DEFINE w == FoldOne(shapes, rows, v, n)
<1>1. w \in 0..k
  BY DEF FoldOne
<1>2. Proper(shapes, rows, v) => Proper(shapes, rows, w)
  BY DEF FoldOne, Proper, None
<1>3. v # None => w # None /\ ~Beats(rows[v], rows[w])
  BY BeatsIsOrder DEF FoldOne, None, Coordinates, Beats
<1>4. Folds(shapes, rows[n]) => w # None /\ ~Beats(rows[n], rows[w])
  BY BeatsIsOrder DEF FoldOne, None, Coordinates
<1>5. ASSUME NEW j \in DOMAIN rows, v # None, ~Beats(rows[j], rows[v])
      PROVE  w # None /\ ~Beats(rows[j], rows[w])
  <2>1. v \in DOMAIN rows /\ w \in DOMAIN rows
    BY <1>1, <1>3, <1>5 DEF None
  <2> QED BY <2>1, <1>3, <1>5, BeatsIsOrder DEF Coordinates
<1> HIDE DEF w
<1>6. \A m \in Nat : Covers(shapes, rows, v, m) => Covers(shapes, rows, w, m)
  BY <1>5 DEF Covers
<1>7. Covers(shapes, rows, v, n - 1) => Covers(shapes, rows, w, n)
  BY <1>4, <1>5 DEF Covers
<1>8. w = FoldOne(shapes, rows, v, n)
  BY DEF w
<1> QED BY <1>1, <1>2, <1>6, <1>7, <1>8

\* Of the rows that fold one is beaten by none: lamports are bounded by what folds, sites by what there is.
LEMMA BestExists ==
  ASSUME NEW shapes, NEW rows, Coordinates(rows), NEW b \in Nat, \A n \in DOMAIN rows : rows[n].site <= b,
         NEW j \in DOMAIN rows, Folds(shapes, rows[j])
  PROVE  \E n \in DOMAIN rows : Folds(shapes, rows[n])
           /\ \A k \in DOMAIN rows : Folds(shapes, rows[k]) => ~Beats(rows[k], rows[n])
<1> DEFINE F == {n \in DOMAIN rows : Folds(shapes, rows[n])}
           L == {rows[n].lamport : n \in F}
<1>1. PICK l \in L : \A k \in L : k <= l
  <2>1. L \subseteq Nat /\ L # {} /\ \A k \in L : k <= MaxLamport
    BY DEF Coordinates, Folds
  <2>2. MaxLamport \in Nat
    BY ConstantsAssumption
  <2> HIDE DEF L
  <2> QED BY <2>1, <2>2, GreatestExists
<1> DEFINE G == {n \in F : rows[n].lamport = l}
           S == {rows[n].site : n \in G}
<1>2. PICK s \in S : \A k \in S : k <= s
  <2>1. S \subseteq Nat /\ S # {} /\ \A k \in S : k <= b
    BY DEF Coordinates
  <2> HIDE DEF S
  <2> QED BY <2>1, GreatestExists
<1>3. PICK n \in G : rows[n].site = s
  OBVIOUS
<1>4. ASSUME NEW k \in DOMAIN rows, Folds(shapes, rows[k]) PROVE ~Beats(rows[k], rows[n])
  <2>1. rows[k].lamport <= l /\ rows[n].lamport = l /\ rows[k].lamport \in Nat /\ l \in Nat
    BY <1>1, <1>3, <1>4 DEF Coordinates
  <2>2. rows[k].lamport = l => rows[k].site <= s
    BY <1>2, <1>4
  <2>3. rows[k].site \in Nat /\ s \in Nat
    BY <1>3 DEF Coordinates
  <2> QED BY <2>1, <2>2, <2>3, <1>3 DEF Beats
<1> QED BY <1>3, <1>4

\* Folding the whole log admits only what the shapes admit and covers every row.
LEMMA FoldAllCovers ==
  ASSUME NEW shapes, NEW rows, NEW k \in Nat, DOMAIN rows = 1..k, Coordinates(rows), NEW v \in 0..k,
         NEW b \in Nat, \A n \in DOMAIN rows : rows[n].site <= b
  PROVE  /\ FoldAll(shapes, rows, v) \in 0..k
         /\ Proper(shapes, rows, v) => Proper(shapes, rows, FoldAll(shapes, rows, v))
         /\ \A m : Covers(shapes, rows, FoldAll(shapes, rows, v), m)
<1> DEFINE foldable == {n \in DOMAIN rows : Folds(shapes, rows[n])}
           best == {n \in foldable : \A i \in foldable : ~Beats(rows[i], rows[n])}
           w == FoldAll(shapes, rows, v)
<1>1. CASE foldable = {}
  <2>1. w = v
    BY <1>1 DEF FoldAll
  <2> QED BY <2>1, <1>1 DEF Covers
<1>2. CASE foldable # {}
  <2> DEFINE first == CHOOSE n \in best : \A i \in best : n <= i
  <2>1. best # {} /\ best \subseteq Nat
    <3>1. PICK j \in DOMAIN rows : Folds(shapes, rows[j])
      BY <1>2
    <3>2. \E n \in DOMAIN rows : Folds(shapes, rows[n])
            /\ \A i \in DOMAIN rows : Folds(shapes, rows[i]) => ~Beats(rows[i], rows[n])
      BY <3>1, BestExists
    <3> QED BY <3>2
  <2>2. first \in best
    <3> HIDE DEF best
    <3> QED BY <2>1, LeastExists
  <2>3. w = IF v = None \/ Beats(rows[first], rows[v]) THEN first ELSE v
    BY <1>2 DEF FoldAll
  <2>4. first \in 1..k /\ Folds(shapes, rows[first])
    BY <2>2
  <2>5. \A i \in DOMAIN rows : Folds(shapes, rows[i]) => ~Beats(rows[i], rows[first])
    BY <2>2
  <2> HIDE DEF first, best, w, foldable
  <2>6. w \in 0..k /\ (Proper(shapes, rows, v) => Proper(shapes, rows, w))
    BY <2>3, <2>4 DEF Proper, None
  <2>7. ASSUME NEW i \in DOMAIN rows, Folds(shapes, rows[i]) PROVE w # None /\ ~Beats(rows[i], rows[w])
    <3>1. CASE w = first
      BY <3>1, <2>4, <2>5, <2>7 DEF None
    <3>2. CASE w = v /\ v # None /\ ~Beats(rows[first], rows[v])
      <4>1. v \in DOMAIN rows /\ first \in DOMAIN rows
        BY <3>2, <2>4 DEF None
      <4> QED BY <3>2, <4>1, <2>5, <2>7, BeatsIsOrder DEF Coordinates
    <3> QED BY <3>1, <3>2, <2>3
  <2>8. \A m : Covers(shapes, rows, w, m)
    BY <2>7 DEF Covers
  <2> QED BY <2>6, <2>8 DEF w
<1> QED BY <1>1, <1>2

\* A row more at the end changes nothing about the rows before.
LEMMA AppendKeeps ==
  ASSUME NEW shapes, NEW T, NEW rows \in Seq(T), NEW op \in T, NEW v \in 0..Len(rows)
  PROVE  /\ Proper(shapes, Append(rows, op), v) <=> Proper(shapes, rows, v)
         /\ \A m \in 0..Len(rows) : Covers(shapes, Append(rows, op), v, m) <=> Covers(shapes, rows, v, m)
<1> DEFINE new == Append(rows, op)
<1>1. new \in Seq(T) /\ Len(new) = Len(rows) + 1 /\ \A n \in 1..Len(rows) : new[n] = rows[n]
  OBVIOUS
<1>2. DOMAIN new = 1..(Len(rows) + 1) /\ DOMAIN rows = 1..Len(rows) /\ Len(rows) \in Nat
  BY <1>1
<1> HIDE DEF new
<1>3. Proper(shapes, new, v) <=> Proper(shapes, rows, v)
  BY <1>1, <1>2 DEF Proper, None
<1>4. ASSUME NEW m \in 0..Len(rows)
      PROVE  Covers(shapes, new, v, m) <=> Covers(shapes, rows, v, m)
  BY <1>1, <1>2 DEF Covers, None
<1> QED BY <1>3, <1>4 DEF new

-----------------------------------------------------------------------------
(* What a setting is, and the coordinates of a log.                        *)

\* The facts about the setting of this replica.
LEMMA SettingFacts ==
  ASSUME given \in DOMAIN Settings
  PROVE  /\ Product \subseteq Proc /\ MaxOwn \in Nat /\ IsFiniteSet(Foreign) /\ Old \in Seq(Foreign)
         /\ \A op \in Foreign :
              /\ op = [id |-> op.id, lamport |-> op.lamport, site |-> op.site, shape |-> op.shape, own |-> FALSE]
              /\ op.lamport \in Nat /\ op.site \in Nat
         /\ \A p \in Product : Revision[p] \in Nat
         /\ Me \in Nat /\ MaxLamport \in Nat /\ Ceiling \in Nat /\ Ceiling < MaxLamport
<1>1. /\ Product \subseteq Proc /\ Product \subseteq DOMAIN Revision /\ MaxOwn \in Nat
      /\ IsFiniteSet(Foreign) /\ Old \in Seq(Foreign)
  BY ConstantsAssumption DEF Product, Proc, MaxOwn, Foreign, Old
<1>2. \A op \in Foreign :
        /\ op = [id |-> op.id, lamport |-> op.lamport, site |-> op.site, shape |-> op.shape, own |-> FALSE]
        /\ op.lamport \in Nat /\ op.site \in Nat
  BY ConstantsAssumption DEF Foreign
<1>3. \A p \in Product : Revision[p] \in Nat
  BY <1>1, ConstantsAssumption
<1>4. Me \in Nat /\ MaxLamport \in Nat /\ Ceiling \in Nat /\ Ceiling < MaxLamport
  BY ConstantsAssumption
<1> QED BY <1>1, <1>2, <1>3, <1>4

\* An op that arrives is one of the log's type and not this replica's own.
LEMMA ForeignType ==
  ASSUME given \in DOMAIN Settings, NEW op \in Foreign
  PROVE  op \in OpType /\ ~op.own
<1>1. op = [id |-> op.id, lamport |-> op.lamport, site |-> op.site, shape |-> op.shape, own |-> FALSE]
      /\ op.lamport \in Nat /\ op.site \in Nat
  BY SettingFacts
<1>2. op.own = FALSE
  BY <1>1
<1>3. [id |-> op.id, lamport |-> op.lamport, site |-> op.site, shape |-> op.shape, own |-> FALSE] \in OpType
  <2>1. op.id \in {o.id : o \in Foreign} /\ op.shape \in {o.shape : o \in Foreign}
    OBVIOUS
  <2>2. op.id \in {o.id : o \in Foreign} \cup ({Me} \X (0..MaxOwn))
    BY <2>1, Zenon
  <2>3. op.shape \in (UNION {Foldable[r] : r \in DOMAIN Foldable}) \cup {o.shape : o \in Foreign}
    BY <2>1, Zenon
  <2> QED BY <1>1, <2>2, <2>3 DEF OpType
<1> QED BY <1>1, <1>2, <1>3

\* The log's rows and their coordinates.
LEMMA LogFacts ==
  ASSUME Types
  PROVE  /\ Len(log) \in Nat /\ Rows = 1..Len(log) /\ Coordinates(log)
         /\ \A n \in Rows : log[n] \in OpType /\ log[n].lamport \in Nat /\ log[n].site \in Nat /\ log[n].own \in BOOLEAN
<1>1. log \in Seq(OpType)
  BY DEF Types
<1>2. Len(log) \in Nat /\ Rows = 1..Len(log) /\ \A n \in Rows : log[n] \in OpType
  BY <1>1 DEF Rows
<1>3. \A n \in Rows : log[n].lamport \in Nat /\ log[n].site \in Nat /\ log[n].own \in BOOLEAN
  BY <1>2 DEF OpType
<1> QED BY <1>2, <1>3 DEF Coordinates, Rows

\* The numbers of the ops that arrive are bounded: there are finitely many of them.
LEMMA ForeignBounded ==
  ASSUME given \in DOMAIN Settings
  PROVE  \E b \in Nat : \A op \in Foreign : op.site <= b /\ op.lamport <= b
<1> DEFINE S == {op.site : op \in Foreign}
           L == {op.lamport : op \in Foreign}
           f == [op \in Foreign |-> op.site]
           g == [op \in Foreign |-> op.lamport]
<1>1. S \subseteq Nat /\ L \subseteq Nat /\ IsFiniteSet(Foreign)
  BY SettingFacts
<1>2. f \in Surjection(Foreign, S) /\ g \in Surjection(Foreign, L)
  BY DEF Surjection
<1>3. IsFiniteSet(S) /\ IsFiniteSet(L)
  <2> HIDE DEF S, L, f, g
  <2> QED BY <1>1, <1>2, FS_Surjection
<1>4. PICK b \in Nat : \A k \in S : k <= b
  <2> HIDE DEF S
  <2> QED BY <1>1, <1>3, FiniteIsBounded
<1>5. PICK c \in Nat : \A k \in L : k <= c
  <2> HIDE DEF L
  <2> QED BY <1>1, <1>3, FiniteIsBounded
<1>6. \A op \in Foreign : op.site \in Nat /\ op.lamport \in Nat /\ op.site <= b /\ op.lamport <= c
  BY <1>1, <1>4, <1>5
<1>7. \A op \in Foreign : op.site <= b + c /\ op.lamport <= b + c
  BY <1>6
<1> QED BY <1>7

\* So are those of the log.
LEMMA LogBounded ==
  ASSUME Types, Origins, OwnOpsFold
  PROVE  \E b \in Nat : \A n \in Rows : log[n].site <= b /\ log[n].lamport <= b
<1>1. given \in DOMAIN Settings /\ Me \in Nat /\ MaxLamport \in Nat
  BY SettingFacts DEF Types
<1>2. PICK b \in Nat : \A op \in Foreign : op.site <= b /\ op.lamport <= b
  BY <1>1, ForeignBounded
<1>3. \A op \in Foreign : op.site \in Nat /\ op.lamport \in Nat
  BY <1>1, SettingFacts
<1>4. ASSUME NEW n \in Rows
      PROVE  log[n].site <= b + Me + MaxLamport /\ log[n].lamport <= b + Me + MaxLamport
  <2>1. CASE log[n].own
    <3>1. log[n].site = Me /\ log[n].lamport <= MaxLamport /\ log[n].lamport \in Nat
      BY <2>1, LogFacts DEF Origins, OwnOpsFold
    <3> QED BY <3>1, <1>1
  <2>2. CASE ~log[n].own
    <3>1. log[n] \in Foreign
      BY <2>2 DEF Origins
    <3> QED BY <3>1, <1>1, <1>2, <1>3
  <2> QED BY <2>1, <2>2
<1>5. b + Me + MaxLamport \in Nat
  BY <1>1
<1> QED BY <1>4, <1>5

\* high_water_mark is above what this replica minted and above what is within the ceiling, and reaches past the ceiling
\* only with an op of its own.
LEMMA HighWater ==
  ASSUME Types, OwnOpsFold
  PROVE  /\ HighWaterMark \in Nat
         /\ \A n \in Rows : log[n].own \/ log[n].lamport <= Ceiling => log[n].lamport <= HighWaterMark
         /\ ClockBound(HighWaterMark, log)
<1> DEFINE A == {log[n].lamport : n \in {k \in Rows : log[k].lamport <= MaxLamport}}
           B == {log[n].lamport : n \in {k \in Rows : log[k].own /\ log[k].lamport <= MaxLamport}}
           C == {Min2(MaxOf(A), Ceiling), MaxOf(B)}
<1>1. MaxLamport \in Nat /\ Ceiling \in Nat /\ Ceiling < MaxLamport
  BY SettingFacts DEF Types
<1>2. A \subseteq Nat /\ \A k \in A : k <= MaxLamport
  BY LogFacts
<1>3. B \subseteq Nat /\ \A k \in B : k <= MaxLamport
  BY LogFacts
<1>4. \A n \in Rows : log[n].lamport <= Ceiling => log[n].lamport \in A
  BY <1>1, LogFacts
<1>5. \A n \in Rows : log[n].own => log[n].lamport \in B
  BY DEF OwnOpsFold
<1>6. \A k \in B : \E n \in Rows : log[n].own /\ k = log[n].lamport
  OBVIOUS
<1>7. HighWaterMark = MaxOf(C)
  BY DEF HighWaterMark
<1> HIDE DEF A, B
<1>8. /\ MaxOf(A) \in Nat /\ \A k \in A : k <= MaxOf(A)
      /\ MaxOf(A) \in A \/ MaxOf(A) = 0
  BY <1>1, <1>2, MaxOfBounds
<1>9. /\ MaxOf(B) \in Nat /\ \A k \in B : k <= MaxOf(B)
      /\ MaxOf(B) \in B \/ MaxOf(B) = 0
  BY <1>1, <1>3, MaxOfBounds
<1>10. /\ Min2(MaxOf(A), Ceiling) \in Nat /\ Min2(MaxOf(A), Ceiling) <= Ceiling
       /\ \A k \in A : k <= Ceiling => k <= Min2(MaxOf(A), Ceiling)
  BY <1>1, <1>2, <1>8 DEF Min2
<1>11. MaxOf(B) <= MaxLamport
  BY <1>1, <1>3, <1>9
<1>12. C \subseteq Nat /\ \A k \in C : k <= MaxLamport
  BY <1>1, <1>9, <1>10, <1>11
<1>13. Min2(MaxOf(A), Ceiling) \in C /\ MaxOf(B) \in C /\ \A k \in C : k = Min2(MaxOf(A), Ceiling) \/ k = MaxOf(B)
  OBVIOUS
<1> HIDE DEF C
<1>14. /\ MaxOf(C) \in Nat /\ \A k \in C : k <= MaxOf(C)
       /\ MaxOf(C) \in C
  BY <1>1, <1>12, <1>13, MaxOfBounds
<1>15. ASSUME NEW n \in Rows, log[n].own \/ log[n].lamport <= Ceiling PROVE log[n].lamport <= MaxOf(C)
  <2>1. log[n].lamport \in Nat
    BY LogFacts
  <2>2. CASE log[n].own
    <3>1. log[n].lamport <= MaxOf(B) /\ MaxOf(B) <= MaxOf(C)
      BY <2>2, <1>5, <1>9, <1>13, <1>14
    <3> QED BY <3>1, <2>1, <1>9, <1>14
  <2>3. CASE log[n].lamport <= Ceiling
    <3>1. log[n].lamport <= Min2(MaxOf(A), Ceiling) /\ Min2(MaxOf(A), Ceiling) <= MaxOf(C)
      BY <2>3, <1>4, <1>10, <1>13, <1>14
    <3> QED BY <3>1, <2>1, <1>10, <1>14
  <2> QED BY <1>15, <2>2, <2>3
<1>16. ClockBound(MaxOf(C), log)
  <2>1. CASE MaxOf(C) = Min2(MaxOf(A), Ceiling)
    BY <2>1, <1>10 DEF ClockBound
  <2>2. CASE MaxOf(C) = MaxOf(B)
    <3>1. CASE MaxOf(B) = 0
      BY <2>2, <3>1, <1>1 DEF ClockBound
    <3>2. CASE MaxOf(B) \in B
      <4>1. PICK n \in Rows : log[n].own /\ MaxOf(B) = log[n].lamport
        BY <3>2, <1>6
      <4>2. MaxOf(C) <= log[n].lamport
        BY <2>2, <4>1, <1>9
      <4> QED BY <4>1, <4>2 DEF ClockBound, Rows
    <3> QED BY <3>1, <3>2, <1>9
  <2> QED BY <2>1, <2>2, <1>13, <1>14
<1> QED BY <1>7, <1>14, <1>15, <1>16

-----------------------------------------------------------------------------
(* A mint.                                                                 *)

\* The coordinate build_and_ingest mints at.
Coordinate(p) ==
  IF Taken(RefreshClock(p) + 1, Me) THEN FirstFree(RefreshClock(p) + 1) ELSE RefreshClock(p) + 1

\* The clock a mint starts from is above what the replica minted and what is within the ceiling, and every coordinate of
\* its site between the ceiling and that clock is taken.
LEMMA ClockIsHigh ==
  ASSUME Types, MintInv, NEW p \in Proc
  PROVE  /\ RefreshClock(p) \in Nat
         /\ \A n \in Rows : log[n].own \/ log[n].lamport <= Ceiling => log[n].lamport <= RefreshClock(p)
         /\ \A x \in (Ceiling + 1)..RefreshClock(p) : Taken(x, Me)
<1>1. /\ HighWaterMark \in Nat
      /\ \A n \in Rows : log[n].own \/ log[n].lamport <= Ceiling => log[n].lamport <= HighWaterMark
      /\ ClockBound(HighWaterMark, log)
  BY HighWater DEF MintInv
<1>2. proc[p].clock \in Nat /\ ClockBound(proc[p].clock, log)
  BY DEF Types, ProcType, MintInv, Clocks
<1>3. /\ RefreshClock(p) \in Nat /\ HighWaterMark <= RefreshClock(p)
      /\ ClockBound(RefreshClock(p), log)
  BY <1>1, <1>2 DEF RefreshClock
<1>4. Ceiling \in Nat
  BY SettingFacts DEF Types
<1>5. ASSUME NEW n \in Rows, log[n].own \/ log[n].lamport <= Ceiling PROVE log[n].lamport <= RefreshClock(p)
  <2>1. log[n].lamport \in Nat /\ log[n].lamport <= HighWaterMark
    BY <1>1, <1>5, LogFacts
  <2> QED BY <2>1, <1>1, <1>3
<1>6. ASSUME NEW x \in (Ceiling + 1)..RefreshClock(p) PROVE Taken(x, Me)
  <2>1. ~(RefreshClock(p) <= Ceiling)
    BY <1>3, <1>4
  <2>2. PICK n \in Rows : log[n].own /\ RefreshClock(p) <= log[n].lamport
    BY <2>1, <1>3 DEF ClockBound, Rows
  <2>3. x \in (Ceiling + 1)..log[n].lamport
    BY <2>2, <1>3, <1>4, LogFacts
  <2> QED BY <2>2, <2>3 DEF MintInv, Filled
<1> QED BY <1>3, <1>5, <1>6

\* first_free_coordinate of a taken coordinate: the next one after a run without a gap.
LEMMA FirstFreeIsFree ==
  ASSUME Types, MintInv, NEW c \in Nat, Taken(c, Me)
  PROVE  /\ FirstFree(c) \in Nat /\ FirstFree(c) > c
         /\ ~Taken(FirstFree(c), Me)
         /\ \A x \in c..(FirstFree(c) - 1) : Taken(x, Me)
<1> DEFINE ends == {log[n].lamport : n \in {k \in Rows : /\ log[k].site = Me /\ log[k].lamport >= c
                                                        /\ ~Taken(log[k].lamport + 1, Me)}}
           Mine == {log[n].lamport : n \in {k \in Rows : log[k].site = Me /\ log[k].lamport >= c}}
           e == CHOOSE n \in ends : \A k \in ends : n <= k
<1>1. \A x \in Nat : x >= c => (Taken(x, Me) <=> x \in Mine)
  BY LogFacts DEF Taken
<1>2. \A x \in Nat : x \in ends <=> x \in Mine /\ ~Taken(x + 1, Me)
  BY LogFacts
<1>3. ends \subseteq Nat /\ Mine \subseteq Nat /\ ends \subseteq Mine /\ \A x \in Mine : x >= c
  BY LogFacts
<1>4. FirstFree(c) = e + 1
  BY DEF FirstFree
<1>5. PICK b \in Nat : \A x \in Mine : x <= b
  <2>1. PICK b \in Nat : \A n \in Rows : log[n].site <= b /\ log[n].lamport <= b
    BY LogBounded DEF MintInv
  <2>2. \A x \in Mine : x <= b
    BY <2>1
  <2> QED BY <2>2
<1>6. c \in Mine
  BY <1>1
<1> HIDE DEF ends, Mine
<1>7. PICK top \in Mine : \A x \in Mine : x <= top
  BY <1>3, <1>5, <1>6, GreatestExists
<1>8. top \in ends
  <2>1. top + 1 \notin Mine /\ top \in Nat /\ top >= c
    BY <1>3, <1>7
  <2>2. ~Taken(top + 1, Me)
    BY <2>1, <1>1
  <2> QED BY <2>1, <2>2, <1>2, <1>7
<1>9. e \in ends /\ \A k \in ends : e <= k
  BY <1>3, <1>8, LeastExists
<1> HIDE DEF e
<1>10. e \in Nat /\ e >= c /\ ~Taken(e + 1, Me)
  BY <1>2, <1>3, <1>9
<1>11. ASSUME NEW y \in c..e, ~Taken(y, Me) PROVE FALSE
  <2> DEFINE Gaps == {x \in c..e : ~Taken(x, Me)}
  <2>1. Gaps \subseteq Nat /\ Gaps # {}
    BY <1>10, <1>11
  <2>2. PICK g \in Gaps : \A k \in Gaps : g <= k
    <3> HIDE DEF Gaps
    <3> QED BY <2>1, LeastExists
  <2>3. g \in Nat /\ g > c /\ g <= e /\ ~Taken(g, Me)
    BY <1>10, <2>2
  <2>4. g - 1 \in c..e /\ g - 1 \notin Gaps
    BY <1>10, <2>2, <2>3
  <2>5. Taken(g - 1, Me)
    BY <2>4
  <2>6. g - 1 \in Mine /\ (g - 1) + 1 = g
    BY <1>1, <2>3, <2>4, <2>5
  <2>7. g - 1 \in ends
    BY <1>2, <2>3, <2>4, <2>6
  <2> QED BY <1>9, <1>10, <2>3, <2>7
<1>12. \A x \in c..e : Taken(x, Me)
  BY <1>11
<1> QED BY <1>4, <1>10, <1>12

\* The coordinate of a mint is free, above what the replica minted and what is within the ceiling, and leaves no gap.
LEMMA CoordinateIsFree ==
  ASSUME Types, MintInv, NEW p \in Proc
  PROVE  /\ Coordinate(p) \in Nat
         /\ ~Taken(Coordinate(p), Me)
         /\ \A n \in Rows : log[n].own \/ log[n].lamport <= Ceiling => log[n].lamport < Coordinate(p)
         /\ \A x \in (Ceiling + 1)..(Coordinate(p) - 1) : Taken(x, Me)
<1> DEFINE c == RefreshClock(p)
<1>1. /\ c \in Nat
      /\ \A n \in Rows : log[n].own \/ log[n].lamport <= Ceiling => log[n].lamport <= c
      /\ \A x \in (Ceiling + 1)..c : Taken(x, Me)
  BY ClockIsHigh
<1>2. /\ Coordinate(p) \in Nat /\ Coordinate(p) > c /\ ~Taken(Coordinate(p), Me)
      /\ \A x \in (c + 1)..(Coordinate(p) - 1) : Taken(x, Me)
  <2>1. CASE Taken(c + 1, Me)
    BY <2>1, <1>1, FirstFreeIsFree DEF Coordinate
  <2>2. CASE ~Taken(c + 1, Me)
    BY <2>2, <1>1 DEF Coordinate
  <2> QED BY <2>1, <2>2
<1> HIDE DEF c
<1>3. \A n \in Rows : log[n].own \/ log[n].lamport <= Ceiling => log[n].lamport < Coordinate(p)
  BY <1>1, <1>2, LogFacts
<1>4. Ceiling \in Nat
  BY SettingFacts DEF Types
<1>5. \A x \in (Ceiling + 1)..(Coordinate(p) - 1) : x \in (Ceiling + 1)..c \/ x \in (c + 1)..(Coordinate(p) - 1)
  BY <1>1, <1>2, <1>4
<1> QED BY <1>1, <1>2, <1>3, <1>5

\* And it is within the bound of what folds: from the ceiling to it every coordinate is one the replica minted or one of
\* the ops that squat on its site, and the reserve is larger than both together.
LEMMA CoordinateFolds ==
  ASSUME Types, MintInv, NEW p \in Proc, minted < MaxOwn
  PROVE  Coordinate(p) <= MaxLamport
<1> DEFINE I == (Ceiling + 1)..(Coordinate(p) - 1)
           Squat == {op \in Foreign : op.site = Me}
           Squatted == {op.lamport : op \in Squat}
           f == [op \in Squat |-> op.lamport]
<1>1. /\ Coordinate(p) \in Nat
      /\ \A x \in I : Taken(x, Me)
  BY CoordinateIsFree
<1>2. MaxOwn \in Nat /\ Ceiling \in Nat /\ MaxLamport \in Nat /\ IsFiniteSet(Foreign) /\ minted \in Nat
  BY SettingFacts DEF Types
<1>3. Ceiling + MaxOwn + Cardinality(Squat) <= MaxLamport
  BY ReserveAssumption DEF Types, MaxOwn, Foreign
<1>4. IsFiniteSet(Squat)
  BY <1>2, FS_Subset
<1>5. f \in Surjection(Squat, Squatted)
  BY DEF Surjection
<1>6. I \subseteq OwnLamports \cup Squatted
  <2> SUFFICES ASSUME NEW x \in I PROVE x \in OwnLamports \cup Squatted
    OBVIOUS
  <2>1. PICK n \in Rows : log[n].lamport = x /\ log[n].site = Me
    BY <1>1 DEF Taken
  <2>2. CASE log[n].own
    BY <2>1, <2>2 DEF OwnLamports
  <2>3. CASE ~log[n].own
    <3>1. log[n] \in Foreign
      BY <2>3 DEF MintInv, Origins
    <3> QED BY <2>1, <3>1
  <2> QED BY <2>2, <2>3
<1>7. IsFiniteSet(I) /\ Cardinality(I) = IF Ceiling + 1 > Coordinate(p) - 1 THEN 0 ELSE Coordinate(p) - 1 - (Ceiling + 1) + 1
  <2>1. Ceiling + 1 \in Int /\ Coordinate(p) - 1 \in Int
    BY <1>1, <1>2
  <2>2. \A a, c \in Int : IsFiniteSet(a..c) /\ Cardinality(a..c) = IF a > c THEN 0 ELSE c - a + 1
    BY FS_Interval
  <2> QED BY <2>1, <2>2
<1>8. IsFiniteSet(OwnLamports) /\ Cardinality(OwnLamports) <= minted
  BY DEF MintInv, Counted
<1> HIDE DEF I, Squat, Squatted, f
<1>9. IsFiniteSet(Squatted) /\ Cardinality(Squatted) <= Cardinality(Squat)
  BY <1>4, <1>5, FS_Surjection
<1>10. /\ IsFiniteSet(OwnLamports \cup Squatted)
       /\ Cardinality(OwnLamports \cup Squatted) <= Cardinality(OwnLamports) + Cardinality(Squatted)
  <2>1. IsFiniteSet(OwnLamports \cap Squatted)
    BY <1>9, FS_Subset
  <2>2. /\ Cardinality(OwnLamports \cap Squatted) \in Nat
        /\ Cardinality(OwnLamports) \in Nat /\ Cardinality(Squatted) \in Nat
    BY <2>1, <1>8, <1>9, FS_CardinalityType
  <2>3. /\ IsFiniteSet(OwnLamports \cup Squatted)
        /\ Cardinality(OwnLamports \cup Squatted)
             = Cardinality(OwnLamports) + Cardinality(Squatted) - Cardinality(OwnLamports \cap Squatted)
    BY <1>8, <1>9, FS_Union
  <2> QED BY <2>2, <2>3
<1>11. Cardinality(I) <= Cardinality(OwnLamports \cup Squatted)
  BY <1>6, <1>10, FS_Subset
<1>12. /\ Cardinality(Squat) \in Nat /\ Cardinality(Squatted) \in Nat /\ Cardinality(OwnLamports) \in Nat
       /\ Cardinality(OwnLamports \cup Squatted) \in Nat /\ Cardinality(I) \in Nat
  BY <1>4, <1>7, <1>8, <1>9, <1>10, FS_CardinalityType
<1>13. Cardinality(I) <= minted + Cardinality(Squat)
  BY <1>2, <1>8, <1>9, <1>10, <1>11, <1>12
<1>14. CASE Ceiling + 1 > Coordinate(p) - 1
  BY <1>14, <1>1, <1>2, <1>3, <1>12
<1>15. CASE ~(Ceiling + 1 > Coordinate(p) - 1)
  <2>1. Coordinate(p) - 1 - (Ceiling + 1) + 1 <= minted + Cardinality(Squat)
    BY <1>7, <1>13, <1>15
  <2> QED BY <2>1, <1>1, <1>2, <1>3, <1>12
<1> QED BY <1>14, <1>15

-----------------------------------------------------------------------------
(* Steps and the mints' part of the invariant.                             *)

\* No step changes the setting.
LEMMA SameSetting ==
  ASSUME given' = given
  PROVE  /\ Proc' = Proc /\ Product' = Product /\ Foldable' = Foldable /\ Foreign' = Foreign /\ Old' = Old
         /\ MaxOwn' = MaxOwn /\ OpType' = OpType /\ SameRevision' = SameRevision
         /\ \A p : Shapes(p)' = Shapes(p)
BY DEF Proc, Product, Foldable, Foreign, Old, MaxOwn, OpType, SameRevision, Shapes

\* A row more at the end of the log.
LEMMA AppendRow ==
  ASSUME Types, NEW op \in OpType, log' = Append(log, op)
  PROVE  /\ log' \in Seq(OpType) /\ Len(log') = Len(log) + 1 /\ Rows' = 1..(Len(log) + 1) /\ Rows = 1..Len(log)
         /\ Len(log) \in Nat /\ \A n \in Rows : n \in Rows' /\ log'[n] = log[n]
         /\ Len(log) + 1 \in Rows' /\ Len(log) + 1 \notin Rows /\ log'[Len(log) + 1] = op
         /\ \A n \in Rows' : n \in Rows \/ n = Len(log) + 1
<1>1. log \in Seq(OpType)
  BY DEF Types
<1>2. log' \in Seq(OpType) /\ Len(log') = Len(log) + 1 /\ Len(log) \in Nat /\ log'[Len(log) + 1] = op
      /\ \A n \in 1..Len(log) : log'[n] = log[n]
  BY <1>1
<1>3. Rows = 1..Len(log) /\ Rows' = 1..(Len(log) + 1)
  BY <1>1, <1>2 DEF Rows
<1> QED BY <1>2, <1>3

\* A step that writes no op keeps every mint sound when the clocks stay within what the log justifies.
LEMMA MintsRest ==
  ASSUME Types, MintInv, given' = given, log' = log, minted' = minted, panicked' = panicked,
         \A p \in Proc : proc'[p].clock = proc[p].clock \/ ClockBound(proc'[p].clock, log)
  PROVE  MintInv'
<1>1. Foreign' = Foreign /\ Proc' = Proc
  BY SameSetting
<1>2. Origins' /\ Counted' /\ OwnOpsClimb' /\ OwnCoordinates' /\ NeverPanics' /\ OwnOpsFold'
  BY <1>1 DEF MintInv, Origins, Counted, OwnLamports, OwnOpsClimb, OwnCoordinates, NeverPanics, OwnOpsFold, Rows
<1>3. Filled'
  BY DEF MintInv, Filled, Taken, Rows
<1>4. Clocks'
  <2>1. \A p \in Proc : ClockBound(proc'[p].clock, log')
    BY DEF MintInv, Clocks
  <2> QED BY <1>1, <2>1 DEF Clocks
<1> QED BY <1>2, <1>3, <1>4 DEF MintInv

\* What was taken stays taken, and clocks stay justified.
LEMMA AppendKeepsTaken ==
  ASSUME Types, NEW op \in OpType, log' = Append(log, op)
  PROVE  /\ \A x, s : Taken(x, s) => Taken(x, s)'
         /\ Taken(op.lamport, op.site)'
         /\ \A c : ClockBound(c, log) => ClockBound(c, log')
<1>1. /\ \A n \in Rows : n \in Rows' /\ log'[n] = log[n]
      /\ Len(log) + 1 \in Rows' /\ log'[Len(log) + 1] = op
  BY AppendRow
<1>2. \A x, s : Taken(x, s) => Taken(x, s)'
  BY <1>1 DEF Taken
<1>3. Taken(op.lamport, op.site)'
  BY <1>1 DEF Taken
<1>4. \A c : ClockBound(c, log) => ClockBound(c, log')
  BY <1>1 DEF ClockBound, Rows
<1> QED BY <1>2, <1>3, <1>4

\* Taking in an op of another replica that holds no coordinate of this one's keeps every mint sound.
LEMMA MintsSurviveReceiving ==
  ASSUME Types, MintInv, given' = given, NEW op \in Foreign, ~Refused(op), log' = Append(log, op), minted' = minted,
         panicked' = panicked,
         \A p \in Proc : proc'[p].clock = proc[p].clock \/ ClockBound(proc'[p].clock, log)
  PROVE  MintInv'
<1>1. op \in OpType /\ ~op.own
  BY ForeignType DEF Types
<1>2. Foreign' = Foreign /\ Proc' = Proc
  BY SameSetting
<1> DEFINE last == Len(log) + 1
<1>3. /\ Rows = 1..Len(log) /\ Len(log) \in Nat /\ \A n \in Rows : n \in Rows' /\ log'[n] = log[n]
      /\ last \in Rows' /\ last \notin Rows /\ log'[last] = op
      /\ \A n \in Rows' : n \in Rows \/ n = last
  BY <1>1, AppendRow
<1>4. \A n \in Rows : n < last
  BY <1>3
<1> HIDE DEF last
<1>5. Origins'
  BY <1>1, <1>2, <1>3 DEF MintInv, Origins
<1>6. Counted'
  <2>1. OwnLamports' = OwnLamports
    BY <1>1, <1>3 DEF OwnLamports
  <2> QED BY <2>1 DEF MintInv, Counted
<1>7. Filled'
  <2> SUFFICES ASSUME NEW n \in Rows', log'[n].own, NEW x \in (Ceiling + 1)..log'[n].lamport
               PROVE  Taken(x, Me)'
    BY DEF Filled
  <2>1. n \in Rows /\ log[n].own /\ x \in (Ceiling + 1)..log[n].lamport
    BY <1>1, <1>3
  <2> QED BY <2>1, <1>1, AppendKeepsTaken DEF MintInv, Filled
<1>8. Clocks'
  <2>1. \A p \in Proc : ClockBound(proc'[p].clock, log)
    BY DEF MintInv, Clocks
  <2> QED BY <1>1, <1>2, <2>1, AppendKeepsTaken DEF Clocks
<1>9. OwnOpsClimb'
  <2> SUFFICES ASSUME NEW n \in Rows', NEW k \in Rows', log'[n].own, k < n, log'[k].own \/ log'[k].lamport <= Ceiling
               PROVE  log'[k].lamport < log'[n].lamport
    BY DEF OwnOpsClimb
  <2>1. n \in Rows /\ log'[n] = log[n]
    BY <1>1, <1>3
  <2>2. k \in Rows /\ log'[k] = log[k]
    BY <2>1, <1>3, <1>4
  <2> QED BY <2>1, <2>2 DEF MintInv, OwnOpsClimb
<1>10. OwnCoordinates'
  <2> SUFFICES ASSUME NEW n \in Rows', NEW k \in Rows', log'[n].own, k # n
               PROVE  log'[k].lamport # log'[n].lamport \/ log'[k].site # log'[n].site
    BY DEF OwnCoordinates
  <2>1. n \in Rows /\ log'[n] = log[n]
    BY <1>1, <1>3
  <2>2. CASE k \in Rows
    BY <2>1, <2>2, <1>3 DEF MintInv, OwnCoordinates
  <2>3. CASE k = last
    BY <2>1, <2>3, <1>3 DEF Refused
  <2> QED BY <2>2, <2>3, <1>3
<1>11. OwnOpsFold' /\ NeverPanics'
  BY <1>1, <1>3 DEF MintInv, OwnOpsFold, NeverPanics
<1> QED BY <1>5, <1>6, <1>7, <1>8, <1>9, <1>10, <1>11 DEF MintInv

\* A mint keeps every mint sound.
LEMMA MintsSurviveMinting ==
  ASSUME Types, MintInv, given' = given, NEW p \in Proc, minted < MaxOwn, NEW op \in OpType,
         op.lamport = Coordinate(p), op.site = Me, op.own, log' = Append(log, op), minted' = minted + 1,
         panicked' = panicked,
         \A q \in Proc : proc'[q].clock = IF q = p THEN op.lamport ELSE proc[q].clock
  PROVE  MintInv'
<1>1. Foreign' = Foreign /\ Proc' = Proc
  BY SameSetting
<1> DEFINE last == Len(log) + 1
<1>2. /\ Rows = 1..Len(log) /\ Len(log) \in Nat /\ \A n \in Rows : n \in Rows' /\ log'[n] = log[n]
      /\ last \in Rows' /\ last \notin Rows /\ log'[last] = op
      /\ \A n \in Rows' : n \in Rows \/ n = last
  BY AppendRow
<1>3. last \in Nat /\ \A n \in Rows : n < last /\ ~(last < n)
  BY <1>2
<1>4. /\ op.lamport \in Nat
      /\ ~Taken(op.lamport, Me)
      /\ \A n \in Rows : log[n].own \/ log[n].lamport <= Ceiling => log[n].lamport < op.lamport
      /\ \A x \in (Ceiling + 1)..(op.lamport - 1) : Taken(x, Me)
  BY CoordinateIsFree
<1>5. op.lamport <= MaxLamport
  BY CoordinateFolds
<1> HIDE DEF last
<1>6. Origins'
  BY <1>1, <1>2 DEF MintInv, Origins
<1>7. Counted'
  <2>1. OwnLamports' = OwnLamports \cup {op.lamport}
    <3>1. ASSUME NEW x \in OwnLamports' PROVE x \in OwnLamports \cup {op.lamport}
      <4>1. PICK n \in Rows' : log'[n].own /\ x = log'[n].lamport
        BY <3>1 DEF OwnLamports
      <4>2. CASE n \in Rows
        BY <4>1, <4>2, <1>2 DEF OwnLamports
      <4>3. CASE n = last
        BY <4>1, <4>3, <1>2
      <4> QED BY <4>2, <4>3, <1>2
    <3>2. ASSUME NEW x \in OwnLamports PROVE x \in OwnLamports'
      <4>1. PICK n \in Rows : log[n].own /\ x = log[n].lamport
        BY <3>2 DEF OwnLamports
      <4>2. n \in Rows' /\ log'[n] = log[n]
        BY <1>2
      <4> QED BY <4>1, <4>2 DEF OwnLamports
    <3>3. op.lamport \in OwnLamports'
      BY <1>2 DEF OwnLamports
    <3> QED BY <3>1, <3>2, <3>3
  <2>2. /\ IsFiniteSet(OwnLamports) /\ Cardinality(OwnLamports) <= minted
        /\ minted \in Nat /\ Cardinality(OwnLamports) \in Nat
    BY FS_CardinalityType, SettingFacts DEF MintInv, Counted, Types
  <2>3. /\ IsFiniteSet(OwnLamports \cup {op.lamport})
        /\ Cardinality(OwnLamports \cup {op.lamport}) =
             IF op.lamport \in OwnLamports THEN Cardinality(OwnLamports) ELSE Cardinality(OwnLamports) + 1
    BY <2>2, FS_AddElement
  <2>4. Cardinality(OwnLamports \cup {op.lamport}) <= minted + 1
    BY <2>2, <2>3
  <2> QED BY <2>1, <2>3, <2>4 DEF Counted
<1>8. Filled'
  <2> SUFFICES ASSUME NEW n \in Rows', log'[n].own, NEW x \in (Ceiling + 1)..log'[n].lamport
               PROVE  Taken(x, Me)'
    BY DEF Filled
  <2>1. CASE n \in Rows
    BY <2>1, <1>2, AppendKeepsTaken DEF MintInv, Filled
  <2>2. CASE n = last
    <3>1. Ceiling \in Nat
      BY SettingFacts DEF Types
    <3>2. x = op.lamport \/ x \in (Ceiling + 1)..(op.lamport - 1)
      BY <2>2, <3>1, <1>2, <1>4
    <3>3. Taken(op.lamport, Me)'
      BY AppendKeepsTaken
    <3> QED BY <3>2, <3>3, <1>4, AppendKeepsTaken
  <2> QED BY <2>1, <2>2, <1>2
<1>9. Clocks'
  <2>1. \A q \in Proc : ClockBound(proc[q].clock, log')
    BY AppendKeepsTaken DEF MintInv, Clocks
  <2>2. ClockBound(op.lamport, log')
    BY <1>2, <1>4 DEF ClockBound, Rows
  <2> QED BY <1>1, <2>1, <2>2 DEF Clocks
<1>10. OwnOpsClimb'
  <2> SUFFICES ASSUME NEW n \in Rows', NEW k \in Rows', log'[n].own, k < n, log'[k].own \/ log'[k].lamport <= Ceiling
               PROVE  log'[k].lamport < log'[n].lamport
    BY DEF OwnOpsClimb
  <2>1. CASE n \in Rows
    BY <2>1, <1>2, <1>3 DEF MintInv, OwnOpsClimb
  <2>2. CASE n = last
    <3>1. k \in Rows
      BY <2>2, <1>2, <1>3
    <3> QED BY <2>2, <3>1, <1>2, <1>4
  <2> QED BY <2>1, <2>2, <1>2
<1>11. OwnCoordinates'
  <2> SUFFICES ASSUME NEW n \in Rows', NEW k \in Rows', log'[n].own, k # n
               PROVE  log'[k].lamport # log'[n].lamport \/ log'[k].site # log'[n].site
    BY DEF OwnCoordinates
  <2>1. \A j \in Rows : log[j].lamport # op.lamport \/ log[j].site # Me
    BY <1>4 DEF Taken
  <2>2. CASE n \in Rows /\ k \in Rows
    BY <2>2, <1>2 DEF MintInv, OwnCoordinates
  <2>3. CASE n \in Rows /\ k = last
    BY <2>1, <2>3, <1>2 DEF MintInv, Origins
  <2>4. CASE n = last /\ k \in Rows
    BY <2>1, <2>4, <1>2
  <2> QED BY <2>2, <2>3, <2>4, <1>2
<1>12. OwnOpsFold' /\ NeverPanics'
  BY <1>2, <1>5 DEF MintInv, OwnOpsFold, NeverPanics
<1> QED BY <1>6, <1>7, <1>8, <1>9, <1>10, <1>11, <1>12 DEF MintInv

-----------------------------------------------------------------------------
(* Types, action by action.                                                *)

\* The watermark after one op: folded_through moves to it, the revision's mark only from the row before.
LEMMA MarkAfterFacts ==
  ASSUME Types, NEW p
  PROVE  /\ MarkAfter(p, Len(log) + 1) \in [through : 0..(Len(log) + 1), rev : Nat, revThrough : 0..(Len(log) + 1)]
         /\ MarkAfter(p, Len(log) + 1).through = Len(log) + 1
         /\ MarkAfter(p, Len(log) + 1).rev = mark.rev
         /\ MarkAfter(p, Len(log) + 1).revThrough =
              IF mark.rev = Revision[p] /\ mark.revThrough = Len(log) THEN Len(log) + 1 ELSE mark.revThrough
<1> DEFINE n == Len(log) + 1
           t == IF n > mark.through THEN n ELSE mark.through
           r == IF mark.rev = Revision[p] /\ mark.revThrough >= n - 1 /\ n > mark.revThrough THEN n ELSE mark.revThrough
           s == IF mark.rev = Revision[p] /\ mark.revThrough = Len(log) THEN n ELSE mark.revThrough
<1>1. MarkAfter(p, n) = [mark EXCEPT !.through = t, !.revThrough = r]
  BY DEF MarkAfter
<1>2. /\ mark \in [through : 0..Len(log), rev : Nat, revThrough : 0..Len(log)] /\ Len(log) \in Nat
  BY LogFacts DEF Types
<1>3. t = n /\ r = s
  <2>1. mark.through \in 0..Len(log) /\ mark.revThrough \in 0..Len(log)
    BY <1>2
  <2>2. n > mark.through /\ n > mark.revThrough /\ (mark.revThrough >= n - 1 <=> mark.revThrough = Len(log))
    BY <2>1, <1>2
  <2> QED BY <2>2, Zenon
<1>4. s \in 0..n /\ n \in 0..n /\ mark.rev \in Nat
  BY <1>2
<1> HIDE DEF n, t, r, s
<1> DEFINE m == [mark EXCEPT !.through = n, !.revThrough = s]
<1>5. m \in [through : 0..n, rev : Nat, revThrough : 0..n] /\ m.through = n /\ m.rev = mark.rev /\ m.revThrough = s
  BY <1>2, <1>4
<1> HIDE DEF m
<1>6. MarkAfter(p, n) = m
  BY <1>1, <1>3 DEF m
<1> QED BY <1>5, <1>6 DEF n, s

\* A row goes in.
LEMMA InsertTypes ==
  ASSUME Types, MintInv, given' = given, NEW p \in Proc, NEW op \in OpType, Insert(p, op),
         unique' \in BOOLEAN, schema' = schema, panicked' = panicked, minted' \in 0..MaxOwn,
         proc' \in [Proc -> ProcType],
         \A q \in Proc : proc'[q].boundary = proc[q].boundary /\ proc'[q].pc = proc[q].pc
  PROVE  Types'
<1>1. Proc' = Proc /\ Product' = Product /\ OpType' = OpType /\ MaxOwn' = MaxOwn
  BY SameSetting
<1>2. log' = Append(log, op)
  BY DEF Insert
<1>3. /\ log' \in Seq(OpType) /\ Len(log') = Len(log) + 1 /\ Len(log) \in Nat
  BY <1>2, AppendRow
<1>4. view' \in 0..(Len(log) + 1)
  <2>1. view \in 0..Len(log)
    BY DEF Types
  <2>2. view' = view \/ view' = FoldOne(Shapes(p), log', view, Len(log) + 1)
    BY DEF Insert
  <2>3. FoldOne(Shapes(p), log', view, Len(log) + 1) \in {view, Len(log) + 1}
    BY DEF FoldOne
  <2> QED BY <2>1, <2>2, <2>3, <1>3
<1>5. mark' \in [through : 0..(Len(log) + 1), rev : Nat, revThrough : 0..(Len(log) + 1)]
  <2>1. mark \in [through : 0..Len(log), rev : Nat, revThrough : 0..Len(log)]
    BY DEF Types
  <2>2. mark' = mark \/ mark' = MarkAfter(p, Len(log) + 1)
    BY DEF Insert
  <2>3. MarkAfter(p, Len(log) + 1) \in [through : 0..(Len(log) + 1), rev : Nat, revThrough : 0..(Len(log) + 1)]
    BY MarkAfterFacts
  <2>4. mark \in [through : 0..(Len(log) + 1), rev : Nat, revThrough : 0..(Len(log) + 1)]
    BY <2>1, <1>3
  <2> QED BY <2>2, <2>3, <2>4
<1>6. \A q \in Proc : proc'[q].boundary <= Len(log) + 1 /\ (q \notin Product => proc'[q].pc \in {"closed", "open"})
  <2>1. \A q \in Proc : proc[q].boundary \in Nat /\ proc[q].boundary <= Len(log)
                        /\ (q \notin Product => proc[q].pc \in {"closed", "open"})
    BY DEF Types, ProcType
  <2> QED BY <2>1, <1>3
<1> QED BY <1>1, <1>3, <1>4, <1>5, <1>6 DEF Types

\* No row goes in.
LEMMA RestTypes ==
  ASSUME Types, given' = given, log' = log, unique' \in BOOLEAN, schema' \in BOOLEAN, panicked' \in BOOLEAN,
         minted' = minted, view' \in 0..Len(log),
         mark' \in [through : 0..Len(log), rev : Nat, revThrough : 0..Len(log)],
         proc' \in [Proc -> ProcType],
         \A q \in Proc : proc'[q].boundary <= Len(log) /\ (q \notin Product => proc'[q].pc \in {"closed", "open"})
  PROVE  Types'
<1>1. Proc' = Proc /\ Product' = Product /\ OpType' = OpType /\ MaxOwn' = MaxOwn
  BY SameSetting
<1> QED BY <1>1 DEF Types

\* What a mint writes.
Minted(p, shape) ==
  [id |-> <<Me, minted>>, lamport |-> Coordinate(p), site |-> Me, shape |-> shape, own |-> TRUE]

\* build_and_ingest never finds the second coordinate taken, so it writes the op.
LEMMA EmitStep ==
  ASSUME Types, MintInv, NEW p \in Proc, NEW shape \in UNION {Foldable[r] : r \in DOMAIN Foldable}, Emit(p, shape)
  PROVE  /\ p \in Product /\ proc[p].pc = "open" /\ minted < MaxOwn
         /\ Minted(p, shape) \in OpType
         /\ Insert(p, Minted(p, shape))
         /\ minted' = minted + 1 /\ minted' \in 0..MaxOwn
         /\ proc' = [proc EXCEPT ![p].clock = Coordinate(p)]
         /\ panicked' = panicked /\ unique' = unique /\ schema' = schema /\ given' = given
<1>1. Coordinate(p) \in Nat /\ ~Taken(Coordinate(p), Me)
  BY CoordinateIsFree
<1>2. /\ proc[p].pc = "open" /\ minted < MaxOwn /\ p \in Product
      /\ unique' = unique /\ schema' = schema /\ given' = given
  BY DEF Emit
<1>3. /\ Insert(p, Minted(p, shape)) /\ minted' = minted + 1
      /\ proc' = [proc EXCEPT ![p].clock = Coordinate(p)] /\ panicked' = panicked
  BY <1>1 DEF Emit, Coordinate, Minted
<1>4. minted \in 0..MaxOwn /\ MaxOwn \in Nat /\ Me \in Nat
  BY SettingFacts DEF Types
<1>5. Minted(p, shape) \in OpType
  <2>1. <<Me, minted>> \in {Me} \X (0..MaxOwn)
    BY <1>4
  <2>2. <<Me, minted>> \in {op.id : op \in Foreign} \cup ({Me} \X (0..MaxOwn))
    BY <2>1, Zenon
  <2>3. shape \in (UNION {Foldable[r] : r \in DOMAIN Foldable}) \cup {op.shape : op \in Foreign}
    BY Zenon
  <2> QED BY <1>1, <1>4, <2>2, <2>3 DEF Minted, OpType
<1>6. minted' \in 0..MaxOwn
  BY <1>2, <1>3, <1>4
<1> QED BY <1>2, <1>3, <1>5, <1>6

\* A mint keeps the types and the mints' invariant.
LEMMA EmitKeeps ==
  ASSUME Types, MintInv, NEW p \in Proc, NEW shape \in UNION {Foldable[r] : r \in DOMAIN Foldable}, Emit(p, shape)
  PROVE  Types' /\ MintInv'
<1> DEFINE op == Minted(p, shape)
<1>1. /\ minted < MaxOwn /\ op \in OpType /\ Insert(p, op) /\ minted' = minted + 1 /\ minted' \in 0..MaxOwn
      /\ proc' = [proc EXCEPT ![p].clock = Coordinate(p)]
      /\ panicked' = panicked /\ unique' = unique /\ schema' = schema /\ given' = given
  BY EmitStep
<1>2. op.lamport = Coordinate(p) /\ op.site = Me /\ op.own
  BY DEF Minted
<1>3. proc \in [Proc -> ProcType] /\ Coordinate(p) \in Nat /\ unique \in BOOLEAN
  BY CoordinateIsFree DEF Types
<1>4. /\ proc' \in [Proc -> ProcType]
      /\ \A q \in Proc : proc'[q].clock = IF q = p THEN Coordinate(p) ELSE proc[q].clock
      /\ \A q \in Proc : proc'[q].boundary = proc[q].boundary /\ proc'[q].pc = proc[q].pc
  BY <1>1, <1>3 DEF ProcType
<1> HIDE DEF op
<1>5. Types'
  BY <1>1, <1>3, <1>4, InsertTypes
<1>6. log' = Append(log, op)
  BY <1>1 DEF Insert
<1>7. MintInv'
  BY <1>1, <1>2, <1>4, <1>6, MintsSurviveMinting
<1> QED BY <1>5, <1>7

\* A received op keeps the types and the mints' invariant: the clock follows it only to the ceiling.
LEMMA ApplyKeeps ==
  ASSUME Types, MintInv, NEW p \in Proc, NEW op \in Foreign, Apply(p, op)
  PROVE  Types' /\ MintInv'
<1> DEFINE c == Observed(proc[p].clock, op)
<1>1. /\ op \in OpType /\ ~op.own /\ op.lamport \in Nat /\ Ceiling \in Nat
  BY ForeignType, SettingFacts DEF Types
<1>2. proc \in [Proc -> ProcType] /\ proc[p].clock \in Nat /\ unique \in BOOLEAN /\ schema \in BOOLEAN
      /\ panicked \in BOOLEAN /\ minted \in 0..MaxOwn
  BY DEF Types, ProcType
<1>3. c \in Nat /\ (c = proc[p].clock \/ c <= Ceiling)
  BY <1>1, <1>2 DEF Observed, Min2
<1>4. proc' = [proc EXCEPT ![p].clock = c] /\ schema' = schema /\ minted' = minted /\ panicked' = panicked /\ given' = given
  BY DEF Apply
<1> HIDE DEF c
<1>5. /\ proc' \in [Proc -> ProcType]
      /\ \A q \in Proc : proc'[q].clock = IF q = p THEN c ELSE proc[q].clock
      /\ \A q \in Proc : proc'[q].boundary = proc[q].boundary /\ proc'[q].pc = proc[q].pc
  BY <1>2, <1>3, <1>4 DEF ProcType
<1>6. \A q \in Proc : proc'[q].clock = proc[q].clock \/ ClockBound(proc'[q].clock, log)
  BY <1>3, <1>5 DEF ClockBound
<1>7. CASE TakesIn(op)
  <2>1. Insert(p, op) /\ unique' \in BOOLEAN
    BY <1>7 DEF Apply
  <2>2. log' = Append(log, op) /\ ~Refused(op)
    BY <2>1, <1>7 DEF Insert, TakesIn
  <2>3. Types'
    BY <2>1, <1>1, <1>2, <1>4, <1>5, InsertTypes
  <2>4. MintInv'
    BY <2>2, <1>4, <1>6, MintsSurviveReceiving
  <2> QED BY <2>3, <2>4
<1>8. CASE ~TakesIn(op)
  <2>1. log' = log /\ view' = view /\ mark' = mark /\ unique' = unique
    BY <1>8 DEF Apply
  <2>2. /\ view \in 0..Len(log) /\ mark \in [through : 0..Len(log), rev : Nat, revThrough : 0..Len(log)]
        /\ \A q \in Proc : proc'[q].boundary <= Len(log) /\ (q \notin Product => proc'[q].pc \in {"closed", "open"})
    BY <1>5 DEF Types
  <2>3. Types'
    BY <2>1, <2>2, <1>2, <1>4, <1>5, RestTypes
  <2>4. MintInv'
    BY <2>1, <1>4, <1>6, MintsRest
  <2> QED BY <2>3, <2>4
<1> QED BY <1>7, <1>8

\* The fold of this replica's log.
LEMMA LogFold ==
  ASSUME Types, MintInv, NEW shapes, NEW v \in 0..Len(log)
  PROVE  /\ FoldAll(shapes, log, v) \in 0..Len(log)
         /\ Proper(shapes, log, v) => Proper(shapes, log, FoldAll(shapes, log, v))
         /\ \A m : Covers(shapes, log, FoldAll(shapes, log, v), m)
<1>1. Len(log) \in Nat /\ DOMAIN log = 1..Len(log) /\ Coordinates(log)
  BY LogFacts DEF Rows
<1>2. PICK b \in Nat : \A n \in DOMAIN log : log[n].site <= b
  BY LogBounded DEF MintInv, Rows
<1> QED BY <1>1, <1>2, FoldAllCovers

\* One process moves on: what it is now.
LEMMA ProcMoves ==
  ASSUME Types, NEW p \in Proc, NEW new \in ProcType, proc' = [proc EXCEPT ![p] = new], new.boundary <= Len(log),
         p \notin Product => new.pc \in {"closed", "open"}
  PROVE  /\ proc' \in [Proc -> ProcType]
         /\ \A q \in Proc : proc'[q] = IF q = p THEN new ELSE proc[q]
         /\ \A q \in Proc : proc'[q].boundary <= Len(log) /\ (q \notin Product => proc'[q].pc \in {"closed", "open"})
BY DEF Types

\* The steps of opening and ending keep the types and the mints' invariant, and write no op.
LEMMA OpenKeeps ==
  ASSUME Types, MintInv, NEW p \in Proc, Open(p)
  PROVE  Types' /\ MintInv'
<1> DEFINE new == [pc |-> IF p \in Product THEN "bind" ELSE "open", clock |-> HighWaterMark,
                   upgraded |-> ~schema, boundary |-> 0]
<1>1. /\ proc' = [proc EXCEPT ![p] = new] /\ schema' = TRUE /\ log' = log /\ unique' = unique /\ view' = view
      /\ mark' = mark /\ minted' = minted /\ panicked' = panicked /\ given' = given
  BY DEF Open
<1>2. HighWaterMark \in Nat /\ ClockBound(HighWaterMark, log)
  BY HighWater DEF MintInv
<1>3. Len(log) \in Nat /\ (~schema) \in BOOLEAN
  BY LogFacts DEF Types
<1>4. /\ new \in ProcType /\ new.clock = HighWaterMark /\ new.boundary <= Len(log)
      /\ p \notin Product => new.pc \in {"closed", "open"}
  <2>1. (IF p \in Product THEN "bind" ELSE "open") \in PcType
    BY DEF PcType
  <2> QED BY <2>1, <1>2, <1>3 DEF ProcType
<1> HIDE DEF new
<1>5. /\ proc' \in [Proc -> ProcType]
      /\ \A q \in Proc : proc'[q] = IF q = p THEN new ELSE proc[q]
      /\ \A q \in Proc : proc'[q].boundary <= Len(log) /\ (q \notin Product => proc'[q].pc \in {"closed", "open"})
  BY <1>1, <1>4, ProcMoves
<1>6. Types'
  BY <1>1, <1>5, RestTypes DEF Types
<1>7. \A q \in Proc : proc'[q].clock = proc[q].clock \/ ClockBound(proc'[q].clock, log)
  BY <1>2, <1>4, <1>5
<1>8. MintInv'
  BY <1>1, <1>7, MintsRest
<1> QED BY <1>6, <1>8

\* One product process goes elsewhere, and may note a boundary.
LEMMA GoesTo ==
  ASSUME Types, NEW p \in Product, NEW to \in PcType, NEW b \in 0..Len(log),
         \/ proc' = [proc EXCEPT ![p].pc = to] /\ b = proc[p].boundary
         \/ proc' = [proc EXCEPT ![p].pc = to, ![p].boundary = b]
  PROVE  /\ proc' \in [Proc -> ProcType]
         /\ \A q \in Proc : q # p => proc'[q] = proc[q]
         /\ \A q \in Proc : proc'[q].clock = proc[q].clock
         /\ \A q \in Proc : proc'[q].boundary <= Len(log) /\ (q \notin Product => proc'[q].pc \in {"closed", "open"})
         /\ proc'[p].pc = to /\ proc'[p].boundary = b /\ proc'[p].upgraded = proc[p].upgraded
<1> DEFINE new == [proc[p] EXCEPT !.pc = to, !.boundary = b]
<1>1. proc \in [Proc -> ProcType] /\ Len(log) \in Nat /\ p \in Proc
  BY LogFacts, SettingFacts DEF Types
<1>2. proc' = [proc EXCEPT ![p] = new]
  BY <1>1 DEF ProcType
<1>3. /\ new \in ProcType /\ new.pc = to /\ new.boundary = b /\ new.clock = proc[p].clock
      /\ new.upgraded = proc[p].upgraded /\ b <= Len(log)
  <2>1. proc[p] \in ProcType /\ b \in Nat /\ b <= Len(log)
    BY <1>1
  <2> QED BY <2>1 DEF ProcType
<1> HIDE DEF new
<1>4. /\ proc' \in [Proc -> ProcType]
      /\ \A q \in Proc : proc'[q] = IF q = p THEN new ELSE proc[q]
      /\ \A q \in Proc : proc'[q].boundary <= Len(log) /\ (q \notin Product => proc'[q].pc \in {"closed", "open"})
  BY <1>1, <1>2, <1>3, ProcMoves
<1> QED BY <1>1, <1>3, <1>4

\* A step that writes no op and moves no clock.
LEMMA StepKeeps ==
  ASSUME Types, MintInv, given' = given, log' = log, unique' = unique, schema' = schema, minted' = minted,
         panicked' = panicked, proc' \in [Proc -> ProcType],
         \A q \in Proc : proc'[q].clock = proc[q].clock,
         \A q \in Proc : proc'[q].boundary <= Len(log) /\ (q \notin Product => proc'[q].pc \in {"closed", "open"}),
         view' \in 0..Len(log), mark' \in [through : 0..Len(log), rev : Nat, revThrough : 0..Len(log)]
  PROVE  Types' /\ MintInv'
<1>1. unique \in BOOLEAN /\ schema \in BOOLEAN /\ panicked \in BOOLEAN
  BY DEF Types
<1>2. Types'
  BY <1>1, RestTypes
<1>3. MintInv'
  BY MintsRest
<1> QED BY <1>2, <1>3

\* What a product process has noted, and the state around it.
LEMMA AtProduct ==
  ASSUME Types, NEW p \in Product
  PROVE  /\ Len(log) \in Nat /\ proc[p].boundary \in 0..Len(log) /\ proc[p].upgraded \in BOOLEAN
         /\ view \in 0..Len(log) /\ mark \in [through : 0..Len(log), rev : Nat, revThrough : 0..Len(log)]
         /\ Revision[p] \in Nat /\ p \in Proc
<1>1. p \in Proc /\ Len(log) \in Nat /\ Revision[p] \in Nat
  BY LogFacts, SettingFacts DEF Types
<1>2. proc[p] \in ProcType /\ proc[p].boundary <= Len(log)
  BY <1>1 DEF Types
<1>3. proc[p].boundary \in 0..Len(log) /\ proc[p].upgraded \in BOOLEAN
  BY <1>1, <1>2 DEF ProcType
<1>4. view \in 0..Len(log) /\ mark \in [through : 0..Len(log), rev : Nat, revThrough : 0..Len(log)]
  BY DEF Types
<1> QED BY <1>1, <1>3, <1>4

\* What bind_views decided: a rebuild at this process's revision, or a step towards the refold.
LEMMA BindStep ==
  ASSUME Types, MintInv, NEW p \in Proc, BindViews(p)
  PROVE  /\ Types' /\ MintInv' /\ p \in Product /\ log' = log /\ given' = given /\ schema' = schema
         /\ proc[p].pc = "bind"
         /\ \A q \in Proc : q # p => proc'[q] = proc[q]
         /\ proc'[p].upgraded = proc[p].upgraded /\ proc'[p].boundary = proc[p].boundary
         /\ \/ /\ NeedsRebuild(p) /\ proc'[p].pc = "open"
               /\ view' = FoldAll(Shapes(p), log, None)
               /\ mark'.through = Len(log) /\ mark'.rev = Revision[p] /\ mark'.revThrough = Len(log)
            \/ /\ ~NeedsRebuild(p) /\ view' = view /\ mark' = mark
               /\ proc'[p].pc = IF proc[p].upgraded THEN "refold" ELSE "look"
<1>1. /\ proc[p].pc = "bind" /\ log' = log /\ unique' = unique /\ schema' = schema /\ minted' = minted
      /\ panicked' = panicked /\ given' = given
  BY DEF BindViews
<1>2. p \in Product
  BY <1>1 DEF Types
<1>3. /\ Len(log) \in Nat /\ proc[p].boundary \in 0..Len(log) /\ Revision[p] \in Nat
      /\ view \in 0..Len(log) /\ mark \in [through : 0..Len(log), rev : Nat, revThrough : 0..Len(log)]
  BY <1>2, AtProduct
<1> DEFINE to == IF NeedsRebuild(p) THEN "open" ELSE IF proc[p].upgraded THEN "refold" ELSE "look"
<1>4. proc' = [proc EXCEPT ![p].pc = to] /\ to \in PcType
  BY DEF BindViews, PcType
<1>5. ASSUME NeedsRebuild(p)
      PROVE  /\ view' = FoldAll(Shapes(p), log, None) /\ view' \in 0..Len(log)
             /\ mark' \in [through : 0..Len(log), rev : Nat, revThrough : 0..Len(log)]
             /\ mark'.through = Len(log) /\ mark'.rev = Revision[p] /\ mark'.revThrough = Len(log)
  <2>1. /\ view' = FoldAll(Shapes(p), log, None)
        /\ mark' = [through |-> Len(log), rev |-> Revision[p], revThrough |-> Len(log)]
    BY <1>5 DEF BindViews
  <2>2. /\ mark' \in [through : 0..Len(log), rev : Nat, revThrough : 0..Len(log)]
        /\ mark'.through = Len(log) /\ mark'.rev = Revision[p] /\ mark'.revThrough = Len(log)
    BY <2>1, <1>3
  <2>3. view' \in 0..Len(log)
    BY <2>1, <1>3, LogFold DEF None
  <2> QED BY <2>1, <2>2, <2>3
<1>6. ASSUME ~NeedsRebuild(p) PROVE view' = view /\ mark' = mark
  BY <1>6 DEF BindViews
<1>7. to = IF NeedsRebuild(p) THEN "open" ELSE IF proc[p].upgraded THEN "refold" ELSE "look"
  OBVIOUS
<1> HIDE DEF to
<1>8. /\ proc' \in [Proc -> ProcType]
      /\ \A q \in Proc : q # p => proc'[q] = proc[q]
      /\ \A q \in Proc : proc'[q].clock = proc[q].clock
      /\ \A q \in Proc : proc'[q].boundary <= Len(log) /\ (q \notin Product => proc'[q].pc \in {"closed", "open"})
      /\ proc'[p].pc = to /\ proc'[p].boundary = proc[p].boundary /\ proc'[p].upgraded = proc[p].upgraded
  BY <1>2, <1>3, <1>4, GoesTo
<1>9. view' \in 0..Len(log) /\ mark' \in [through : 0..Len(log), rev : Nat, revThrough : 0..Len(log)]
  BY <1>3, <1>5, <1>6
<1>10. Types' /\ MintInv'
  BY <1>1, <1>8, <1>9, StepKeeps
<1> QED BY <1>1, <1>2, <1>5, <1>6, <1>7, <1>8, <1>10

\* What the look decided.
LEMMA LookStep ==
  ASSUME Types, MintInv, NEW p \in Proc, Look(p)
  PROVE  /\ Types' /\ MintInv' /\ p \in Product /\ log' = log /\ given' = given /\ schema' = schema
         /\ view' = view /\ mark' = mark /\ proc[p].pc = "look"
         /\ \A q \in Proc : q # p => proc'[q] = proc[q]
         /\ proc'[p].upgraded = proc[p].upgraded
         /\ \/ Len(log) > mark.through /\ proc'[p].pc = "refold" /\ proc'[p].boundary = Len(log)
            \/ ~(Len(log) > mark.through) /\ proc'[p].pc = "open"
<1>1. /\ proc[p].pc = "look" /\ log' = log /\ unique' = unique /\ schema' = schema /\ minted' = minted
      /\ panicked' = panicked /\ given' = given /\ view' = view /\ mark' = mark
  BY DEF Look
<1>2. p \in Product
  BY <1>1 DEF Types
<1>3. /\ Len(log) \in Nat /\ proc[p].boundary \in 0..Len(log)
      /\ view \in 0..Len(log) /\ mark \in [through : 0..Len(log), rev : Nat, revThrough : 0..Len(log)]
  BY <1>2, AtProduct
<1> DEFINE to == IF Len(log) > mark.through THEN "refold" ELSE "open"
           b == IF Len(log) > mark.through THEN Len(log) ELSE proc[p].boundary
<1>4. /\ \/ proc' = [proc EXCEPT ![p].pc = to] /\ b = proc[p].boundary
         \/ proc' = [proc EXCEPT ![p].pc = to, ![p].boundary = b]
      /\ to \in PcType
  BY DEF Look, PcType
<1>5. b \in 0..Len(log)
  BY <1>3
<1>6. /\ to = IF Len(log) > mark.through THEN "refold" ELSE "open"
      /\ b = IF Len(log) > mark.through THEN Len(log) ELSE proc[p].boundary
  OBVIOUS
<1> HIDE DEF to, b
<1>7. /\ proc' \in [Proc -> ProcType]
      /\ \A q \in Proc : q # p => proc'[q] = proc[q]
      /\ \A q \in Proc : proc'[q].clock = proc[q].clock
      /\ \A q \in Proc : proc'[q].boundary <= Len(log) /\ (q \notin Product => proc'[q].pc \in {"closed", "open"})
      /\ proc'[p].pc = to /\ proc'[p].boundary = b /\ proc'[p].upgraded = proc[p].upgraded
  BY <1>2, <1>4, <1>5, GoesTo
<1>8. Types' /\ MintInv'
  BY <1>1, <1>3, <1>7, StepKeeps
<1> QED BY <1>1, <1>2, <1>6, <1>7, <1>8

\* The refold.
LEMMA RefoldStep ==
  ASSUME Types, MintInv, NEW p \in Proc, Refold(p)
  PROVE  /\ Types' /\ MintInv' /\ p \in Product /\ log' = log /\ given' = given /\ schema' = schema /\ mark' = mark
         /\ proc[p].pc = "refold" /\ proc'[p].pc = "advance"
         /\ \A q \in Proc : q # p => proc'[q] = proc[q]
         /\ proc'[p].upgraded = proc[p].upgraded /\ proc'[p].boundary = proc[p].boundary
         /\ view' = FoldAll(Shapes(p), log, view)
<1>1. /\ proc[p].pc = "refold" /\ log' = log /\ unique' = unique /\ schema' = schema /\ minted' = minted
      /\ panicked' = panicked /\ given' = given /\ mark' = mark /\ view' = FoldAll(Shapes(p), log, view)
      /\ proc' = [proc EXCEPT ![p].pc = "advance"] /\ "advance" \in PcType
  BY DEF Refold, PcType
<1>2. p \in Product
  BY <1>1 DEF Types
<1>3. /\ Len(log) \in Nat /\ proc[p].boundary \in 0..Len(log)
      /\ view \in 0..Len(log) /\ mark \in [through : 0..Len(log), rev : Nat, revThrough : 0..Len(log)]
  BY <1>2, AtProduct
<1>4. view' \in 0..Len(log)
  BY <1>1, <1>3, LogFold
<1>5. /\ proc' \in [Proc -> ProcType]
      /\ \A q \in Proc : q # p => proc'[q] = proc[q]
      /\ \A q \in Proc : proc'[q].clock = proc[q].clock
      /\ \A q \in Proc : proc'[q].boundary <= Len(log) /\ (q \notin Product => proc'[q].pc \in {"closed", "open"})
      /\ proc'[p].pc = "advance" /\ proc'[p].boundary = proc[p].boundary /\ proc'[p].upgraded = proc[p].upgraded
  BY <1>1, <1>2, <1>3, GoesTo
<1>6. Types' /\ MintInv'
  BY <1>1, <1>3, <1>4, <1>5, StepKeeps
<1> QED BY <1>1, <1>2, <1>5, <1>6

\* The move of the watermark.
LEMMA AdvanceStep ==
  ASSUME Types, MintInv, NEW p \in Proc, Advance(p)
  PROVE  /\ Types' /\ MintInv' /\ p \in Product /\ log' = log /\ given' = given /\ schema' = schema /\ view' = view
         /\ proc[p].pc = "advance" /\ proc'[p].pc = "open"
         /\ \A q \in Proc : q # p => proc'[q] = proc[q]
         /\ proc'[p].upgraded = proc[p].upgraded
         /\ NewBoundary(p) \in 0..Len(log)
         /\ mark'.through = IF NewBoundary(p) > mark.through THEN NewBoundary(p) ELSE mark.through
         /\ mark'.rev = mark.rev
         /\ mark'.revThrough = IF mark.rev = Revision[p] /\ NewBoundary(p) > mark.revThrough
                               THEN NewBoundary(p) ELSE mark.revThrough
<1> DEFINE n == NewBoundary(p)
           t == IF n > mark.through THEN n ELSE mark.through
           r == IF mark.rev = Revision[p] /\ n > mark.revThrough THEN n ELSE mark.revThrough
<1>1. /\ proc[p].pc = "advance" /\ log' = log /\ unique' = unique /\ schema' = schema /\ minted' = minted
      /\ panicked' = panicked /\ given' = given /\ view' = view
      /\ proc' = [proc EXCEPT ![p].pc = "open"] /\ "open" \in PcType
  BY DEF Advance, PcType
<1>2. p \in Product
  BY <1>1 DEF Types
<1>3. /\ Len(log) \in Nat /\ proc[p].boundary \in 0..Len(log)
      /\ view \in 0..Len(log) /\ mark \in [through : 0..Len(log), rev : Nat, revThrough : 0..Len(log)]
  BY <1>2, AtProduct
<1>4. mark' = [mark EXCEPT !.through = t, !.revThrough = r]
  BY DEF Advance
<1>5. n \in 0..Len(log)
  BY <1>3 DEF NewBoundary
<1> HIDE DEF n
<1>6. t \in 0..Len(log) /\ r \in 0..Len(log)
  BY <1>3, <1>5
<1> HIDE DEF t, r
<1>7. /\ mark' \in [through : 0..Len(log), rev : Nat, revThrough : 0..Len(log)]
      /\ mark'.through = t /\ mark'.rev = mark.rev /\ mark'.revThrough = r
  BY <1>3, <1>4, <1>6
<1>8. /\ proc' \in [Proc -> ProcType]
      /\ \A q \in Proc : q # p => proc'[q] = proc[q]
      /\ \A q \in Proc : proc'[q].clock = proc[q].clock
      /\ \A q \in Proc : proc'[q].boundary <= Len(log) /\ (q \notin Product => proc'[q].pc \in {"closed", "open"})
      /\ proc'[p].pc = "open" /\ proc'[p].boundary = proc[p].boundary /\ proc'[p].upgraded = proc[p].upgraded
  BY <1>1, <1>2, <1>3, GoesTo
<1>9. Types' /\ MintInv'
  BY <1>1, <1>3, <1>7, <1>8, StepKeeps
<1> QED BY <1>1, <1>2, <1>5, <1>7, <1>8, <1>9 DEF n, t, r

\* A process ends.
LEMMA CloseKeeps ==
  ASSUME Types, MintInv, NEW p \in Proc, Close(p)
  PROVE  /\ Types' /\ MintInv' /\ \A q \in Proc : proc'[q] = IF q = p THEN Closed ELSE proc[q]
<1>1. /\ proc' = [proc EXCEPT ![p] = Closed] /\ schema' = schema /\ log' = log /\ unique' = unique /\ view' = view
      /\ mark' = mark /\ minted' = minted /\ panicked' = panicked /\ given' = given
  BY DEF Close
<1>2. Closed \in ProcType /\ Closed.boundary <= Len(log) /\ Closed.clock <= Ceiling /\ Closed.pc = "closed"
  BY LogFacts, SettingFacts DEF Closed, ProcType, PcType, Types
<1>3. /\ proc' \in [Proc -> ProcType]
      /\ \A q \in Proc : proc'[q] = IF q = p THEN Closed ELSE proc[q]
      /\ \A q \in Proc : proc'[q].boundary <= Len(log) /\ (q \notin Product => proc'[q].pc \in {"closed", "open"})
  BY <1>1, <1>2, ProcMoves
<1>4. Types'
  BY <1>1, <1>3, RestTypes DEF Types
<1>5. \A q \in Proc : proc'[q].clock = proc[q].clock \/ ClockBound(proc'[q].clock, log)
  BY <1>2, <1>3 DEF ClockBound
<1>6. MintInv'
  BY <1>1, <1>5, MintsRest
<1> QED BY <1>3, <1>4, <1>6

-----------------------------------------------------------------------------
(* Every mint is sound.                                                    *)

\* What a binary of before the upgrade left: ops of other replicas, and a register it folded.
LEMMA OldFacts ==
  ASSUME given \in DOMAIN Settings
  PROVE  /\ Old \in Seq(OpType) /\ Len(Old) \in Nat /\ DOMAIN Old = 1..Len(Old) /\ Coordinates(Old)
         /\ \A n \in DOMAIN Old : Old[n] \in Foreign /\ ~Old[n].own
         /\ FoldAll(OldFolds, Old, None) \in 0..Len(Old)
         /\ Proper(OldFolds, Old, FoldAll(OldFolds, Old, None))
<1>1. Old \in Seq(Foreign)
  BY SettingFacts
<1>2. \A op \in Foreign : op \in OpType /\ ~op.own /\ op.lamport \in Nat /\ op.site \in Nat
  BY ForeignType, SettingFacts
<1>3. Len(Old) \in Nat /\ DOMAIN Old = 1..Len(Old) /\ \A n \in DOMAIN Old : Old[n] \in Foreign
  BY <1>1
<1>4. Old \in Seq(OpType)
  <2>1. Foreign \subseteq OpType
    BY <1>2
  <2> QED BY <1>1, <2>1
<1>5. Coordinates(Old)
  BY <1>2, <1>3 DEF Coordinates
<1>6. PICK b \in Nat : \A n \in DOMAIN Old : Old[n].site <= b
  BY <1>3, ForeignBounded
<1>7. None \in 0..Len(Old) /\ Proper(OldFolds, Old, None)
  BY <1>3 DEF None, Proper
<1>8. /\ FoldAll(OldFolds, Old, None) \in 0..Len(Old)
      /\ Proper(OldFolds, Old, FoldAll(OldFolds, Old, None))
  BY <1>3, <1>5, <1>6, <1>7, FoldAllCovers
<1> QED BY <1>2, <1>3, <1>4, <1>5, <1>8

\* The invariant of the mints holds at the start.
LEMMA MintsInit == Init => Types /\ MintInv
<1> SUFFICES ASSUME Init PROVE Types /\ MintInv
  OBVIOUS
<1>1. /\ given \in DOMAIN Settings /\ log = Old /\ view = FoldAll(OldFolds, Old, None)
      /\ mark = [through |-> Len(Old), rev |-> 0, revThrough |-> Len(Old)]
      /\ unique = TRUE /\ schema = (Old = <<>>) /\ minted = 0 /\ panicked = FALSE
      /\ proc = [p \in Proc |-> Closed]
  BY DEF Init
<1>2. /\ Old \in Seq(OpType) /\ Len(Old) \in Nat /\ DOMAIN Old = 1..Len(Old)
      /\ \A n \in DOMAIN Old : Old[n] \in Foreign /\ ~Old[n].own
      /\ view \in 0..Len(Old)
  BY <1>1, OldFacts
<1>3. MaxOwn \in Nat /\ Ceiling \in Nat
  BY <1>1, SettingFacts
<1>4. Closed \in ProcType /\ Closed.boundary = 0 /\ Closed.pc = "closed" /\ Closed.clock = 0
  BY DEF Closed, ProcType, PcType
<1>5. Types
  <2>1. mark \in [through : 0..Len(log), rev : Nat, revThrough : 0..Len(log)]
    BY <1>1, <1>2
  <2>2. proc \in [Proc -> ProcType] /\ \A p \in Proc : proc[p].boundary <= Len(log) /\ proc[p].pc = "closed"
    BY <1>1, <1>2, <1>4
  <2>3. schema \in BOOLEAN
    BY <1>1
  <2>4. unique \in BOOLEAN /\ panicked \in BOOLEAN
    BY <1>1, Zenon
  <2>5. minted \in 0..MaxOwn /\ log \in Seq(OpType) /\ view \in 0..Len(log) /\ given \in DOMAIN Settings
    BY <1>1, <1>2, <1>3
  <2>6. \A p \in Proc : proc[p].boundary <= Len(log) /\ (p \notin Product => proc[p].pc \in {"closed", "open"})
    BY <2>2
  <2> QED BY <2>1, <2>2, <2>3, <2>4, <2>5, <2>6, Zenon DEF Types
<1>6. \A n \in Rows : ~log[n].own /\ log[n] \in Foreign
  BY <1>1, <1>2 DEF Rows
<1>7. Origins /\ Filled /\ OwnOpsClimb /\ OwnCoordinates /\ NeverPanics /\ OwnOpsFold
  BY <1>1, <1>6 DEF Origins, Filled, OwnOpsClimb, OwnCoordinates, NeverPanics, OwnOpsFold
<1>8. Counted
  <2>1. OwnLamports = {}
    BY <1>6 DEF OwnLamports
  <2> QED BY <2>1, <1>1, FS_EmptySet DEF Counted
<1>9. Clocks
  BY <1>1, <1>3, <1>4 DEF Clocks, ClockBound
<1> QED BY <1>5, <1>7, <1>8, <1>9 DEF MintInv

\* Every step keeps it.
LEMMA MintsNext ==
  ASSUME Types, MintInv, [Next]_vars
  PROVE  Types' /\ MintInv'
<1>1. ASSUME NEW p \in Proc, Open(p) PROVE Types' /\ MintInv'
  BY <1>1, OpenKeeps
<1>2. ASSUME NEW p \in Proc, BindViews(p) PROVE Types' /\ MintInv'
  BY <1>2, BindStep
<1>3. ASSUME NEW p \in Proc, Look(p) PROVE Types' /\ MintInv'
  BY <1>3, LookStep
<1>4. ASSUME NEW p \in Proc, Refold(p) PROVE Types' /\ MintInv'
  BY <1>4, RefoldStep
<1>5. ASSUME NEW p \in Proc, Advance(p) PROVE Types' /\ MintInv'
  BY <1>5, AdvanceStep
<1>6. ASSUME NEW p \in Proc, Close(p) PROVE Types' /\ MintInv'
  BY <1>6, CloseKeeps
<1>7. ASSUME NEW p \in Proc, NEW op \in Foreign, Apply(p, op) PROVE Types' /\ MintInv'
  BY <1>7, ApplyKeeps
<1>8. ASSUME NEW p \in Proc, NEW shape \in UNION {Foldable[r] : r \in DOMAIN Foldable}, Emit(p, shape)
      PROVE  Types' /\ MintInv'
  BY <1>8, EmitKeeps
<1>9. ASSUME UNCHANGED vars PROVE Types' /\ MintInv'
  <2>1. /\ log' = log /\ unique' = unique /\ view' = view /\ mark' = mark /\ schema' = schema /\ minted' = minted
        /\ panicked' = panicked /\ proc' = proc /\ given' = given
    BY <1>9 DEF vars
  <2>2. Types'
    BY <2>1, RestTypes DEF Types
  <2>3. MintInv'
    BY <2>1, MintsRest
  <2> QED BY <2>2, <2>3
<1> QED BY <1>1, <1>2, <1>3, <1>4, <1>5, <1>6, <1>7, <1>8, <1>9 DEF Next

\* The invariant says what is claimed of the mints.
LEMMA MintsSound == Types /\ MintInv => MintsAreSound
<1> SUFFICES ASSUME Types, MintInv PROVE TypeOK
  BY DEF MintInv, MintsAreSound
<1>1. log \in Seq(OpType) /\ Len(log) \in Nat
  BY LogFacts DEF Types
<1>2. mark \in [through : 0..Len(log), rev : Nat, revThrough : 0..Len(log)]
  BY DEF Types
<1>3. mark.through \in 0..Len(log) /\ mark.revThrough \in 0..Len(log) /\ mark.rev \in Nat
  BY <1>2
<1>4. \A p \in Proc : proc[p] \in ProcType /\ proc[p].boundary <= Len(log)
  BY DEF Types
<1>5. \A p \in Proc : /\ proc[p].pc \in {"closed", "bind", "look", "refold", "advance", "open"}
                      /\ proc[p].clock \in Nat /\ proc[p].upgraded \in BOOLEAN /\ proc[p].boundary \in 0..Len(log)
  BY <1>1, <1>4 DEF ProcType, PcType
<1>6. view \in 0..Len(log) /\ unique \in BOOLEAN /\ schema \in BOOLEAN /\ panicked \in BOOLEAN /\ minted \in 0..MaxOwn
  BY DEF Types
<1> QED BY <1>1, <1>3, <1>5, <1>6 DEF TypeOK, OpType

\* Whichever processes mint, whatever arrives and in whatever order: every op of this replica comes after what the log
\* held, has a coordinate of its own, is within what folds, and the assertion of build_and_ingest never fails.
THEOREM MintsStaySound == Spec => []MintsAreSound
<1>1. Init => Types /\ MintInv
  BY MintsInit
<1>2. (Types /\ MintInv) /\ [Next]_vars => (Types /\ MintInv)'
  BY MintsNext
<1>3. Types /\ MintInv => MintsAreSound
  BY MintsSound
<1> QED BY <1>1, <1>2, <1>3, PTL DEF Spec

-----------------------------------------------------------------------------
(* The views.                                                              *)

\* The fold of the whole log, in the two halves the invariant speaks of.
LEMMA IsFoldHalves ==
  ASSUME NEW shapes, NEW rows, NEW v, NEW m \in Nat, DOMAIN rows = 1..m
  PROVE  IsFold(shapes, rows, v) <=> Proper(shapes, rows, v) /\ Covers(shapes, rows, v, m)
BY DEF IsFold, Proper, Covers

\* A row that a process takes in under the shapes it folds, or that a sync pass carries in, leaves what was covered covered;
\* whoever folds it covers it too.
LEMMA InsertViews ==
  ASSUME Types, Types', given' = given, NEW p \in Proc, NEW op \in OpType, Insert(p, op), NEW shapes,
         p \in Product => shapes = Shapes(p)
  PROVE  /\ Proper(shapes, log, view) => Proper(shapes, log', view')
         /\ \A m \in 0..Len(log) : Covers(shapes, log, view, m) => Covers(shapes, log', view', m)
         /\ p \in Product /\ Covers(shapes, log, view, Len(log)) => Covers(shapes, log', view', Len(log'))
<1>1. log' = Append(log, op)
  BY DEF Insert
<1>2. /\ log \in Seq(OpType) /\ Len(log) \in Nat /\ Len(log') = Len(log) + 1 /\ view \in 0..Len(log)
      /\ DOMAIN log' = 1..(Len(log) + 1)
  BY <1>1, AppendRow DEF Types, Rows
<1>3. Coordinates(log')
  <2>1. \A n \in Rows' : log'[n] \in OpType
    BY <1>1, <1>2, AppendRow
  <2> QED BY <2>1 DEF Coordinates, OpType, Rows
<1>4. /\ Proper(shapes, log, view) => Proper(shapes, log', view)
      /\ \A m \in 0..Len(log) : Covers(shapes, log, view, m) => Covers(shapes, log', view, m)
  BY <1>1, <1>2, AppendKeeps
<1>5. CASE p \notin Product
  BY <1>4, <1>5 DEF Insert
<1>6. CASE p \in Product
  <2>1. view' = FoldOne(shapes, log', view, Len(log) + 1)
    BY <1>1, <1>6 DEF Insert
  <2>2. Len(log) + 1 \in Nat /\ Len(log) + 1 \in 1..(Len(log) + 1) /\ view \in 0..(Len(log) + 1)
        /\ (Len(log) + 1) - 1 = Len(log) /\ Len(log) \in 0..Len(log)
    BY <1>2
  <2>3. /\ Proper(shapes, log', view) => Proper(shapes, log', view')
        /\ \A m \in Nat : Covers(shapes, log', view, m) => Covers(shapes, log', view', m)
        /\ Covers(shapes, log', view, (Len(log) + 1) - 1) => Covers(shapes, log', view', Len(log) + 1)
    BY <1>2, <1>3, <2>1, <2>2, FoldOneCovers
  <2>4. \A m \in 0..Len(log) : m \in Nat
    BY <1>2
  <2> QED BY <1>2, <1>4, <2>2, <2>3, <2>4
<1> QED BY <1>5, <1>6

\* The watermark after a row: a sync pass leaves it, a product moves it.
LEMMA InsertMark ==
  ASSUME Types, NEW p \in Proc, NEW op \in OpType, Insert(p, op)
  PROVE  /\ mark'.rev = mark.rev
         /\ p \notin Product => mark' = mark
         /\ p \in Product => /\ mark'.through = Len(log')
                             /\ mark'.revThrough = IF mark.rev = Revision[p] /\ mark.revThrough = Len(log)
                                                   THEN Len(log') ELSE mark.revThrough
<1>1. Len(log') = Len(log) + 1
  BY AppendRow DEF Insert
<1>2. CASE p \notin Product
  BY <1>2 DEF Insert
<1>3. CASE p \in Product
  <2>1. mark' = MarkAfter(p, Len(log) + 1)
    BY <1>3 DEF Insert
  <2> QED BY <1>1, <1>3, <2>1, MarkAfterFacts
<1> QED BY <1>2, <1>3

\* Processes of one revision fold alike.
LEMMA FoldAlike ==
  ASSUME NEW p \in Product, NEW q \in Product, Revision[p] = Revision[q]
  PROVE  Shapes(p) = Shapes(q)
BY DEF Shapes

\* A row goes in.
LEMMA InsertKeepsViews ==
  ASSUME Types, ViewInv, Types', given' = given, NEW p \in Proc, NEW op \in OpType, Insert(p, op),
         proc[p].pc = "open", schema' = schema,
         \A q \in Proc : /\ proc'[q].pc = proc[q].pc /\ proc'[q].boundary = proc[q].boundary
                         /\ proc'[q].upgraded = proc[q].upgraded
  PROVE  ViewInv'
<1>1. /\ Proc' = Proc /\ Product' = Product /\ Old' = Old /\ SameRevision' = SameRevision
      /\ \A q : Shapes(q)' = Shapes(q)
  BY SameSetting
<1>2. /\ Len(log) \in Nat /\ Len(log') = Len(log) + 1 /\ Len(log) \in 0..Len(log)
      /\ DOMAIN log = 1..Len(log) /\ DOMAIN log' = 1..Len(log')
  BY AppendRow DEF Insert, Rows
<1>3. Product \subseteq Proc
  BY SettingFacts DEF Types
<1>4. /\ mark.revThrough \in 0..Len(log) /\ mark.through \in 0..Len(log)
      /\ \A q \in Proc : proc[q].boundary \in 0..Len(log)
  <2>1. mark \in [through : 0..Len(log), rev : Nat, revThrough : 0..Len(log)]
    BY DEF Types
  <2>2. \A q \in Proc : proc[q].boundary \in Nat /\ proc[q].boundary <= Len(log)
    BY DEF Types, ProcType
  <2> QED BY <1>2, <2>1, <2>2
<1>5. /\ mark'.rev = mark.rev
      /\ p \notin Product => mark' = mark
      /\ p \in Product => /\ mark'.through = Len(log')
                          /\ mark'.revThrough = IF mark.rev = Revision[p] /\ mark.revThrough = Len(log)
                                                THEN Len(log') ELSE mark.revThrough
  BY InsertMark
<1>6. ASSUME NEW shapes, p \in Product => shapes = Shapes(p)
      PROVE  /\ Proper(shapes, log, view) => Proper(shapes, log', view')
             /\ \A m \in 0..Len(log) : Covers(shapes, log, view, m) => Covers(shapes, log', view', m)
             /\ p \in Product /\ Covers(shapes, log, view, Len(log)) => Covers(shapes, log', view', Len(log'))
  BY <1>6, InsertViews
<1>7. SchemaInv'
  BY <1>1 DEF ViewInv, SchemaInv
<1>8. BesideSync'
  <2> SUFFICES ASSUME SameRevision, Old = <<>>, NEW q \in Product
               PROVE  /\ ~proc'[q].upgraded
                      /\ mark'.rev = Revision[q] => /\ Proper(Shapes(q), log', view')
                                                    /\ Covers(Shapes(q), log', view', mark'.revThrough)
                      /\ mark'.rev # Revision[q] => proc'[q].pc \in {"closed", "bind"} /\ mark'.rev < Revision[q]
                      /\ proc'[q].pc = "advance" => Covers(Shapes(q), log', view', proc'[q].boundary)
    BY <1>1 DEF BesideSync
  <2>1. /\ ~proc[q].upgraded
        /\ mark.rev = Revision[q] => /\ Proper(Shapes(q), log, view)
                                     /\ Covers(Shapes(q), log, view, mark.revThrough)
        /\ mark.rev # Revision[q] => proc[q].pc \in {"closed", "bind"} /\ mark.rev < Revision[q]
        /\ proc[q].pc = "advance" => Covers(Shapes(q), log, view, proc[q].boundary)
    BY DEF ViewInv, BesideSync
  <2>2. p \in Product => Shapes(q) = Shapes(p) /\ Revision[p] = Revision[q]
    BY FoldAlike DEF SameRevision
  <2>3. /\ Proper(Shapes(q), log, view) => Proper(Shapes(q), log', view')
        /\ \A m \in 0..Len(log) : Covers(Shapes(q), log, view, m) => Covers(Shapes(q), log', view', m)
        /\ p \in Product /\ Covers(Shapes(q), log, view, Len(log)) => Covers(Shapes(q), log', view', Len(log'))
    BY <1>6, <2>2
  <2>4. q \in Proc
    BY <1>3
  <2>5. mark.rev = Revision[q] => Covers(Shapes(q), log', view', mark'.revThrough)
    <3>1. CASE p \notin Product
      BY <3>1, <1>4, <1>5, <2>1, <2>3
    <3>2. CASE p \in Product
      BY <3>2, <1>4, <1>5, <2>1, <2>2, <2>3
    <3> QED BY <3>1, <3>2
  <2> QED BY <1>4, <1>5, <2>1, <2>3, <2>4, <2>5
<1>9. BesideRevisions'
  <2> SUFFICES ASSUME Proc = Product, Old = <<>>
               PROVE  /\ mark'.through = Len(log')
                      /\ \A q \in Product :
                           /\ ~proc'[q].upgraded
                           /\ proc'[q].pc \notin {"refold", "advance"}
                           /\ mark'.rev = Revision[q] /\ mark'.revThrough = Len(log') => IsFold(Shapes(q), log', view')
    BY <1>1 DEF BesideRevisions
  <2>1. \A q \in Product :
          /\ ~proc[q].upgraded
          /\ proc[q].pc \notin {"refold", "advance"}
          /\ mark.rev = Revision[q] /\ mark.revThrough = Len(log) => IsFold(Shapes(q), log, view)
    BY DEF ViewInv, BesideRevisions
  <2>2. ASSUME NEW q \in Product, mark'.rev = Revision[q], mark'.revThrough = Len(log')
        PROVE  IsFold(Shapes(q), log', view')
    <3>1. mark.rev = Revision[p] /\ mark.revThrough = Len(log) /\ mark.rev = Revision[q]
      BY <1>2, <1>4, <1>5, <2>2
    <3>2. IsFold(Shapes(q), log, view)
      BY <2>1, <3>1
    <3>3. Shapes(p) = Shapes(q)
      BY <3>1, FoldAlike
    <3>4. Proper(Shapes(q), log, view) /\ Covers(Shapes(q), log, view, Len(log))
      BY <3>2, <1>2, IsFoldHalves
    <3>5. Proper(Shapes(q), log', view') /\ Covers(Shapes(q), log', view', Len(log'))
      BY <1>6, <3>3, <3>4
    <3>6. Len(log') \in Nat
      BY <1>2
    <3> QED BY <3>5, <3>6, <1>2, IsFoldHalves
  <2> QED BY <1>3, <1>5, <2>1, <2>2
<1>10. BesideUpgrade'
  <2> SUFFICES ASSUME Proc = Product, SameRevision, NEW q \in Product
               PROVE  /\ mark'.rev = Revision[q] => Proper(Shapes(q), log', view')
                      /\ mark'.rev # Revision[q] => proc'[q].pc \in {"closed", "bind"} /\ mark'.rev < Revision[q]
                      /\ proc'[q].pc = "look" => ~proc'[q].upgraded
                      /\ proc'[q].upgraded /\ proc'[q].pc \in {"advance", "open"}
                           => Covers(Shapes(q), log', view', Len(log'))
    BY <1>1 DEF BesideUpgrade
  <2>1. /\ mark.rev = Revision[q] => Proper(Shapes(q), log, view)
        /\ mark.rev # Revision[q] => proc[q].pc \in {"closed", "bind"} /\ mark.rev < Revision[q]
        /\ proc[q].pc = "look" => ~proc[q].upgraded
        /\ proc[q].upgraded /\ proc[q].pc \in {"advance", "open"} => Covers(Shapes(q), log, view, Len(log))
    BY DEF ViewInv, BesideUpgrade
  <2>2. p \in Product /\ Shapes(q) = Shapes(p)
    BY FoldAlike DEF SameRevision
  <2>3. /\ Proper(Shapes(q), log, view) => Proper(Shapes(q), log', view')
        /\ Covers(Shapes(q), log, view, Len(log)) => Covers(Shapes(q), log', view', Len(log'))
    BY <1>6, <2>2
  <2> QED BY <1>3, <1>5, <2>1, <2>3
<1> QED BY <1>7, <1>8, <1>9, <1>10 DEF ViewInv

\* What the invariant says of a product process, for each of the three settings.
LEMMA ViewFacts ==
  ASSUME Types, ViewInv, NEW q \in Product
  PROVE  /\ q \in Proc
         /\ Old = <<>> => schema
         /\ SameRevision /\ Old = <<>> =>
              /\ ~proc[q].upgraded
              /\ mark.rev = Revision[q] => /\ Proper(Shapes(q), log, view)
                                           /\ Covers(Shapes(q), log, view, mark.revThrough)
              /\ mark.rev # Revision[q] => proc[q].pc \in {"closed", "bind"} /\ mark.rev < Revision[q]
              /\ proc[q].pc = "advance" => Covers(Shapes(q), log, view, proc[q].boundary)
         /\ Proc = Product /\ Old = <<>> =>
              /\ mark.through = Len(log)
              /\ ~proc[q].upgraded
              /\ proc[q].pc \notin {"refold", "advance"}
              /\ mark.rev = Revision[q] /\ mark.revThrough = Len(log) => IsFold(Shapes(q), log, view)
         /\ Proc = Product /\ SameRevision =>
              /\ mark.rev = Revision[q] => Proper(Shapes(q), log, view)
              /\ mark.rev # Revision[q] => proc[q].pc \in {"closed", "bind"} /\ mark.rev < Revision[q]
              /\ proc[q].pc = "look" => ~proc[q].upgraded
              /\ proc[q].upgraded /\ proc[q].pc \in {"advance", "open"} => Covers(Shapes(q), log, view, Len(log))
<1>1. q \in Proc
  BY SettingFacts DEF Types
<1> QED BY <1>1 DEF ViewInv, SchemaInv, BesideSync, BesideRevisions, BesideUpgrade

\* The invariant after a step that writes no op, from what holds of each product process.
LEMMA ViewsFrom ==
  ASSUME given' = given, log' = log, Old = <<>> => schema',
         Proc = Product /\ Old = <<>> => mark'.through = Len(log),
         \A q \in Product :
           /\ SameRevision /\ Old = <<>> =>
                /\ ~proc'[q].upgraded
                /\ mark'.rev = Revision[q] => /\ Proper(Shapes(q), log, view')
                                              /\ Covers(Shapes(q), log, view', mark'.revThrough)
                /\ mark'.rev # Revision[q] => proc'[q].pc \in {"closed", "bind"} /\ mark'.rev < Revision[q]
                /\ proc'[q].pc = "advance" => Covers(Shapes(q), log, view', proc'[q].boundary)
           /\ Proc = Product /\ Old = <<>> =>
                /\ ~proc'[q].upgraded
                /\ proc'[q].pc \notin {"refold", "advance"}
                /\ mark'.rev = Revision[q] /\ mark'.revThrough = Len(log) => IsFold(Shapes(q), log, view')
           /\ Proc = Product /\ SameRevision =>
                /\ mark'.rev = Revision[q] => Proper(Shapes(q), log, view')
                /\ mark'.rev # Revision[q] => proc'[q].pc \in {"closed", "bind"} /\ mark'.rev < Revision[q]
                /\ proc'[q].pc = "look" => ~proc'[q].upgraded
                /\ proc'[q].upgraded /\ proc'[q].pc \in {"advance", "open"} => Covers(Shapes(q), log, view', Len(log))
  PROVE  ViewInv'
<1>1. /\ Proc' = Proc /\ Product' = Product /\ Old' = Old /\ SameRevision' = SameRevision
      /\ \A q : Shapes(q)' = Shapes(q)
  BY SameSetting
<1>2. SchemaInv'
  BY <1>1 DEF SchemaInv
<1>3. BesideSync'
  BY <1>1 DEF BesideSync
<1>4. BesideRevisions'
  BY <1>1 DEF BesideRevisions
<1>5. BesideUpgrade'
  BY <1>1 DEF BesideUpgrade
<1> QED BY <1>2, <1>3, <1>4, <1>5 DEF ViewInv

\* A step that changes no view, no watermark, and no product process but by closing or opening it.
LEMMA ViewsRest ==
  ASSUME Types, ViewInv, given' = given, log' = log, view' = view, mark' = mark, schema => schema',
         \A q \in Product : \/ proc'[q] = proc[q]
                            \/ proc'[q].pc = "closed" /\ ~proc'[q].upgraded
                            \/ proc'[q].pc = "bind" /\ proc'[q].upgraded = ~schema
  PROVE  ViewInv'
<1>1. Old = <<>> => schema'
  BY DEF ViewInv, SchemaInv
<1>2. Proc = Product /\ Old = <<>> => mark'.through = Len(log)
  BY DEF ViewInv, BesideRevisions
<1>3. \A q \in Product : q \in Proc /\ (mark.rev # Revision[q] /\ ~(mark.rev < Revision[q]) => mark.rev > Revision[q])
  BY AtProduct
<1> QED BY <1>1, <1>2, ViewFacts, ViewsFrom

\* Opening and ending leave the views.
LEMMA OpenKeepsViews ==
  ASSUME Types, ViewInv, NEW p \in Proc, Open(p) \/ Close(p)
  PROVE  ViewInv'
<1>1. proc \in [Proc -> ProcType] /\ Product \subseteq Proc
  BY SettingFacts DEF Types
<1>2. CASE Open(p)
  <2> DEFINE new == [pc |-> IF p \in Product THEN "bind" ELSE "open", clock |-> HighWaterMark,
                     upgraded |-> ~schema, boundary |-> 0]
  <2>1. /\ given' = given /\ log' = log /\ view' = view /\ mark' = mark /\ schema' = TRUE
        /\ proc' = [proc EXCEPT ![p] = new]
    BY <1>2 DEF Open
  <2>2. (p \in Product => new.pc = "bind") /\ new.upgraded = ~schema
    OBVIOUS
  <2> HIDE DEF new
  <2>3. \A q \in Proc : proc'[q] = IF q = p THEN new ELSE proc[q]
    BY <1>1, <2>1
  <2>4. \A q \in Product : proc'[q] = proc[q] \/ (proc'[q].pc = "bind" /\ proc'[q].upgraded = ~schema)
    BY <1>1, <2>2, <2>3
  <2> QED BY <2>1, <2>4, ViewsRest
<1>3. CASE Close(p)
  <2>1. /\ given' = given /\ log' = log /\ view' = view /\ mark' = mark /\ schema' = schema
        /\ proc' = [proc EXCEPT ![p] = Closed]
    BY <1>3 DEF Close
  <2>2. Closed.pc = "closed" /\ ~Closed.upgraded
    BY DEF Closed
  <2>3. \A q \in Proc : proc'[q] = IF q = p THEN Closed ELSE proc[q]
    BY <1>1, <2>1
  <2>4. \A q \in Product : proc'[q] = proc[q] \/ (proc'[q].pc = "closed" /\ ~proc'[q].upgraded)
    BY <1>1, <2>2, <2>3
  <2> QED BY <2>1, <2>4, ViewsRest
<1> QED BY <1>2, <1>3

\* A rebuild gives whole views of its revision; a process that needs none is at the revision of the file, or folds
\* beside a newer one.
LEMMA BindKeepsViews ==
  ASSUME Types, MintInv, ViewInv, NEW p \in Proc, BindViews(p)
  PROVE  ViewInv'
<1>1. /\ p \in Product /\ log' = log /\ given' = given /\ schema' = schema /\ proc[p].pc = "bind"
      /\ \A q \in Proc : q # p => proc'[q] = proc[q]
      /\ proc'[p].upgraded = proc[p].upgraded /\ proc'[p].boundary = proc[p].boundary
      /\ \/ /\ NeedsRebuild(p) /\ proc'[p].pc = "open"
            /\ view' = FoldAll(Shapes(p), log, None)
            /\ mark'.through = Len(log) /\ mark'.rev = Revision[p] /\ mark'.revThrough = Len(log)
         \/ /\ ~NeedsRebuild(p) /\ view' = view /\ mark' = mark
            /\ proc'[p].pc = IF proc[p].upgraded THEN "refold" ELSE "look"
  BY BindStep
<1>2. Len(log) \in Nat /\ DOMAIN log = 1..Len(log)
  BY LogFacts DEF Rows
<1>3. Old = <<>> => schema'
  BY <1>1 DEF ViewInv, SchemaInv
<1>4. CASE NeedsRebuild(p)
  <2>1. /\ proc'[p].pc = "open" /\ view' = FoldAll(Shapes(p), log, None)
        /\ mark'.through = Len(log) /\ mark'.rev = Revision[p] /\ mark'.revThrough = Len(log)
    BY <1>1, <1>4
  <2>2. Proper(Shapes(p), log, view') /\ \A m : Covers(Shapes(p), log, view', m)
    <3>1. None \in 0..Len(log) /\ Proper(Shapes(p), log, None)
      BY <1>2 DEF None, Proper
    <3> QED BY <3>1, <2>1, LogFold
  <2>3. \A q \in Product : Revision[q] = Revision[p] =>
          /\ Proper(Shapes(q), log, view') /\ \A m : Covers(Shapes(q), log, view', m)
          /\ IsFold(Shapes(q), log, view')
    <3> SUFFICES ASSUME NEW q \in Product, Revision[q] = Revision[p]
                 PROVE  /\ Proper(Shapes(q), log, view') /\ \A m : Covers(Shapes(q), log, view', m)
                        /\ IsFold(Shapes(q), log, view')
      OBVIOUS
    <3>1. Shapes(p) = Shapes(q)
      BY <1>1, FoldAlike
    <3>2. IsFold(Shapes(p), log, view')
      BY <1>2, <2>2, IsFoldHalves
    <3> QED BY <2>2, <3>1, <3>2
  <2>4. SameRevision => \A q \in Product : Revision[q] = Revision[p]
    BY <1>1 DEF SameRevision
  <2>5. \A q \in Product : q = p \/ proc'[q] = proc[q]
    BY <1>1, ViewFacts
  <2> QED BY <1>1, <1>3, <2>1, <2>3, <2>4, <2>5, ViewFacts, ViewsFrom
<1>5. CASE ~NeedsRebuild(p)
  <2>1. view' = view /\ mark' = mark /\ proc'[p].pc = IF proc[p].upgraded THEN "refold" ELSE "look"
    BY <1>1, <1>5
  <2>2. mark.rev \in Nat /\ Revision[p] \in Nat
    <3>1. mark \in [through : 0..Len(log), rev : Nat, revThrough : 0..Len(log)] /\ Revision[p] \in Nat
      BY <1>1, AtProduct
    <3> QED BY <3>1
  <2>3. SameRevision => \A q \in Product : Revision[q] = Revision[p]
    BY <1>1 DEF SameRevision
  <2>4. ~(mark.rev < Revision[p])
    BY <1>5 DEF NeedsRebuild
  <2>5. \A q \in Product : q = p \/ proc'[q] = proc[q]
    BY <1>1, ViewFacts
  <2>6. Proc = Product /\ Old = <<>> => mark'.through = Len(log)
    BY <1>1, <2>1, ViewFacts
  <2> QED BY <1>1, <1>3, <2>1, <2>2, <2>3, <2>4, <2>5, <2>6, ViewFacts, ViewsFrom
<1> QED BY <1>4, <1>5

\* The look leaves the views.
LEMMA LookKeepsViews ==
  ASSUME Types, MintInv, ViewInv, NEW p \in Proc, Look(p)
  PROVE  ViewInv'
<1>1. /\ p \in Product /\ log' = log /\ given' = given /\ schema' = schema
      /\ view' = view /\ mark' = mark /\ proc[p].pc = "look"
      /\ \A q \in Proc : q # p => proc'[q] = proc[q]
      /\ proc'[p].upgraded = proc[p].upgraded
      /\ \/ Len(log) > mark.through /\ proc'[p].pc = "refold" /\ proc'[p].boundary = Len(log)
         \/ ~(Len(log) > mark.through) /\ proc'[p].pc = "open"
  BY LookStep
<1>2. Len(log) \in Nat
  BY LogFacts
<1>3. Old = <<>> => schema'
  BY <1>1 DEF ViewInv, SchemaInv
<1>4. \A q \in Product : q = p \/ proc'[q] = proc[q]
  BY <1>1, ViewFacts
<1>5. Proc = Product /\ Old = <<>> => mark'.through = Len(log) /\ proc'[p].pc = "open"
  BY <1>1, <1>2, ViewFacts
<1> QED BY <1>1, <1>3, <1>4, <1>5, ViewFacts, ViewsFrom

\* A refold covers every row, and keeps what the register holds foldable.
LEMMA RefoldKeepsViews ==
  ASSUME Types, MintInv, ViewInv, NEW p \in Proc, Refold(p)
  PROVE  ViewInv'
<1>1. /\ p \in Product /\ log' = log /\ given' = given /\ schema' = schema /\ mark' = mark
      /\ proc[p].pc = "refold" /\ proc'[p].pc = "advance"
      /\ \A q \in Proc : q # p => proc'[q] = proc[q]
      /\ proc'[p].upgraded = proc[p].upgraded /\ proc'[p].boundary = proc[p].boundary
      /\ view' = FoldAll(Shapes(p), log, view)
  BY RefoldStep
<1>2. view \in 0..Len(log)
  BY DEF Types
<1>3. /\ Proper(Shapes(p), log, view) => Proper(Shapes(p), log, view')
      /\ \A m : Covers(Shapes(p), log, view', m)
  BY <1>1, <1>2, LogFold
<1>4. SameRevision => \A q \in Product : Shapes(q) = Shapes(p)
  BY <1>1, FoldAlike DEF SameRevision
<1>5. SameRevision => \A q \in Product :
        /\ Proper(Shapes(q), log, view) => Proper(Shapes(q), log, view')
        /\ \A m : Covers(Shapes(q), log, view', m)
  BY <1>3, <1>4
<1>6. ~(Proc = Product /\ Old = <<>>)
  BY <1>1, ViewFacts
<1>7. Old = <<>> => schema'
  BY <1>1 DEF ViewInv, SchemaInv
<1>8. \A q \in Product : q = p \/ proc'[q] = proc[q]
  BY <1>1, ViewFacts
<1> QED BY <1>1, <1>5, <1>6, <1>7, <1>8, ViewFacts, ViewsFrom

\* The watermark moves to a boundary whose rows are folded.
LEMMA AdvanceKeepsViews ==
  ASSUME Types, MintInv, ViewInv, NEW p \in Proc, Advance(p)
  PROVE  ViewInv'
<1>1. /\ p \in Product /\ log' = log /\ given' = given /\ schema' = schema /\ view' = view
      /\ proc[p].pc = "advance" /\ proc'[p].pc = "open"
      /\ \A q \in Proc : q # p => proc'[q] = proc[q]
      /\ proc'[p].upgraded = proc[p].upgraded
      /\ mark'.rev = mark.rev
      /\ mark'.revThrough = IF mark.rev = Revision[p] /\ NewBoundary(p) > mark.revThrough
                            THEN NewBoundary(p) ELSE mark.revThrough
  BY AdvanceStep
<1>2. ~(Proc = Product /\ Old = <<>>)
  BY <1>1, ViewFacts
<1>3. Old = <<>> => schema'
  BY <1>1 DEF ViewInv, SchemaInv
<1>4. \A q \in Product : q = p \/ proc'[q] = proc[q]
  BY <1>1, ViewFacts
<1>5. ASSUME SameRevision, Old = <<>>, NEW q \in Product, mark.rev = Revision[q]
      PROVE  Covers(Shapes(q), log, view, mark'.revThrough)
  <2>1. ~proc[p].upgraded /\ Covers(Shapes(p), log, view, proc[p].boundary)
    BY <1>1, <1>5, ViewFacts
  <2>2. NewBoundary(p) = proc[p].boundary
    BY <2>1 DEF NewBoundary
  <2>3. Shapes(p) = Shapes(q)
    BY <1>1, <1>5, FoldAlike DEF SameRevision
  <2>4. Covers(Shapes(q), log, view, mark.revThrough)
    BY <1>5, ViewFacts
  <2> QED BY <1>1, <2>1, <2>2, <2>3, <2>4
<1> QED BY <1>1, <1>2, <1>3, <1>4, <1>5, ViewFacts, ViewsFrom

\* What a binary of before the upgrade left is a view its own shapes admit.
LEMMA ViewsInit == Init => ViewInv
<1> SUFFICES ASSUME Init PROVE ViewInv
  OBVIOUS
<1>1. /\ given \in DOMAIN Settings /\ log = Old /\ view = FoldAll(OldFolds, Old, None)
      /\ mark = [through |-> Len(Old), rev |-> 0, revThrough |-> Len(Old)]
      /\ schema = (Old = <<>>) /\ proc = [p \in Proc |-> Closed]
  BY DEF Init
<1>2. /\ Len(Old) \in Nat /\ DOMAIN Old = 1..Len(Old) /\ view \in 0..Len(Old) /\ Proper(OldFolds, Old, view)
  BY <1>1, OldFacts
<1>3. \A p \in Product : proc[p].pc = "closed" /\ ~proc[p].upgraded /\ Revision[p] \in Nat
  BY <1>1, SettingFacts DEF Closed
<1>4. mark.rev = 0 /\ mark.through = Len(log) /\ mark.revThrough = Len(log)
  BY <1>1
<1>5. Old = <<>> => view = None /\ Len(log) = 0 /\ DOMAIN log = {}
  BY <1>1, <1>2 DEF None
<1>6. Old = <<>> => \A p \in Product : /\ Proper(Shapes(p), log, view)
                                       /\ \A m : Covers(Shapes(p), log, view, m)
                                       /\ IsFold(Shapes(p), log, view)
  BY <1>5 DEF Proper, Covers, IsFold
<1>7. ASSUME NEW p \in Product, Revision[p] = 0 PROVE Proper(Shapes(p), log, view)
  <2>1. CASE Old = <<>>
    BY <1>6, <2>1
  <2>2. CASE Old # <<>>
    <3>1. OldFolds \subseteq Shapes(p)
      BY <1>1, <1>7, <2>2, UpgradeAssumption DEF Product, Old, Shapes, Foldable
    <3> QED BY <1>1, <1>2, <3>1 DEF Proper, Folds
  <2> QED BY <2>1, <2>2
<1>8. SchemaInv
  BY <1>1 DEF SchemaInv
<1>9. BesideSync
  BY <1>3, <1>4, <1>6 DEF BesideSync
<1>10. BesideRevisions
  BY <1>3, <1>4, <1>6 DEF BesideRevisions
<1>11. BesideUpgrade
  BY <1>3, <1>4, <1>7 DEF BesideUpgrade
<1> QED BY <1>8, <1>9, <1>10, <1>11 DEF ViewInv

\* Every step keeps the views' part of the invariant.
LEMMA ViewsNext ==
  ASSUME Types, MintInv, ViewInv, Types', [Next]_vars
  PROVE  ViewInv'
<1>1. ASSUME NEW p \in Proc, Open(p) \/ Close(p) PROVE ViewInv'
  BY <1>1, OpenKeepsViews
<1>2. ASSUME NEW p \in Proc, BindViews(p) PROVE ViewInv'
  BY <1>2, BindKeepsViews
<1>3. ASSUME NEW p \in Proc, Look(p) PROVE ViewInv'
  BY <1>3, LookKeepsViews
<1>4. ASSUME NEW p \in Proc, Refold(p) PROVE ViewInv'
  BY <1>4, RefoldKeepsViews
<1>5. ASSUME NEW p \in Proc, Advance(p) PROVE ViewInv'
  BY <1>5, AdvanceKeepsViews
<1>6. ASSUME NEW p \in Proc, NEW op \in Foreign, Apply(p, op) PROVE ViewInv'
  <2> DEFINE c == Observed(proc[p].clock, op)
  <2>1. /\ proc[p].pc = "open" /\ proc' = [proc EXCEPT ![p].clock = c] /\ schema' = schema /\ given' = given
    BY <1>6 DEF Apply
  <2>2. proc \in [Proc -> ProcType] /\ op \in OpType /\ Product \subseteq Proc
    BY ForeignType, SettingFacts DEF Types
  <2> HIDE DEF c
  <2>3. \A q \in Proc : /\ proc'[q].pc = proc[q].pc /\ proc'[q].boundary = proc[q].boundary
                        /\ proc'[q].upgraded = proc[q].upgraded
    BY <2>1, <2>2 DEF ProcType
  <2>4. CASE TakesIn(op)
    <3>1. Insert(p, op)
      BY <1>6, <2>4 DEF Apply
    <3> QED BY <2>1, <2>2, <2>3, <3>1, InsertKeepsViews
  <2>5. CASE ~TakesIn(op)
    <3>1. log' = log /\ view' = view /\ mark' = mark
      BY <1>6, <2>5 DEF Apply
    <3>2. Old = <<>> => schema'
      BY <2>1 DEF ViewInv, SchemaInv
    <3>3. Proc = Product /\ Old = <<>> => mark'.through = Len(log)
      BY <3>1 DEF ViewInv, BesideRevisions
    <3> QED BY <2>1, <2>2, <2>3, <3>1, <3>2, <3>3, ViewFacts, ViewsFrom
  <2> QED BY <2>4, <2>5
<1>7. ASSUME NEW p \in Proc, NEW shape \in UNION {Foldable[r] : r \in DOMAIN Foldable}, Emit(p, shape)
      PROVE  ViewInv'
  <2>1. /\ proc[p].pc = "open" /\ Minted(p, shape) \in OpType /\ Insert(p, Minted(p, shape))
        /\ proc' = [proc EXCEPT ![p].clock = Coordinate(p)] /\ schema' = schema /\ given' = given
    BY <1>7, EmitStep
  <2>2. proc \in [Proc -> ProcType]
    BY DEF Types
  <2>3. \A q \in Proc : /\ proc'[q].pc = proc[q].pc /\ proc'[q].boundary = proc[q].boundary
                        /\ proc'[q].upgraded = proc[q].upgraded
    BY <2>1, <2>2 DEF ProcType
  <2> QED BY <2>1, <2>3, InsertKeepsViews
<1>8. ASSUME UNCHANGED vars PROVE ViewInv'
  <2>1. /\ log' = log /\ view' = view /\ mark' = mark /\ schema' = schema /\ proc' = proc /\ given' = given
    BY <1>8 DEF vars
  <2> QED BY <2>1, ViewsRest
<1> QED BY <1>1, <1>2, <1>3, <1>4, <1>5, <1>6, <1>7, <1>8 DEF Next

\* The invariant says what is claimed of the views.
LEMMA ViewsVouched == IInv => VouchedViews
<1> SUFFICES ASSUME IInv, OneAtATime, NEW p \in Product, proc[p].pc = "open", mark.rev = Revision[p],
                    mark.revThrough = Len(log), Old = <<>> \/ proc[p].upgraded
             PROVE  IsFold(Shapes(p), log, view)
  BY DEF VouchedViews
<1>1. Types /\ ViewInv
  BY DEF IInv
<1>2. Len(log) \in Nat /\ DOMAIN log = 1..Len(log)
  BY <1>1, LogFacts DEF Rows
<1>3. CASE Proc = Product /\ Old = <<>>
  BY <1>1, <1>3, ViewFacts
<1>4. CASE SameRevision /\ Old = <<>>
  <2>1. Proper(Shapes(p), log, view) /\ Covers(Shapes(p), log, view, Len(log))
    BY <1>1, <1>4, ViewFacts
  <2> QED BY <2>1, <1>2, IsFoldHalves
<1>5. CASE Proc = Product /\ SameRevision /\ proc[p].upgraded
  <2>1. Proper(Shapes(p), log, view) /\ Covers(Shapes(p), log, view, Len(log))
    BY <1>1, <1>5, ViewFacts
  <2> QED BY <2>1, <1>2, IsFoldHalves
<1> QED BY <1>3, <1>4, <1>5 DEF OneAtATime

\* What the watermark vouches for is the fold of the whole log: beside a sync pass, beside other revisions, and in a file
\* of before the upgrade, for any number of processes, whatever arrives, and wherever one of them ends.
THEOREM VouchedViewsAreWhole == Spec => []VouchedViews
<1>1. Init => IInv
  BY MintsInit, ViewsInit DEF IInv
<1>2. IInv /\ [Next]_vars => IInv'
  <2> SUFFICES ASSUME Types, MintInv, ViewInv, [Next]_vars PROVE IInv'
    BY DEF IInv
  <2>1. Types' /\ MintInv'
    BY MintsNext
  <2>2. ViewInv'
    BY <2>1, ViewsNext
  <2> QED BY <2>1, <2>2 DEF IInv
<1>3. IInv => VouchedViews
  BY ViewsVouched
<1> QED BY <1>1, <1>2, <1>3, PTL DEF Spec
=============================================================================
