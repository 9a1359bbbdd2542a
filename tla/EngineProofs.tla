---------------------------- MODULE EngineProofs ----------------------------
(***************************************************************************)
(* The safety properties of Engine: those of the grading pipeline, from    *)
(* GradePipelineProofs, and of the comparisons, for any number of          *)
(* submissions, of any length, and for every dictionary and MinMatch.      *)
(*                                                                         *)
(* Scores count tokens by tiles: the sum of their lengths is the number of *)
(* marked tokens, on both sides, because no two tiles overlap (TilesCount);*)
(* and all of them are tokens of the files that were compared (Tiled).     *)
(* Copies are matched fully because the diagonal of two equal files is     *)
(* tiled stretch by stretch (Diagonal), and because what a tiling does is  *)
(* a function of its files, so that copies lose the same code to the       *)
(* solution (OneEnd, Separated).                                           *)
(***************************************************************************)
EXTENDS Engine, GradePipelineProofs, WellFoundedInduction

Everyone == 1 .. Submissions
Tile == [a : Nat, b : Nat, length : Nat \ {0}]

\* The comparisons of the phase.
Possible ==
    CASE analysis = "solution" -> [kind : {"solution"}, x : Readable, y : {0}]
      [] analysis = "pairs" -> [kind : {"pair"}, x : Readable, y : Readable]
      [] analysis = "patterns" -> [kind : {"pattern"}, x : Readable, y : DOMAIN Patterns]
      [] OTHER -> {}

Prepared ==
    /\ analysis \in {"solution", "pairs", "patterns", "done"}
    /\ prints \in [Everyone -> Seq(Nat)] /\ held \in [Everyone -> Seq(Nat)] /\ solution \in Seq(Nat)
    /\ heldCount \in [Everyone -> Nat] /\ covered \in [Everyone -> SUBSET Nat]
    /\ pairMatched \in [Everyone \X Everyone -> Nat]
    /\ todo \subseteq Possible /\ task \in Possible \cup {NoTask}
    /\ task = NoTask => found = {}

\* A run of tokens that the files have in common.
Common(t) ==
    /\ t.length >= MinMatch
    /\ TileA(t) \subseteq DOMAIN FileA /\ TileB(t) \subseteq DOMAIN FileB
    /\ \A k \in 0 .. t.length - 1 : FileA[t.a + k] # 0 /\ FileA[t.a + k] = FileB[t.b + k]

Apart == \A t, u \in tiles : t # u => TileA(t) \cap TileA(u) = {} /\ TileB(t) \cap TileB(u) = {}
Marked == markedA = UNION {TileA(t) : t \in tiles} /\ markedB = UNION {TileB(t) : t \in tiles}

Tiled ==
    /\ tiles \cup found \subseteq Tile
    /\ task # NoTask => \A t \in tiles \cup found : Common(t)
    /\ Apart /\ Marked

\* Pairs are compared when nothing is set aside any more.
Scored ==
    /\ ScoresAreShares
    /\ analysis = "solution" => \A p \in Everyone \X Everyone : pairMatched[p] = 0

Compared == Prepared /\ Tiled /\ Scored
AnalysisInv == NoAnalysis \/ Compared

(***************************************************************************)
(* What a round takes first.                                               *)
(***************************************************************************)
LEMMA Least ==
  ASSUME NEW I, I \subseteq Nat, I # {}
  PROVE  \E m \in I : \A n \in I : m <= n
<1>1. IsWellFoundedOn(OpToRel(<, Nat), Nat)
  BY NatLessThanWellFounded
<1>2. PICK m \in I : \A n \in I : ~ (<<n, m>> \in OpToRel(<, Nat))
  BY <1>1, WFMin
<1>3. ASSUME NEW n \in I PROVE m <= n
  <2>1. m \in Nat /\ n \in Nat
    OBVIOUS
  <2>2. n < m => <<n, m>> \in OpToRel(<, Nat)
    BY <2>1 DEF OpToRel
  <2>3. ~(n < m)
    BY <1>2, <2>2
  <2> QED BY <2>1, <2>3
<1> QED BY <1>3

LEMMA FirstIs ==
  ASSUME NEW S, S \subseteq Tile, S # {}
  PROVE  First(S) \in S /\ \A u \in S : Earlier(First(S), u)
<1>1. PICK p \in S : \A t \in S : p.a <= t.a
  <2>1. {t.a : t \in S} \subseteq Nat /\ {t.a : t \in S} # {}
    BY DEF Tile
  <2>2. \E m \in {t.a : t \in S} : \A n \in {t.a : t \in S} : m <= n
    BY <2>1, Least
  <2> QED BY <2>2
<1> DEFINE A == {t \in S : t.a = p.a}
<1>2. PICK q \in A : \A t \in A : q.b <= t.b
  <2>1. {t.b : t \in A} \subseteq Nat /\ {t.b : t \in A} # {}
    BY DEF Tile
  <2>2. \E m \in {t.b : t \in A} : \A n \in {t.b : t \in A} : m <= n
    BY <2>1, Least
  <2> QED BY <2>2
<1> DEFINE B == {t \in A : t.b = q.b}
<1>3. PICK r \in B : \A t \in B : r.length <= t.length
  <2>1. {t.length : t \in B} \subseteq Nat /\ {t.length : t \in B} # {}
    BY DEF Tile
  <2>2. \E m \in {t.length : t \in B} : \A n \in {t.length : t \in B} : m <= n
    BY <2>1, Least
  <2> QED BY <2>2
<1>4. r \in S /\ r.a = p.a /\ r.b = q.b
  OBVIOUS
<1>5. ASSUME NEW u \in S PROVE Earlier(r, u)
  <2>1. u.a \in Nat /\ u.b \in Nat /\ u.length \in Nat /\ r.a \in Nat /\ r.b \in Nat /\ r.length \in Nat
    BY <1>4 DEF Tile
  <2>2. CASE u.a # r.a
    BY <1>1, <1>4, <2>1, <2>2 DEF Earlier
  <2>3. CASE u.a = r.a /\ u.b # r.b
    BY <1>2, <1>4, <2>1, <2>3 DEF Earlier
  <2>4. CASE u.a = r.a /\ u.b = r.b
    BY <1>3, <1>4, <2>1, <2>4 DEF Earlier
  <2> QED BY <2>2, <2>3, <2>4
<1> QED BY <1>4, <1>5 DEF First

(***************************************************************************)
(* Counting.                                                               *)
(***************************************************************************)
LEMMA TokensFinite ==
  ASSUME NEW file \in Seq(Nat)
  PROVE  /\ IsFiniteSet(DOMAIN file) /\ IsFiniteSet({k \in DOMAIN file : file[k] # 0})
         /\ TokenCount(file) \in Nat
<1>1. DOMAIN file = 1 .. Len(file) /\ Len(file) \in Nat
  OBVIOUS
<1>2. IsFiniteSet(DOMAIN file)
  BY <1>1, FS_Interval
<1> QED BY <1>2, FS_Subset, FS_CardinalityType DEF TokenCount

\* The sum of the lengths is what is marked, on each side.
LEMMA TilesCount ==
  ASSUME tiles \subseteq Tile, Apart, Marked, IsFiniteSet(markedA), IsFiniteSet(markedB)
  PROVE  TiledTokens = Cardinality(markedA) /\ TiledTokens = Cardinality(markedB)
<1> DEFINE P == UNION {{t} \X TileA(t) : t \in tiles}
           f == [p \in P |-> p[2]]
           g == [p \in P |-> p[1].b + (p[2] - p[1].a)]
<1>1. \A p : p \in P <=> \E t \in tiles : \E k \in TileA(t) : p = <<t, k>>
  OBVIOUS
<1> HIDE DEF P
<1>2. \A t \in tiles : /\ t.a \in Nat /\ t.b \in Nat /\ t.length \in Nat
                       /\ \A k \in TileA(t) : k \in Int /\ t.b + (k - t.a) \in TileB(t)
                       /\ \A k \in TileB(t) : k \in Int /\ t.a + (k - t.b) \in TileA(t)
  BY DEF Tile, TileA, TileB, Cells
<1>3. \A t, u \in tiles : (TileA(t) \cap TileA(u) # {} \/ TileB(t) \cap TileB(u) # {}) => t = u
  BY DEF Apart
<1>4. f \in Injection(P, markedA) /\ f \in Surjection(P, markedA)
  <2>1. f \in [P -> markedA]
    BY <1>1 DEF Marked
  <2>2. \A p, q \in P : f[p] = f[q] => p = q
    <3> SUFFICES ASSUME NEW p \in P, NEW q \in P, f[p] = f[q] PROVE p = q
      OBVIOUS
    <3>1. PICK t \in tiles, u \in tiles :
             (\E k \in TileA(t) : p = <<t, k>>) /\ \E k \in TileA(u) : q = <<u, k>>
      BY <1>1
    <3>2. PICK k \in TileA(t), j \in TileA(u) : p = <<t, k>> /\ q = <<u, j>>
      BY <3>1
    <3>3. k = j
      BY <3>2
    <3> QED BY <1>3, <3>2, <3>3
  <2>3. \A k \in markedA : \E p \in P : f[p] = k
    <3> SUFFICES ASSUME NEW k \in markedA PROVE \E p \in P : f[p] = k
      OBVIOUS
    <3>1. PICK t \in tiles : k \in TileA(t)
      BY DEF Marked
    <3>2. <<t, k>> \in P /\ f[<<t, k>>] = k
      BY <1>1, <3>1
    <3> QED BY <3>2
  <2> HIDE DEF f
  <2> QED BY <2>1, <2>2, <2>3 DEF Injection, Surjection, IsInjective
<1>5. g \in Injection(P, markedB) /\ g \in Surjection(P, markedB)
  <2>1. \A t \in tiles : \A k \in TileA(t) : g[<<t, k>>] = t.b + (k - t.a)
    BY <1>1
  <2>2. g \in [P -> markedB]
    <3>1. \A p \in P : p[1].b + (p[2] - p[1].a) \in markedB
      BY <1>1, <1>2 DEF Marked
    <3> QED BY <3>1
  <2> HIDE DEF g
  <2>3. \A p, q \in P : g[p] = g[q] => p = q
    <3> SUFFICES ASSUME NEW p \in P, NEW q \in P, g[p] = g[q] PROVE p = q
      OBVIOUS
    <3>1. PICK t \in tiles, u \in tiles :
             (\E k \in TileA(t) : p = <<t, k>>) /\ \E k \in TileA(u) : q = <<u, k>>
      BY <1>1
    <3>2. PICK k \in TileA(t), j \in TileA(u) : p = <<t, k>> /\ q = <<u, j>>
      BY <3>1
    <3>3. t.b + (k - t.a) = u.b + (j - u.a)
      BY <2>1, <3>2
    <3>4. t = u
      BY <1>2, <1>3, <3>3
    <3>5. k = j
      BY <1>2, <3>3, <3>4
    <3> QED BY <3>2, <3>4, <3>5
  <2>4. \A n \in markedB : \E p \in P : g[p] = n
    <3> SUFFICES ASSUME NEW n \in markedB PROVE \E p \in P : g[p] = n
      OBVIOUS
    <3>1. PICK t \in tiles : n \in TileB(t)
      BY DEF Marked
    <3>2. PICK k \in TileA(t) : k = t.a + (n - t.b)
      BY <1>2, <3>1
    <3>3. g[<<t, k>>] = n
      BY <1>2, <2>1, <3>1, <3>2
    <3> QED BY <1>1, <3>3
  <2> QED BY <2>2, <2>3, <2>4 DEF Injection, Surjection, IsInjective
<1>6. Cardinality(P) = Cardinality(markedA) /\ Cardinality(P) = Cardinality(markedB)
  <2> HIDE DEF f, g
  <2>1. Cardinality(P) = Cardinality(markedA)
    BY <1>4, FS_Injection
  <2>2. Cardinality(P) = Cardinality(markedB)
    BY <1>5, FS_Injection
  <2> QED BY <2>1, <2>2
<1> QED BY <1>6 DEF P, TiledTokens

(***************************************************************************)
(* The comparison at hand.                                                 *)
(***************************************************************************)
LEMMA ConstantsTyped ==
  /\ Files \subseteq Seq(Nat) /\ References \subseteq Seq(Nat) /\ Patterns \in Seq(Seq(Nat))
  /\ Submissions \in Nat /\ MinMatch \in Nat \ {0}
  BY SimilarityAssumption

LEMMA TaskIs ==
  ASSUME Prepared, task # NoTask
  PROVE  /\ FileA \in Seq(Nat) /\ FileB \in Seq(Nat) /\ task.x \in Everyone
         /\ task.kind = "solution" => analysis = "solution" /\ FileA = held[task.x]
         /\ task.kind = "pair" => /\ analysis = "pairs" /\ task.y \in Everyone
                                 /\ FileA = held[task.x] /\ FileB = held[task.y]
         /\ task.kind = "pattern" => FileA = prints[task.x]
<1>1. task \in Possible /\ Readable \subseteq Everyone
  BY DEF Prepared, Readable, Everyone
<1>2. \A n \in DOMAIN Patterns : Patterns[n] \in Seq(Nat)
  BY ConstantsTyped
<1>3. CASE analysis = "solution"
  BY <1>1, <1>3 DEF Possible, Prepared, FileA, FileB
<1>4. CASE analysis = "pairs"
  BY <1>1, <1>4 DEF Possible, Prepared, FileA, FileB
<1>5. CASE analysis = "patterns"
  BY <1>1, <1>2, <1>5 DEF Possible, Prepared, FileA, FileB
<1>6. analysis # "done"
  BY <1>1 DEF Possible
<1> QED BY <1>3, <1>4, <1>5, <1>6 DEF Prepared

\* What is marked is of the files, and no function's end.
LEMMA MarkedIs ==
  ASSUME Prepared, Tiled, task # NoTask
  PROVE  /\ markedA \subseteq {k \in DOMAIN FileA : FileA[k] # 0} /\ IsFiniteSet(markedA)
         /\ markedB \subseteq {k \in DOMAIN FileB : FileB[k] # 0} /\ IsFiniteSet(markedB)
         /\ markedA \subseteq Nat
<1>1. FileA \in Seq(Nat) /\ FileB \in Seq(Nat)
  BY TaskIs
<1>2. ASSUME NEW t \in tiles
      PROVE  /\ \A k \in TileA(t) : k \in DOMAIN FileA /\ FileA[k] # 0
             /\ \A k \in TileB(t) : k \in DOMAIN FileB /\ FileB[k] # 0
  <2>1. t \in Tile /\ Common(t)
    BY DEF Tiled
  <2>2. ASSUME NEW k \in TileA(t) PROVE FileA[k] # 0
    <3>1. k - t.a \in 0 .. t.length - 1 /\ t.a + (k - t.a) = k
      BY <2>1 DEF Tile, TileA, Cells
    <3> QED BY <2>1, <3>1 DEF Common
  <2>3. ASSUME NEW k \in TileB(t) PROVE FileB[k] # 0
    <3>1. k - t.b \in 0 .. t.length - 1 /\ t.b + (k - t.b) = k
      BY <2>1 DEF Tile, TileB, Cells
    <3> QED BY <2>1, <3>1 DEF Common
  <2> QED BY <2>1, <2>2, <2>3 DEF Common
<1>3. /\ markedA \subseteq {k \in DOMAIN FileA : FileA[k] # 0}
      /\ markedB \subseteq {k \in DOMAIN FileB : FileB[k] # 0}
  BY <1>2 DEF Tiled, Marked
<1>4. IsFiniteSet(markedA) /\ IsFiniteSet(markedB)
  BY <1>1, <1>3, TokensFinite, FS_Subset
<1>5. markedA \subseteq Nat
  BY <1>1, <1>3
<1> QED BY <1>3, <1>4, <1>5

\* No more is matched than either file has.
LEMMA MatchedWithin ==
  ASSUME Prepared, Tiled, task # NoTask
  PROVE  /\ TiledTokens \in Nat /\ TiledTokens = Cardinality(markedA)
         /\ TiledTokens <= TokenCount(FileA) /\ TiledTokens <= TokenCount(FileB)
<1>1. TiledTokens = Cardinality(markedA) /\ TiledTokens = Cardinality(markedB)
  BY MarkedIs, TilesCount DEF Tiled
<1>2. FileA \in Seq(Nat) /\ FileB \in Seq(Nat)
  BY TaskIs
<1>3. TiledTokens \in Nat
  BY <1>1, MarkedIs, FS_CardinalityType
<1>4. Cardinality(markedA) <= TokenCount(FileA)
  BY <1>2, MarkedIs, TokensFinite, FS_Subset DEF TokenCount
<1>5. Cardinality(markedB) <= TokenCount(FileB)
  BY <1>2, MarkedIs, TokensFinite, FS_Subset DEF TokenCount
<1> QED BY <1>1, <1>3, <1>4, <1>5

\* What is set aside is what was matched.
LEMMA AsideIs ==
  ASSUME Prepared, Tiled, task # NoTask
  PROVE  /\ SetAside(FileA) \in Seq(Nat)
         /\ TokenCount(SetAside(FileA)) = TokenCount(FileA) - TiledTokens
<1>1. PICK file \in Seq(Nat) : file = FileA
  BY TaskIs
<1> DEFINE NZ == {k \in DOMAIN file : file[k] # 0}
<1>2. SetAside(file) = [k \in DOMAIN file |-> IF k \in markedA THEN 0 ELSE file[k]]
  BY DEF SetAside, Tiled, Marked
<1>3. SetAside(file) \in Seq(Nat)
  <2>1. DOMAIN file = 1 .. Len(file) /\ Len(file) \in Nat /\ \A k \in 1 .. Len(file) : file[k] \in Nat
    OBVIOUS
  <2>2. SetAside(file) \in [1 .. Len(file) -> Nat]
    BY <1>2, <2>1
  <2> QED BY <2>1, <2>2
<1>4. {k \in DOMAIN SetAside(file) : SetAside(file)[k] # 0} = NZ \ markedA
  BY <1>2
<1>5. NZ \cap markedA = markedA /\ IsFiniteSet(NZ)
  BY <1>1, MarkedIs, TokensFinite
<1>6. Cardinality(NZ \ markedA) = Cardinality(NZ) - Cardinality(markedA)
  BY <1>5, FS_Difference
<1> QED BY <1>1, <1>3, <1>4, <1>6, MatchedWithin DEF TokenCount

(***************************************************************************)
(* Tiling.                                                                 *)
(***************************************************************************)
LEMMA ScanStep == Compared /\ Scan => Compared'
<1> SUFFICES ASSUME Compared, Scan PROVE Compared'
  OBVIOUS
<1>1. /\ Prepared /\ Tiled /\ Scored /\ task # NoTask
      /\ UNCHANGED <<prints, unread, solution, held, heldCount, analysis, todo, task, markedA, markedB,
                     tiles, pairMatched, covered>>
  BY DEF Compared, Scan
<1>2. PICK n \in MinMatch .. Len(FileA) : found' = Runs(n)
  BY DEF Scan
<1>3. FileA \in Seq(Nat) /\ FileB \in Seq(Nat) /\ FileA' = FileA /\ FileB' = FileB
  BY <1>1, TaskIs DEF FileA, FileB
<1>4. \A t \in found' : t \in Tile /\ Common(t)
  <2>1. DOMAIN FileA \subseteq Nat /\ DOMAIN FileB \subseteq Nat /\ n \in Nat \ {0} /\ n >= MinMatch
    BY <1>3, ConstantsTyped
  <2> QED BY <1>2, <2>1 DEF Runs, IsRun, Tile, Common
<1>5. Prepared'
  BY <1>1 DEF Prepared, Possible, Readable
<1>6. Tiled'
  BY <1>1, <1>3, <1>4 DEF Tiled, Common, Apart, Marked
<1>7. Scored'
  BY <1>1 DEF Scored, ScoresAreShares
<1> QED BY <1>5, <1>6, <1>7 DEF Compared

LEMMA MarkTileStep == Compared /\ MarkTile => Compared'
<1> SUFFICES ASSUME Compared, MarkTile PROVE Compared'
  OBVIOUS
<1>1. /\ Prepared /\ Tiled /\ Scored /\ found # {} /\ task # NoTask
      /\ UNCHANGED <<prints, unread, solution, held, heldCount, analysis, todo, task, pairMatched, covered>>
  BY DEF Compared, MarkTile, Prepared
<1>2. PICK t \in found :
        /\ found' = found \ {t}
        /\ LET free == TileA(t) \cap markedA = {} /\ TileB(t) \cap markedB = {} IN
           \/ /\ free /\ tiles' = tiles \cup {t}
              /\ markedA' = markedA \cup TileA(t) /\ markedB' = markedB \cup TileB(t)
           \/ UNCHANGED <<tiles, markedA, markedB>>
  BY <1>1, FirstIs DEF MarkTile, Tiled
<1>3. FileA' = FileA /\ FileB' = FileB
  BY <1>1 DEF FileA, FileB
<1>4. Prepared'
  BY <1>1 DEF Prepared, Possible, Readable
<1>5. tiles' \cup found' \subseteq tiles \cup found
  BY <1>2
<1>6. Apart' /\ Marked'
  <2>1. CASE UNCHANGED <<tiles, markedA, markedB>>
    BY <1>1, <2>1 DEF Tiled, Apart, Marked
  <2>2. CASE /\ TileA(t) \cap markedA = {} /\ TileB(t) \cap markedB = {} /\ tiles' = tiles \cup {t}
             /\ markedA' = markedA \cup TileA(t) /\ markedB' = markedB \cup TileB(t)
    <3>1. Marked'
      BY <1>1, <2>2 DEF Tiled, Marked
    <3>2. \A u \in tiles : TileA(t) \cap TileA(u) = {} /\ TileB(t) \cap TileB(u) = {}
      BY <1>1, <2>2 DEF Tiled, Marked
    <3>3. Apart'
      BY <1>1, <2>2, <3>2 DEF Tiled, Apart
    <3> QED BY <3>1, <3>3
  <2> QED BY <1>2, <2>1, <2>2
<1>7. Tiled'
  BY <1>1, <1>3, <1>5, <1>6 DEF Tiled, Common
<1>8. Scored'
  BY <1>1 DEF Scored, ScoresAreShares
<1> QED BY <1>4, <1>7, <1>8 DEF Compared

(***************************************************************************)
(* The comparisons.                                                        *)
(***************************************************************************)
LEMMA TakeStep == Compared /\ Take => Compared'
<1> SUFFICES ASSUME Compared, Take PROVE Compared'
  OBVIOUS
<1>1. /\ Prepared /\ Tiled /\ Scored /\ task = NoTask /\ found = {} /\ task' \in todo /\ todo' \subseteq todo
      /\ markedA' = {} /\ markedB' = {} /\ tiles' = {}
      /\ UNCHANGED <<prints, unread, solution, held, heldCount, analysis, found, pairMatched, covered>>
  BY DEF Compared, Prepared, Take
<1>2. Prepared'
  BY <1>1 DEF Prepared, Possible, Readable
<1>3. Tiled'
  BY <1>1 DEF Tiled, Apart, Marked
<1>4. Scored'
  BY <1>1 DEF Scored, ScoresAreShares
<1> QED BY <1>2, <1>3, <1>4 DEF Compared

\* The tiles of a comparison that is over are of no file any more.
LEMMA TaskOver ==
  ASSUME Tiled, task' = NoTask, UNCHANGED <<tiles, found, markedA, markedB>>
  PROVE  Tiled'
  BY DEF Tiled, Apart, Marked

LEMMA WithoutSolutionCodeStep == Compared /\ WithoutSolutionCode => Compared'
<1> SUFFICES ASSUME Compared, WithoutSolutionCode PROVE Compared'
  OBVIOUS
<1>1. /\ Prepared /\ Tiled /\ Scored /\ task.kind = "solution" /\ task # NoTask /\ found = {} /\ task' = NoTask
      /\ held' = [held EXCEPT ![task.x] = SetAside(@)]
      /\ heldCount' = [heldCount EXCEPT ![task.x] = @ - TiledTokens]
      /\ UNCHANGED <<prints, unread, solution, analysis, todo, markedA, markedB, found, tiles, pairMatched,
                     covered>>
  BY DEF Compared, WithoutSolutionCode, TilingDone, NoTask
<1>2. PICK x \in Everyone : x = task.x /\ FileA = held[x] /\ analysis = "solution"
  BY <1>1, TaskIs
<1>3. PICK file \in Seq(Nat), count \in Nat :
        /\ held' = [held EXCEPT ![x] = file] /\ heldCount' = [heldCount EXCEPT ![x] = count]
        /\ count = TokenCount(file)
  <2>1. held[x] \in Seq(Nat) /\ heldCount[x] = TokenCount(held[x])
    BY <1>1 DEF Prepared, Scored, ScoresAreShares
  <2>2. SetAside(held[x]) \in Seq(Nat) /\ TokenCount(SetAside(held[x])) = heldCount[x] - TiledTokens
    BY <1>1, <1>2, <2>1, AsideIs
  <2>3. TokenCount(SetAside(held[x])) \in Nat
    BY <2>2, TokensFinite
  <2> QED BY <1>1, <1>2, <2>2, <2>3
<1>4. held' \in [Everyone -> Seq(Nat)] /\ heldCount' \in [Everyone -> Nat]
  <2>1. held \in [Everyone -> Seq(Nat)] /\ heldCount \in [Everyone -> Nat]
    BY <1>1 DEF Prepared
  <2> QED BY <1>3, <2>1
<1>5. Prepared'
  BY <1>1, <1>4 DEF Prepared, Possible, Readable
<1>6. Tiled'
  BY <1>1, TaskOver
<1>7. \A p \in Everyone \X Everyone : pairMatched[p] = 0
  BY <1>1, <1>2 DEF Scored
<1>8. Scored'
  <2>1. \A i \in Everyone : heldCount'[i] = TokenCount(held'[i])
    BY <1>1, <1>3 DEF Prepared, Scored, ScoresAreShares
  <2>2. \A p \in Everyone \X Everyone : pairMatched[p] <= heldCount'[p[1]] /\ pairMatched[p] <= heldCount'[p[2]]
    BY <1>4, <1>7
  <2>3. DOMAIN held' = Everyone /\ DOMAIN pairMatched = Everyone \X Everyone
    BY <1>1, <1>4 DEF Prepared
  <2> QED BY <1>1, <1>7, <2>1, <2>2, <2>3 DEF Scored, ScoresAreShares, Everyone
<1> QED BY <1>5, <1>6, <1>8 DEF Compared

LEMMA ComparePairStep == Compared /\ ComparePair => Compared'
<1> SUFFICES ASSUME Compared, ComparePair PROVE Compared'
  OBVIOUS
<1>1. /\ Prepared /\ Tiled /\ Scored /\ task.kind = "pair" /\ task # NoTask /\ found = {} /\ task' = NoTask
      /\ pairMatched' = [pairMatched EXCEPT ![<<task.x, task.y>>] = TiledTokens]
      /\ UNCHANGED <<prints, unread, solution, held, heldCount, analysis, todo, markedA, markedB, found, tiles,
                     covered>>
  BY DEF Compared, ComparePair, TilingDone, NoTask
<1>2. PICK x \in Everyone, y \in Everyone :
        x = task.x /\ y = task.y /\ FileA = held[x] /\ FileB = held[y] /\ analysis = "pairs"
  BY <1>1, TaskIs
<1>3. PICK matched \in Nat :
        /\ pairMatched' = [pairMatched EXCEPT ![<<x, y>>] = matched]
        /\ matched <= heldCount[x] /\ matched <= heldCount[y]
  <2>1. heldCount[x] = TokenCount(held[x]) /\ heldCount[y] = TokenCount(held[y])
    BY <1>1 DEF Prepared, Scored, ScoresAreShares
  <2> QED BY <1>1, <1>2, <2>1, MatchedWithin
<1>4. pairMatched' \in [Everyone \X Everyone -> Nat]
  BY <1>1, <1>3 DEF Prepared
<1>5. Prepared'
  BY <1>1, <1>4 DEF Prepared, Possible, Readable
<1>6. Tiled'
  BY <1>1, TaskOver
<1>7. Scored'
  <2>1. \A p \in Everyone \X Everyone : pairMatched'[p] <= heldCount[p[1]] /\ pairMatched'[p] <= heldCount[p[2]]
    <3> SUFFICES ASSUME NEW p \in Everyone \X Everyone
                 PROVE  pairMatched'[p] <= heldCount[p[1]] /\ pairMatched'[p] <= heldCount[p[2]]
      OBVIOUS
    <3>1. CASE p = <<x, y>>
      BY <1>1, <1>3, <3>1 DEF Prepared
    <3>2. CASE p # <<x, y>>
      BY <1>1, <1>3, <3>2 DEF Prepared, Scored, ScoresAreShares
    <3> QED BY <3>1, <3>2
  <2>2. DOMAIN pairMatched' = Everyone \X Everyone
    BY <1>4
  <2> QED BY <1>1, <1>2, <2>1, <2>2 DEF Scored, ScoresAreShares
<1> QED BY <1>5, <1>6, <1>7 DEF Compared

LEMMA CoverPatternStep == Compared /\ CoverPattern => Compared'
<1> SUFFICES ASSUME Compared, CoverPattern PROVE Compared'
  OBVIOUS
<1>1. /\ Prepared /\ Tiled /\ Scored /\ task.kind = "pattern" /\ task # NoTask /\ found = {} /\ task' = NoTask
      /\ covered' = covered \/ covered' = [covered EXCEPT ![task.x] = @ \cup markedA]
      /\ UNCHANGED <<prints, unread, solution, held, heldCount, analysis, todo, markedA, markedB, found, tiles,
                     pairMatched>>
  BY DEF Compared, CoverPattern, TilingDone, NoTask
<1>2. PICK x \in Everyone : x = task.x /\ FileA = prints[x]
  BY <1>1, TaskIs
<1>3. markedA \subseteq Nat /\ \A k \in markedA : prints[x][k] # 0
  BY <1>1, <1>2, MarkedIs
<1>4. covered' \in [Everyone -> SUBSET Nat]
  BY <1>1, <1>2, <1>3 DEF Prepared
<1>5. Prepared'
  BY <1>1, <1>4 DEF Prepared, Possible, Readable
<1>6. Tiled'
  BY <1>1, TaskOver
<1>7. \A i \in Everyone : \A k \in covered'[i] : prints[i][k] # 0
  BY <1>1, <1>2, <1>3 DEF Prepared, Scored, ScoresAreShares
<1>8. Scored'
  BY <1>1, <1>4, <1>7 DEF Scored, ScoresAreShares
<1> QED BY <1>5, <1>6, <1>8 DEF Compared

LEMMA NextPhaseStep == Compared /\ (NextPhase \/ LinkSimilar) => Compared'
<1> SUFFICES ASSUME Compared, NextPhase \/ LinkSimilar PROVE Compared'
  OBVIOUS
<1>1. /\ Prepared /\ Tiled /\ Scored /\ task = NoTask /\ todo = {}
      /\ \/ /\ analysis = "solution" /\ analysis' = "pairs"
            /\ todo' = {t \in [kind : {"pair"}, x : Readable, y : Readable] : t.x < t.y}
         \/ analysis' = "patterns" /\ todo' = [kind : {"pattern"}, x : Readable, y : Usable]
         \/ analysis' = "done" /\ todo' = todo
      /\ UNCHANGED <<prints, unread, solution, held, heldCount, task, markedA, markedB, found, tiles,
                     pairMatched, covered>>
  BY DEF Compared, NextPhase, LinkSimilar
<1>2. Readable' = Readable /\ Usable \subseteq DOMAIN Patterns
  BY <1>1 DEF Readable, Usable
<1>3. todo' \subseteq Possible'
  BY <1>1, <1>2 DEF Possible
<1>4. Prepared'
  BY <1>1, <1>3 DEF Prepared
<1>5. Tiled'
  BY <1>1, TaskOver
<1>6. Scored'
  BY <1>1 DEF Scored, ScoresAreShares
<1> QED BY <1>4, <1>5, <1>6 DEF Compared

LEMMA AnalysisInvInit == AnalysisInit => Compared
<1> SUFFICES ASSUME AnalysisInit PROVE Compared
  OBVIOUS
<1>1. /\ prints \in [Everyone -> Seq(Nat)] /\ held = prints /\ solution \in Seq(Nat)
      /\ heldCount = [i \in Everyone |-> TokenCount(prints[i])]
  BY ConstantsTyped DEF AnalysisInit, Everyone
<1>2. \A i \in Everyone : TokenCount(prints[i]) \in Nat
  BY <1>1, TokensFinite
<1>3. /\ pairMatched = [p \in Everyone \X Everyone |-> 0] /\ covered = [i \in Everyone |-> {}]
      /\ analysis = "solution" /\ task = NoTask /\ found = {} /\ tiles = {} /\ markedA = {} /\ markedB = {}
      /\ todo \subseteq [kind : {"solution"}, x : Readable, y : {0}]
  BY DEF AnalysisInit, Everyone
<1>4. Prepared
  BY <1>1, <1>2, <1>3 DEF Prepared, Possible
<1>5. Tiled
  BY <1>3 DEF Tiled, Apart, Marked
<1>6. Scored
  <2>1. \A p \in Everyone \X Everyone : p[1] \in Everyone /\ p[2] \in Everyone
    OBVIOUS
  <2> QED BY <1>1, <1>2, <1>3, <2>1 DEF Scored, ScoresAreShares
<1> QED BY <1>4, <1>5, <1>6 DEF Compared

LEMMA AnalysisInvNext == AnalysisInv /\ [AnalysisNext]_analysisVars => AnalysisInv'
<1> SUFFICES ASSUME AnalysisInv, [AnalysisNext]_analysisVars PROVE AnalysisInv'
  OBVIOUS
<1>1. CASE NoAnalysis
  <2>1. ~AnalysisNext
    BY <1>1 DEF NoAnalysis, NoTask, AnalysisNext, Take, Scan, MarkTile, WithoutSolutionCode, ComparePair,
                CoverPattern, NextPhase, LinkSimilar
  <2> QED BY <1>1, <2>1 DEF AnalysisInv, NoAnalysis, analysisVars, flags
<1>2. CASE Compared /\ UNCHANGED analysisVars
  <2>1. Prepared'
    BY <1>2 DEF Compared, Prepared, Possible, Readable, analysisVars
  <2>3. Tiled'
    <3>1. UNCHANGED <<prints, held, solution, task, found, tiles, markedA, markedB>>
      BY <1>2 DEF analysisVars
    <3>2. FileA' = FileA /\ FileB' = FileB
      BY <3>1 DEF FileA, FileB
    <3> QED BY <1>2, <3>1, <3>2 DEF Compared, Tiled, Common, Apart, Marked
  <2>2. Scored'
    BY <1>2 DEF Compared, Scored, ScoresAreShares, analysisVars
  <2> QED BY <2>1, <2>2, <2>3 DEF AnalysisInv, Compared
<1>3. CASE Compared /\ AnalysisNext
  BY <1>3, TakeStep, ScanStep, MarkTileStep, WithoutSolutionCodeStep, ComparePairStep, CoverPatternStep,
     NextPhaseStep DEF AnalysisNext, AnalysisInv
<1> QED BY <1>1, <1>2, <1>3 DEF AnalysisInv

(***************************************************************************)
(* Grading and analysis.                                                   *)
(***************************************************************************)
\* An analysis grades nothing, though its context may be cancelled like a job's.
Dormant ==
    /\ phase = "off" /\ bar \in Nat /\ \A w \in Workers : Pc(w) = "idle"
    /\ \A i \in Subs : ~compiled[i].ok

GradingInv == Dormant \/ IInv

LEMMA DormantStep ==
  ASSUME Dormant, [Next]_vars
  PROVE  Dormant' /\ bar' = bar
<1>1. ASSUME NEW w \in Workers PROVE ~CompileStep(w) /\ ~ExecuteStep(w)
  <2>1. phase = "off" /\ Pc(w) = "idle"
    BY DEF Dormant
  <2>2. ~CompileStep(w)
    BY <2>1 DEF CompileStep, Fetch, NotStarted, Resolve, ReadDir, FillFiles, FillDir, Build, Store,
                CountCompiled, ReportCompiled
  <2>3. ~ExecuteStep(w)
    BY <2>1 DEF ExecuteStep, Hand, Execute, ReportExecuted
  <2> QED BY <2>2, <2>3
<1>2. ~Assemble /\ ~Finish
  BY DEF Dormant, Assemble, Finish
<1>3. UNCHANGED <<phase, worker, compiled, bar>>
  BY <1>1, <1>2 DEF Next, Cancel, vars
<1> QED BY <1>3 DEF Dormant, Pc

LEMMA EngineInv == EngineSpec => [](GradingInv /\ AnalysisInv)
<1>1. ASSUME EngineInit PROVE GradingInv /\ AnalysisInv
  <2>1. NoGrading => Dormant
    BY DEF NoGrading, Dormant, Pc, Idle, Unbuilt
  <2> QED BY <1>1, <2>1, InvInit, AnalysisInvInit DEF EngineInit, GradingInv, AnalysisInv
<1>2. ASSUME GradingInv, AnalysisInv, [EngineNext]_<<vars, analysisVars>>
      PROVE  GradingInv' /\ AnalysisInv'
  <2>1. [Next]_vars /\ [AnalysisNext]_analysisVars
    BY <1>2 DEF EngineNext, Grading, Analysis
  <2> QED BY <1>2, <2>1, DormantStep, InvNext, AnalysisInvNext DEF GradingInv
<1> QED BY <1>1, <1>2, PTL DEF EngineSpec

\* greedyStringTiling, "each token is matched at most once": for files of any length and
\* whatever was set aside of them, tiles are common runs that overlap on neither side.
THEOREM MatchedOnce == EngineSpec => []TokensMatchedOnce
<1>1. ASSUME AnalysisInv PROVE TokensMatchedOnce
  <2>1. CASE NoAnalysis
    BY <2>1 DEF NoAnalysis, TokensMatchedOnce
  <2>2. CASE Compared
    BY <2>2 DEF Compared, Tiled, Common, Apart, Marked, TokensMatchedOnce
  <2> QED BY <1>1, <2>1, <2>2 DEF AnalysisInv
<1> QED BY <1>1, EngineInv, PTL

\* A score is a share: no comparison counts more tokens than its files have left when
\* the solution's are set aside, and coverage is of tokens only (withoutSolutionCode,
\* compareFingerprints, compareSubmissionToDictionary).
THEOREM Shares == EngineSpec => []ScoresAreShares
<1>1. ASSUME AnalysisInv PROVE ScoresAreShares
  <2>1. CASE NoAnalysis
    BY <2>1 DEF NoAnalysis, ScoresAreShares
  <2>2. CASE Compared
    BY <2>2 DEF Compared, Scored
  <2> QED BY <1>1, <2>1, <2>2 DEF AnalysisInv
<1> QED BY <1>1, EngineInv, PTL

\* What a holder of the slot has graded is as GradePipelineProofs has it, whichever of
\* the two it makes the engine do.
THEOREM GradingKept == EngineSpec => [](CompiledIsBuilt /\ EachGradedOnce) /\ BarNeverBack
<1>1. ASSUME GradingInv PROVE CompiledIsBuilt /\ EachGradedOnce
  <2>1. CASE Dormant
    BY <2>1 DEF Dormant, CompiledIsBuilt, EachGradedOnce
  <2> QED BY <1>1, <2>1, BuiltHolds, GradedHolds DEF GradingInv
<1>2. GradingInv /\ [EngineNext]_<<vars, analysisVars>> => [bar' >= bar]_vars
  <2> SUFFICES ASSUME GradingInv, [EngineNext]_<<vars, analysisVars>>, vars' # vars PROVE bar' >= bar
    OBVIOUS
  <2>1. [Next]_vars
    BY DEF EngineNext, Grading, Analysis
  <2>2. CASE Dormant
    <3>1. Dormant' /\ bar' = bar
      BY <2>1, <2>2, DormantStep
    <3> QED BY <3>1, <2>2 DEF Dormant
  <2> QED BY <2>1, <2>2, BarStep DEF GradingInv
<1> QED BY <1>1, <1>2, EngineInv, PTL DEF EngineSpec, BarNeverBack

(***************************************************************************)
(* Two equal files.  A run of the diagonal covers a whole stretch of       *)
(* tokens, or a longer one would; so only whole stretches are marked, the  *)
(* same ones on both sides, and what is left has none of MinMatch tokens.  *)
(***************************************************************************)
\* No token stands right before or right after the run.
Whole(t) ==
    /\ t.a - 1 \in DOMAIN FileA => FileA[t.a - 1] = 0
    /\ t.a + t.length \in DOMAIN FileA => FileA[t.a + t.length] = 0

Straight(start, length) == [a |-> start, b |-> start, length |-> length]

\* Each of the longest runs starts, on either side, where one of the diagonal does
\* that is still to be looked at or has been marked.
Diagonal ==
    task.kind = "pair" /\ FileA = FileB =>
        /\ \A t \in tiles : t.a = t.b /\ Whole(t)
        /\ \A t \in found :
              /\ Whole(t)
              /\ Straight(t.a, t.length) \in found \/ t.a \in markedA
              /\ Straight(t.b, t.length) \in found \/ t.b \in markedB

LEMMA SidesEqual ==
  ASSUME Marked, \A t \in tiles : t.a = t.b
  PROVE  markedA = markedB
BY DEF Marked, TileA, TileB

\* A stretch that is marked somewhere is marked from its start.
LEMMA WholeTile ==
  ASSUME NEW t \in Tile, NEW w \in Tile, Common(t), Common(w), Whole(t), Whole(w),
         TileA(t) \cap TileA(w) # {}
  PROVE  t.a = w.a
<1>1. PICK m : m \in TileA(t) /\ m \in TileA(w)
  OBVIOUS
<1>2. /\ t.a \in Nat /\ t.length \in Nat \ {0} /\ w.a \in Nat /\ w.length \in Nat \ {0} /\ m \in Int
      /\ t.a <= m /\ m <= t.a + t.length - 1 /\ w.a <= m /\ m <= w.a + w.length - 1
  BY <1>1 DEF Tile, TileA, Cells
<1>3. ASSUME t.a < w.a PROVE FALSE
  <2>1. w.a - 1 - t.a \in 0 .. t.length - 1 /\ t.a + (w.a - 1 - t.a) = w.a - 1 /\ w.a - 1 \in TileA(t)
    BY <1>2, <1>3 DEF TileA, Cells
  <2>2. w.a - 1 \in DOMAIN FileA /\ FileA[w.a - 1] # 0
    BY <2>1 DEF Common
  <2> QED BY <2>2 DEF Whole
<1>4. ASSUME w.a < t.a PROVE FALSE
  <2>1. t.a - 1 - w.a \in 0 .. w.length - 1 /\ w.a + (t.a - 1 - w.a) = t.a - 1 /\ t.a - 1 \in TileA(w)
    BY <1>2, <1>4 DEF TileA, Cells
  <2>2. t.a - 1 \in DOMAIN FileA /\ FileA[t.a - 1] # 0
    BY <2>1 DEF Common
  <2> QED BY <2>2 DEF Whole
<1> QED BY <1>2, <1>3, <1>4

LEMMA DiagonalScan == Compared /\ Diagonal /\ Scan => Diagonal'
<1> SUFFICES ASSUME Compared, Diagonal, Scan, task.kind = "pair", FileA = FileB PROVE Diagonal'
  <2>1. Scan => task' = task /\ FileA' = FileA /\ FileB' = FileB
    BY DEF Scan, FileA, FileB
  <2>2. Scan /\ ~(task.kind = "pair" /\ FileA = FileB) => Diagonal'
    BY <2>1 DEF Diagonal
  <2> QED BY <2>2
<1>1. /\ UNCHANGED <<task, tiles, markedA, markedB>> /\ FileA' = FileA /\ FileB' = FileB
      /\ Prepared /\ Tiled /\ task # NoTask
  BY DEF Compared, Scan, FileA, FileB
<1>2. PICK n \in MinMatch .. Len(FileA) : found' = Runs(n) /\ \A longer \in n + 1 .. Len(FileA) : Runs(longer) = {}
  BY DEF Scan
<1>3. FileA \in Seq(Nat) /\ DOMAIN FileA = 1 .. Len(FileA) /\ Len(FileA) \in Nat /\ n \in Nat \ {0}
  BY <1>1, TaskIs, ConstantsTyped
<1>4. markedA = markedB /\ \A w \in tiles : Whole(w) /\ w \in Tile /\ Common(w)
  BY <1>1, SidesEqual DEF Diagonal, Tiled
<1>5. ASSUME NEW t \in Runs(n)
      PROVE  /\ t.a \in 1 .. Len(FileA) /\ t.b \in 1 .. Len(FileA) /\ t.length = n
             /\ \A k \in t.a .. t.a + n - 1 : k \in 1 .. Len(FileA) /\ k \notin markedA /\ FileA[k] # 0
             /\ \A k \in t.b .. t.b + n - 1 : k \in 1 .. Len(FileA) /\ k \notin markedA /\ FileA[k] # 0
  <2>1. t.a \in 1 .. Len(FileA) /\ t.b \in 1 .. Len(FileA) /\ t.length = n /\ IsRun(t)
    BY <1>3 DEF Runs
  <2>2. ASSUME NEW k \in t.a .. t.a + n - 1 PROVE FileA[k] # 0
    <3>1. k - t.a \in 0 .. t.length - 1 /\ t.a + (k - t.a) = k
      BY <1>3, <2>1
    <3> QED BY <2>1, <3>1 DEF IsRun
  <2>3. ASSUME NEW k \in t.b .. t.b + n - 1 PROVE FileA[k] # 0
    <3>1. k - t.b \in 0 .. t.length - 1 /\ t.b + (k - t.b) = k
      BY <1>3, <2>1
    <3> QED BY <2>1, <3>1 DEF IsRun
  <2> QED BY <1>3, <1>4, <2>1, <2>2, <2>3 DEF IsRun, TileA, TileB, Cells
<1>6. ASSUME NEW s \in 1 .. Len(FileA), NEW m \in Nat \ {0},
             \A k \in s .. s + m - 1 : k \in 1 .. Len(FileA) /\ k \notin markedA /\ FileA[k] # 0
      PROVE  Straight(s, m) \in Runs(m)
  <2>1. \A k \in 0 .. m - 1 : s + k \in s .. s + m - 1
    OBVIOUS
  <2> QED BY <1>3, <1>4, <1>6, <2>1 DEF Runs, IsRun, TileA, TileB, Cells, Straight
<1>7. ASSUME NEW t \in Runs(n) PROVE Whole(t)
  <2>1. PICK p \in 1 .. Len(FileA) :
           /\ t.a = p /\ t.length = n
           /\ \A k \in p .. p + n - 1 : k \in 1 .. Len(FileA) /\ k \notin markedA /\ FileA[k] # 0
    BY <1>5
  <2>2. p \in Int /\ p >= 1 /\ n \in Int /\ n >= 1 /\ p \in p .. p + n - 1 /\ p + n - 1 \in p .. p + n - 1
    BY <1>3
  <2>3. \A w \in tiles : /\ w.a \in Int /\ w.length \in Int /\ Whole(w)
                         /\ \A k \in Int : k \in TileA(w) <=> w.a <= k /\ k <= w.a + w.length - 1
    BY <1>4 DEF Tile, TileA, Cells
  <2>4. markedA = UNION {TileA(w) : w \in tiles}
    BY <1>1 DEF Tiled, Marked
  <2>5. ASSUME p - 1 \in DOMAIN FileA, FileA[p - 1] # 0 PROVE FALSE
    <3>1. p - 1 \notin markedA
      <4> SUFFICES ASSUME NEW w \in tiles, p - 1 \in TileA(w) PROVE FALSE
        BY <2>4
      <4>1. p \notin TileA(w) /\ p \in DOMAIN FileA /\ FileA[p] # 0
        BY <1>3, <2>1, <2>2, <2>4
      <4>2. w.a + w.length = p
        BY <2>2, <2>3, <4>1
      <4> QED BY <2>3, <4>1, <4>2 DEF Whole
    <3>2. \A k \in p - 1 .. (p - 1) + (n + 1) - 1 : k = p - 1 \/ k \in p .. p + n - 1
      BY <2>2
    <3>3. \A k \in p - 1 .. (p - 1) + (n + 1) - 1 : k \in 1 .. Len(FileA) /\ k \notin markedA /\ FileA[k] # 0
      BY <1>3, <2>1, <2>5, <3>1, <3>2
    <3>4. p - 1 \in 1 .. Len(FileA) /\ n + 1 \in Nat \ {0}
      BY <1>3, <2>2, <2>5
    <3>5. Straight(p - 1, n + 1) \in Runs(n + 1)
      BY <1>6, <3>3, <3>4
    <3>6. n + 1 \in n + 1 .. Len(FileA)
      <4>1. p + n - 1 <= Len(FileA)
        BY <1>3, <2>1, <2>2
      <4> QED BY <1>3, <2>2, <3>4, <4>1
    <3> QED BY <1>2, <3>5, <3>6
  <2>6. ASSUME p + n \in DOMAIN FileA, FileA[p + n] # 0 PROVE FALSE
    <3>1. p + n \notin markedA
      <4> SUFFICES ASSUME NEW w \in tiles, p + n \in TileA(w) PROVE FALSE
        BY <2>4
      <4>1. p + n - 1 \notin TileA(w) /\ p + n - 1 \in DOMAIN FileA /\ FileA[p + n - 1] # 0
        BY <1>3, <2>1, <2>2, <2>4
      <4>2. p + n \in Int /\ p + n - 1 \in Int
        BY <2>2
      <4>3. w.a <= p + n /\ p + n <= w.a + w.length - 1 /\ ~(w.a <= p + n - 1 /\ p + n - 1 <= w.a + w.length - 1)
        BY <2>3, <4>1, <4>2
      <4>4. w.a - 1 = p + n - 1
        BY <2>2, <2>3, <4>3
      <4> QED BY <2>3, <4>1, <4>4 DEF Whole
    <3>2. \A k \in p .. p + (n + 1) - 1 : k = p + n \/ k \in p .. p + n - 1
      BY <2>2
    <3>3. \A k \in p .. p + (n + 1) - 1 : k \in 1 .. Len(FileA) /\ k \notin markedA /\ FileA[k] # 0
      BY <1>3, <2>1, <2>6, <3>1, <3>2
    <3>4. n + 1 \in Nat \ {0}
      BY <2>2
    <3>5. Straight(p, n + 1) \in Runs(n + 1)
      BY <1>6, <3>3, <3>4
    <3>6. n + 1 \in n + 1 .. Len(FileA)
      BY <1>3, <2>2, <2>6
    <3> QED BY <1>2, <3>5, <3>6
  <2> QED BY <2>1, <2>5, <2>6 DEF Whole
<1>8. ASSUME NEW t \in Runs(n) PROVE Straight(t.a, t.length) \in Runs(n) /\ Straight(t.b, t.length) \in Runs(n)
  BY <1>3, <1>5, <1>6
<1> QED BY <1>1, <1>2, <1>7, <1>8 DEF Diagonal, Whole

LEMMA DiagonalMark == Compared /\ Diagonal /\ MarkTile => Diagonal'
<1> SUFFICES ASSUME Compared, Diagonal, MarkTile, task.kind = "pair", FileA = FileB PROVE Diagonal'
  <2>1. MarkTile => task' = task /\ FileA' = FileA /\ FileB' = FileB
    BY DEF MarkTile, FileA, FileB
  <2>2. MarkTile /\ ~(task.kind = "pair" /\ FileA = FileB) => Diagonal'
    BY <2>1 DEF Diagonal
  <2> QED BY <2>2
<1>1. /\ UNCHANGED task /\ FileA' = FileA /\ FileB' = FileB /\ Prepared /\ Tiled /\ task # NoTask /\ found # {}
  BY DEF Compared, MarkTile, FileA, FileB, NoTask
<1>2. PICK t \in found :
        /\ found' = found \ {t} /\ \A u \in found : Earlier(t, u)
        /\ LET free == TileA(t) \cap markedA = {} /\ TileB(t) \cap markedB = {} IN
           IF free THEN /\ tiles' = tiles \cup {t}
                        /\ markedA' = markedA \cup TileA(t) /\ markedB' = markedB \cup TileB(t)
           ELSE UNCHANGED <<tiles, markedA, markedB>>
  BY <1>1, FirstIs DEF MarkTile, Tiled
<1>3. /\ \A w \in tiles \cup found : w \in Tile /\ Common(w) /\ Whole(w)
      /\ \A w \in tiles : w.a = w.b
      /\ markedA = markedB /\ markedA = UNION {TileA(w) : w \in tiles}
  BY <1>1, SidesEqual DEF Diagonal, Tiled, Marked
<1>4. t.a \in TileA(t) /\ t.b \in TileB(t) /\ t.a \in Nat /\ t.b \in Nat /\ t.length \in Nat
  BY <1>3 DEF Tile, TileA, TileB, Cells
<1>5. CASE TileA(t) \cap markedA = {} /\ TileB(t) \cap markedB = {}
  <2>1. Straight(t.a, t.length) \in found /\ Straight(t.b, t.length) \in found
    BY <1>4, <1>5 DEF Diagonal
  <2>2. t.a = t.b
    BY <1>2, <1>4, <2>1 DEF Earlier, Straight
  <2>3. ASSUME NEW u \in found, NEW s \in {u.a, u.b} PROVE Straight(s, u.length) \in found' \/ s \in markedA'
    <3>1. Straight(s, u.length) \in found \/ s \in markedA
      BY <1>3 DEF Diagonal
    <3>2. CASE Straight(s, u.length) = t
      BY <1>2, <1>4, <1>5, <3>2 DEF Straight
    <3> QED BY <1>2, <1>5, <3>1, <3>2
  <2>4. markedA' = markedB'
    BY <1>2, <1>3, <1>5, <2>2 DEF TileA, TileB
  <2> QED BY <1>1, <1>2, <1>3, <1>5, <2>2, <2>3, <2>4 DEF Diagonal, Whole
<1>6. CASE ~(TileA(t) \cap markedA = {} /\ TileB(t) \cap markedB = {})
  <2>1. ASSUME NEW u \in found, NEW s \in {u.a, u.b} PROVE Straight(s, u.length) \in found' \/ s \in markedA
    <3>1. Straight(s, u.length) \in found \/ s \in markedA
      BY <1>3 DEF Diagonal
    <3>2. CASE Straight(s, u.length) = t
      <4>1. t.a = s /\ t.b = s
        BY <3>2 DEF Straight
      <4>2. TileA(t) \cap markedA # {}
        BY <1>3, <1>6, <4>1 DEF TileA, TileB
      <4>3. PICK w \in tiles : TileA(t) \cap TileA(w) # {}
        BY <1>3, <4>2
      <4>4. t.a = w.a
        BY <1>3, <4>3, WholeTile
      <4>5. w.a \in TileA(w)
        BY <1>3 DEF Tile, TileA, Cells
      <4> QED BY <1>3, <4>1, <4>4, <4>5
    <3> QED BY <1>2, <3>1, <3>2
  <2> QED BY <1>1, <1>2, <1>3, <1>6, <2>1 DEF Diagonal, Whole
<1> QED BY <1>5, <1>6

\* When nothing is left to tile, no stretch of MinMatch tokens is unmarked.
LEMMA AllTiled ==
  ASSUME Compared, Diagonal, task.kind = "pair", TilingDone, FileA = FileB,
         NEW k \in DOMAIN FileA \ markedA
  PROVE  ~Matchable(FileA, k)
<1> SUFFICES ASSUME NEW start \in DOMAIN FileA, k \in Cells(start, MinMatch),
                    Cells(start, MinMatch) \subseteq DOMAIN FileA,
                    \A n \in Cells(start, MinMatch) : FileA[n] # 0
             PROVE  FALSE
  BY DEF Matchable
<1>1. Prepared /\ Tiled /\ task # NoTask
  BY DEF Compared, NoTask
<1>2. FileA \in Seq(Nat) /\ DOMAIN FileA = 1 .. Len(FileA) /\ Len(FileA) \in Nat /\ MinMatch \in Nat \ {0}
  BY <1>1, TaskIs, ConstantsTyped
<1>3. markedA = markedB /\ \A w \in tiles : Whole(w) /\ w \in Tile
  BY <1>1, SidesEqual DEF Diagonal, Tiled
<1>4. CASE Cells(start, MinMatch) \cap markedA = {}
  <2>1. \A j \in 0 .. MinMatch - 1 : start + j \in Cells(start, MinMatch)
    BY <1>2 DEF Cells
  <2>2. Straight(start, MinMatch) \in Runs(MinMatch)
    BY <1>2, <1>3, <1>4, <2>1 DEF Runs, IsRun, TileA, TileB, Straight
  <2>3. MinMatch <= Len(FileA)
    <3>1. start + MinMatch - 1 \in Cells(start, MinMatch)
      BY <1>2 DEF Cells
    <3> QED BY <1>2, <3>1
  <2> QED BY <1>2, <2>2, <2>3 DEF TilingDone
<1>5. CASE Cells(start, MinMatch) \cap markedA # {}
  <2>1. PICK w \in tiles : Cells(start, MinMatch) \cap TileA(w) # {}
    BY <1>1, <1>5 DEF Tiled, Marked
  <2>2. PICK m : m \in Cells(start, MinMatch) /\ m \in TileA(w)
    BY <2>1
  <2>3. k \notin TileA(w)
    BY <1>1 DEF Tiled, Marked
  <2>4. PICK a \in Nat, end \in Int : w.a = a /\ w.a + w.length = end /\ TileA(w) = a .. end - 1
    BY <1>3 DEF Tile, TileA, Cells
  <2>5. start \in Int /\ MinMatch \in Int
    BY <1>2
  <2>6. /\ k \in Int /\ start <= k /\ k < start + MinMatch
        /\ m \in Int /\ start <= m /\ m < start + MinMatch /\ a <= m /\ m < end
    BY <2>2, <2>4, <2>5 DEF Cells
  <2>7. CASE k < a
    <3>1. a - 1 \in Cells(start, MinMatch)
      BY <2>5, <2>6, <2>7 DEF Cells
    <3> QED BY <1>3, <2>4, <3>1 DEF Whole
  <2>8. CASE k >= end
    <3>1. end \in Cells(start, MinMatch)
      BY <2>5, <2>6, <2>8 DEF Cells
    <3> QED BY <1>3, <2>4, <3>1 DEF Whole
  <2>9. k < a \/ k >= end
    BY <2>3, <2>4, <2>6
  <2> QED BY <2>7, <2>8, <2>9
<1> QED BY <1>4, <1>5

(***************************************************************************)
(* The tiling of two files depends on nothing but the files: what it does  *)
(* next is a function of what it has done.                                 *)
(***************************************************************************)
Done == [a |-> markedA, b |-> markedB, found |-> found, tiles |-> tiles]
Nothing == [a |-> {}, b |-> {}, found |-> {}, tiles |-> {}]

RunsOf(f, g, s, n) ==
    {t \in [a : DOMAIN f, b : DOMAIN g, length : {n}] :
        /\ TileA(t) \subseteq DOMAIN f \ s.a /\ TileB(t) \subseteq DOMAIN g \ s.b
        /\ \A k \in 0 .. t.length - 1 : f[t.a + k] # 0 /\ f[t.a + k] = g[t.b + k]}

\* The round of Scan, and MarkTile.
Collects(f, g, s, u) ==
    /\ s.found = {}
    /\ \E n \in MinMatch .. Len(f) :
          /\ RunsOf(f, g, s, n) # {}
          /\ u = [a |-> s.a, b |-> s.b, found |-> RunsOf(f, g, s, n), tiles |-> s.tiles]
          /\ \A longer \in n + 1 .. Len(f) : RunsOf(f, g, s, longer) = {}

Marks(s, u) ==
    /\ s.found # {}
    /\ LET t == First(s.found)
           free == TileA(t) \cap s.a = {} /\ TileB(t) \cap s.b = {} IN
       u = [a |-> IF free THEN s.a \cup TileA(t) ELSE s.a,
            b |-> IF free THEN s.b \cup TileB(t) ELSE s.b,
            found |-> s.found \ {t},
            tiles |-> IF free THEN s.tiles \cup {t} ELSE s.tiles]

Goes(f, g, s, u) == Collects(f, g, s, u) \/ Marks(s, u)
Ended(f, g, s) == s.found = {} /\ \A n \in MinMatch .. Len(f) : RunsOf(f, g, s, n) = {}

\* h is a tiling of m steps.
Leads(f, g, m, h) == h[0] = Nothing /\ \A i \in 1 .. m : Goes(f, g, h[i - 1], h[i])
Reached(f, g, s) == \E m \in Nat : \E h : Leads(f, g, m, h) /\ h[m] = s

LEMMA StepUnique ==
  ASSUME NEW f \in Seq(Nat), NEW g, NEW s, NEW u, NEW v, Goes(f, g, s, u), Goes(f, g, s, v)
  PROVE  u = v
<1>1. CASE s.found # {}
  BY <1>1 DEF Goes, Collects, Marks
<1>2. CASE s.found = {}
  <2>1. PICK n \in MinMatch .. Len(f) :
          /\ RunsOf(f, g, s, n) # {}
          /\ u = [a |-> s.a, b |-> s.b, found |-> RunsOf(f, g, s, n), tiles |-> s.tiles]
          /\ \A longer \in n + 1 .. Len(f) : RunsOf(f, g, s, longer) = {}
    BY <1>2 DEF Goes, Collects, Marks
  <2>2. PICK m \in MinMatch .. Len(f) :
          /\ RunsOf(f, g, s, m) # {}
          /\ v = [a |-> s.a, b |-> s.b, found |-> RunsOf(f, g, s, m), tiles |-> s.tiles]
          /\ \A longer \in m + 1 .. Len(f) : RunsOf(f, g, s, longer) = {}
    BY <1>2 DEF Goes, Collects, Marks
  <2>3. n \in Int /\ m \in Int /\ Len(f) \in Int
    BY ConstantsTyped
  <2>4. ~(m > n) /\ ~(n > m)
    BY <2>1, <2>2, <2>3
  <2>5. n = m
    BY <2>3, <2>4
  <2> QED BY <2>1, <2>2, <2>5
<1> QED BY <1>1, <1>2

LEMMA EndsNoStep ==
  ASSUME NEW f, NEW g, NEW s, NEW u, Ended(f, g, s)
  PROVE  ~Goes(f, g, s, u)
BY DEF Ended, Goes, Collects, Marks

\* The two tilings are the same as far as both go: at the least step at which they
\* were not, they would have gone different ways.
LEMMA SameWay ==
  ASSUME NEW f \in Seq(Nat), NEW g, NEW m \in Nat, NEW h, NEW j, Leads(f, g, m, h), Leads(f, g, m, j)
  PROVE  h[m] = j[m]
<1> SUFFICES ASSUME h[m] # j[m] PROVE FALSE
  OBVIOUS
<1> DEFINE D == {i \in 0 .. m : h[i] # j[i]}
<1>1. D \subseteq Nat /\ m \in D
  OBVIOUS
<1>2. PICK i \in D : \A k \in D : i <= k
  BY <1>1, Least
<1>3. i # 0
  BY DEF Leads
<1>4. i \in 1 .. m /\ i - 1 \in 0 .. m /\ i - 1 \notin D
  BY <1>2, <1>3
<1>5. h[i - 1] = j[i - 1]
  BY <1>4
<1> QED BY <1>4, <1>5, StepUnique DEF Leads

LEMMA OneEnd ==
  ASSUME NEW f \in Seq(Nat), NEW g, NEW s, NEW u, Reached(f, g, s), Reached(f, g, u),
         Ended(f, g, s), Ended(f, g, u)
  PROVE  s = u
<1>1. PICK m \in Nat : \E h : Leads(f, g, m, h) /\ h[m] = s
  BY DEF Reached
<1>2. PICK h : Leads(f, g, m, h) /\ h[m] = s
  BY <1>1
<1>3. PICK n \in Nat : \E j : Leads(f, g, n, j) /\ j[n] = u
  BY DEF Reached
<1>4. PICK j : Leads(f, g, n, j) /\ j[n] = u
  BY <1>3
<1>5. CASE m = n
  BY <1>2, <1>4, <1>5, SameWay
<1>6. CASE m < n
  <2>1. Leads(f, g, m, j) /\ Goes(f, g, j[m], j[m + 1])
    <3>1. m + 1 \in 1 .. n /\ (m + 1) - 1 = m /\ 1 .. m \subseteq 1 .. n
      BY <1>6
    <3> QED BY <1>4, <3>1 DEF Leads
  <2>2. j[m] = s
    BY <1>2, <2>1, SameWay
  <2> QED BY <2>1, <2>2, EndsNoStep
<1>7. CASE n < m
  <2>1. Leads(f, g, n, h) /\ Goes(f, g, h[n], h[n + 1])
    <3>1. n + 1 \in 1 .. m /\ (n + 1) - 1 = n /\ 1 .. n \subseteq 1 .. m
      BY <1>7
    <3> QED BY <1>2, <3>1 DEF Leads
  <2>2. h[n] = u
    BY <1>4, <2>1, SameWay
  <2> QED BY <2>1, <2>2, EndsNoStep
<1> QED BY <1>5, <1>6, <1>7

LEMMA ReachedStart ==
  ASSUME NEW f, NEW g
  PROVE  Reached(f, g, Nothing)
<1>1. Leads(f, g, 0, [i \in {0} |-> Nothing])
  BY DEF Leads
<1> HIDE DEF Nothing
<1> QED BY <1>1 DEF Reached

LEMMA ReachedStep ==
  ASSUME NEW f, NEW g, NEW s, NEW u, Reached(f, g, s), Goes(f, g, s, u)
  PROVE  Reached(f, g, u)
<1>1. PICK m \in Nat : \E h : Leads(f, g, m, h) /\ h[m] = s
  BY DEF Reached
<1>2. PICK h : Leads(f, g, m, h) /\ h[m] = s
  BY <1>1
<1> DEFINE j == [i \in 0 .. m + 1 |-> IF i = m + 1 THEN u ELSE h[i]]
<1>3. j[0] = h[0] /\ j[m + 1] = u /\ \A i \in 0 .. m : j[i] = h[i]
  OBVIOUS
<1>4. ASSUME NEW i \in 1 .. m + 1 PROVE Goes(f, g, j[i - 1], j[i])
  <2>1. CASE i = m + 1
    <3>1. j[i - 1] = s
      BY <1>2, <1>3, <2>1
    <3> QED BY <1>3, <2>1, <3>1
  <2>2. CASE i # m + 1
    <3>1. i \in 1 .. m /\ i - 1 \in 0 .. m /\ i \in 0 .. m
      BY <2>2
    <3>2. j[i - 1] = h[i - 1] /\ j[i] = h[i]
      BY <1>3, <3>1
    <3> HIDE DEF j
    <3> QED BY <1>2, <3>1, <3>2 DEF Leads
  <2> QED BY <2>1, <2>2
<1> HIDE DEF j
<1>5. Leads(f, g, m + 1, j)
  BY <1>2, <1>3, <1>4 DEF Leads
<1> QED BY <1>3, <1>5 DEF Reached

\* The steps of the comparison at hand are those of its files.
LEMMA TilingGoes ==
  ASSUME Prepared, Tiled, task # NoTask, Scan \/ MarkTile
  PROVE  Goes(FileA, FileB, Done, Done')
<1>1. \A n : RunsOf(FileA, FileB, Done, n) = Runs(n)
  BY DEF RunsOf, Runs, IsRun, Done
<1>2. CASE Scan
  BY <1>1, <1>2 DEF Scan, Goes, Collects, Done
<1>3. CASE MarkTile
  BY <1>3 DEF MarkTile, Goes, Marks, Done
<1> QED BY <1>2, <1>3

LEMMA TilingEnds == TilingDone <=> Ended(FileA, FileB, Done)
BY DEF TilingDone, Ended, RunsOf, Runs, IsRun, Done

(***************************************************************************)
(* Copies.  Of equal submissions the same code is set aside (Settled), so  *)
(* they are equal still when they are compared, and then every stretch of  *)
(* MinMatch tokens is matched (Paired).                                    *)
(***************************************************************************)
Solves(i) == [kind |-> "solution", x |-> i, y |-> 0]
Pair(x, y) == [kind |-> "pair", x |-> x, y |-> y]
Pending(c) == c \in todo \/ c = task

Without(file, set) == [k \in DOMAIN file |-> IF \E t \in set : k \in TileA(t) THEN 0 ELSE file[k]]

Settled(i) == \E s : /\ Reached(prints[i], solution, s) /\ Ended(prints[i], solution, s)
                     /\ held[i] = Without(prints[i], s.tiles)

Separated ==
    /\ task \notin todo
    /\ \A i \in Readable : IF Pending(Solves(i)) THEN held[i] = prints[i] ELSE Settled(i)
    /\ task.kind = "solution" => Reached(prints[task.x], solution, Done)

Stretches(file) == {k \in DOMAIN file : Matchable(file, k)}

Paired ==
    analysis \in {"pairs", "patterns", "done"} =>
        \A x, y \in Readable :
            x < y /\ held[x] = held[y] /\ ~Pending(Pair(x, y)) =>
                Cardinality(Stretches(held[x])) <= pairMatched[<<x, y>>]

Linked ==
    analysis = "done" =>
        \A x, y \in Readable :
            flagged[y] /\ ((x < y /\ PairFlagged(x, y)) \/ (y < x /\ PairFlagged(y, x))) => <<x, y>> \in links

CopyInv == Separated /\ Diagonal /\ Paired /\ Linked

\* The task of the solution's phase.
LEMMA SolutionTask ==
  ASSUME Prepared, task.kind = "solution", Separated
  PROVE  /\ analysis = "solution" /\ task.x \in Readable /\ task = Solves(task.x)
         /\ FileA = prints[task.x] /\ FileB = solution /\ held[task.x] = prints[task.x]
         /\ prints[task.x] \in Seq(Nat)
<1>1. task \in Possible /\ task # NoTask
  BY DEF Prepared, NoTask
<1>2. analysis = "solution" /\ task \in [kind : {"solution"}, x : Readable, y : {0}]
  BY <1>1, TaskIs DEF Possible
<1>3. task = Solves(task.x) /\ task.x \in Readable /\ task.x \in Everyone
  BY <1>2 DEF Solves, Readable, Everyone
<1>4. Pending(Solves(task.x))
  BY <1>3 DEF Pending
<1> QED BY <1>2, <1>3, <1>4 DEF Separated, FileA, FileB, Prepared

LEMMA CopyTake == Compared /\ CopyInv /\ Take => CopyInv'
<1> SUFFICES ASSUME Compared, CopyInv, Take PROVE CopyInv'
  OBVIOUS
<1>1. PICK c \in todo :
        /\ task' = c /\ todo' = todo \ {c} /\ task = NoTask /\ found = {}
        /\ markedA' = {} /\ markedB' = {} /\ tiles' = {}
        /\ UNCHANGED <<prints, unread, solution, held, heldCount, analysis, found, pairMatched, covered, flags>>
  BY DEF Take, Compared, Prepared
<1>2. \A i : Pending(Solves(i))' <=> Pending(Solves(i))
  BY <1>1 DEF Pending, Solves, NoTask
<1>3. \A x, y : Pending(Pair(x, y))' <=> Pending(Pair(x, y))
  BY <1>1 DEF Pending, Pair, NoTask
<1>4. Readable' = Readable /\ \A i : Settled(i)' <=> Settled(i)
  BY <1>1 DEF Readable, Settled
<1>5. Done' = Nothing
  BY <1>1 DEF Done, Nothing
<1>6. Separated'
  BY <1>1, <1>2, <1>4, <1>5, ReachedStart DEF CopyInv, Separated
<1>7. Diagonal'
  BY <1>1 DEF Diagonal
<1>8. Paired'
  BY <1>1, <1>3, <1>4 DEF CopyInv, Paired
<1>9. Linked'
  BY <1>1, <1>4 DEF CopyInv, Linked, PairFlagged, flags
<1> QED BY <1>6, <1>7, <1>8, <1>9 DEF CopyInv

LEMMA CopyTiling == Compared /\ CopyInv /\ (Scan \/ MarkTile) => CopyInv'
<1> SUFFICES ASSUME Compared, CopyInv, Scan \/ MarkTile PROVE CopyInv'
  OBVIOUS
<1>1. /\ Prepared /\ Tiled /\ task # NoTask
      /\ UNCHANGED <<prints, unread, solution, held, heldCount, analysis, todo, task, pairMatched, flags>>
  BY DEF Compared, Prepared, Scan, MarkTile
<1>2. Readable' = Readable /\ \A i : Settled(i)' <=> Settled(i)
  BY <1>1 DEF Readable, Settled
<1>3. \A c : Pending(c)' <=> Pending(c)
  BY <1>1 DEF Pending
<1>4. task.kind = "solution" => Reached(prints[task.x], solution, Done')
  <2> SUFFICES ASSUME task.kind = "solution" PROVE Reached(prints[task.x], solution, Done')
    OBVIOUS
  <2>1. FileA = prints[task.x] /\ FileB = solution /\ Reached(prints[task.x], solution, Done)
    BY <1>1, SolutionTask DEF CopyInv, Separated
  <2>2. Goes(prints[task.x], solution, Done, Done')
    BY <1>1, <2>1, TilingGoes
  <2> QED BY <2>1, <2>2, ReachedStep
<1>5. Separated'
  BY <1>1, <1>2, <1>3, <1>4 DEF CopyInv, Separated
<1>6. Diagonal'
  BY DiagonalScan, DiagonalMark DEF CopyInv
<1>7. Paired'
  BY <1>1, <1>2, <1>3 DEF CopyInv, Paired
<1>8. Linked'
  BY <1>1, <1>2 DEF CopyInv, Linked, PairFlagged, flags
<1> QED BY <1>5, <1>6, <1>7, <1>8 DEF CopyInv

LEMMA CopyWithout == Compared /\ CopyInv /\ WithoutSolutionCode => CopyInv'
<1> SUFFICES ASSUME Compared, CopyInv, WithoutSolutionCode PROVE CopyInv'
  OBVIOUS
<1>1. /\ Prepared /\ Tiled /\ task.kind = "solution" /\ TilingDone /\ task' = NoTask
      /\ held' = [held EXCEPT ![task.x] = SetAside(@)]
      /\ UNCHANGED <<prints, unread, solution, analysis, todo, markedA, markedB, found, tiles,
                     pairMatched, covered, flags>>
  BY DEF Compared, WithoutSolutionCode
<1>2. PICK x \in Readable :
        /\ task.x = x /\ task = Solves(x) /\ analysis = "solution" /\ prints[x] \in Seq(Nat)
        /\ FileA = prints[x] /\ FileB = solution /\ held[x] = prints[x]
        /\ Reached(prints[x], solution, Done)
  BY <1>1, SolutionTask DEF CopyInv, Separated
<1>3. Readable' = Readable /\ held \in [Everyone -> Seq(Nat)] /\ Readable \subseteq Everyone
  BY <1>1 DEF Readable, Prepared, Everyone
<1>4. held'[x] = Without(prints[x], tiles) /\ \A i \in Readable \ {x} : held'[i] = held[i]
  BY <1>1, <1>2, <1>3 DEF SetAside, Without
<1>5. Settled(x)'
  <2>1. Ended(prints[x], solution, Done) /\ Done.tiles = tiles
    BY <1>1, <1>2, TilingEnds DEF Done
  <2> HIDE DEF Done
  <2> QED BY <1>1, <1>2, <1>4, <2>1 DEF Settled
<1>6. \A i \in Readable \ {x} : Settled(i) => Settled(i)'
  BY <1>1, <1>4 DEF Settled
<1>7. /\ ~Pending(Solves(x))'
      /\ \A i \in Readable \ {x} : Pending(Solves(i))' <=> Pending(Solves(i))
  BY <1>1, <1>2 DEF CopyInv, Separated, Pending, Solves, NoTask
<1>8. task' \notin todo' /\ task'.kind # "solution"
  <2>1. \A c \in todo : c # NoTask
    BY <1>1 DEF Prepared, Possible, NoTask
  <2> QED BY <1>1, <2>1 DEF NoTask
<1>9. Separated'
  BY <1>1, <1>2, <1>3, <1>4, <1>5, <1>6, <1>7, <1>8 DEF CopyInv, Separated
<1>10. Diagonal'
  BY <1>1 DEF Diagonal, NoTask
<1>11. Paired' /\ Linked'
  BY <1>1, <1>2 DEF Paired, Linked
<1> QED BY <1>9, <1>10, <1>11 DEF CopyInv

LEMMA CopyPair == Compared /\ CopyInv /\ ComparePair => CopyInv'
<1> SUFFICES ASSUME Compared, CopyInv, ComparePair PROVE CopyInv'
  OBVIOUS
<1>1. /\ Prepared /\ Tiled /\ Scored /\ task.kind = "pair" /\ task # NoTask /\ TilingDone /\ task' = NoTask
      /\ pairMatched' = [pairMatched EXCEPT ![<<task.x, task.y>>] = TiledTokens]
      /\ UNCHANGED <<prints, unread, solution, held, heldCount, analysis, todo, markedA, markedB, found,
                     tiles, covered, flags>>
  BY DEF Compared, ComparePair, NoTask
<1>2. PICK x \in Everyone, y \in Everyone :
        /\ x = task.x /\ y = task.y /\ FileA = held[x] /\ FileB = held[y] /\ analysis = "pairs"
        /\ task = Pair(x, y)
  <2>1. task \in Possible
    BY <1>1 DEF Prepared
  <2> QED BY <1>1, <2>1, TaskIs DEF Possible, Pair
<1>3. Readable' = Readable /\ \A i : Settled(i)' <=> Settled(i)
  BY <1>1 DEF Readable, Settled
<1>4. \A i : Pending(Solves(i))' <=> Pending(Solves(i))
  BY <1>1 DEF Pending, Solves, NoTask
<1>5. task' \notin todo' /\ task'.kind # "solution"
  <2>1. \A c \in todo : c # NoTask
    BY <1>1 DEF Prepared, Possible, NoTask
  <2> QED BY <1>1, <2>1 DEF NoTask
<1>6. Separated'
  BY <1>1, <1>3, <1>4, <1>5 DEF CopyInv, Separated
<1>7. Diagonal'
  BY <1>1 DEF Diagonal, NoTask
<1>8. held[x] = held[y] => Cardinality(Stretches(held[x])) <= TiledTokens
  <2> SUFFICES ASSUME held[x] = held[y] PROVE Cardinality(Stretches(held[x])) <= TiledTokens
    OBVIOUS
  <2>1. Stretches(held[x]) \subseteq markedA
    BY <1>1, <1>2, AllTiled DEF CopyInv, Stretches, Compared
  <2> QED BY <1>1, <2>1, MarkedIs, MatchedWithin, FS_Subset
<1>9. Paired'
  <2> SUFFICES ASSUME NEW p \in Readable, NEW q \in Readable, p < q, held[p] = held[q], ~Pending(Pair(p, q))'
               PROVE  Cardinality(Stretches(held[p])) <= pairMatched'[<<p, q>>]
    BY <1>1, <1>3 DEF Paired
  <2>1. <<p, q>> \in DOMAIN pairMatched
    BY <1>1 DEF Prepared, Readable, Everyone
  <2>2. CASE Pair(p, q) = task
    BY <1>1, <1>2, <1>8, <2>1, <2>2 DEF Pair
  <2>3. CASE Pair(p, q) # task
    <3>1. ~Pending(Pair(p, q))
      BY <1>1, <2>3 DEF Pending
    <3>2. <<p, q>> # <<task.x, task.y>>
      BY <1>2, <2>3 DEF Pair
    <3> QED BY <1>1, <1>2, <2>1, <3>1, <3>2 DEF CopyInv, Paired
  <2> QED BY <2>2, <2>3
<1>10. Linked'
  BY <1>1, <1>2 DEF Linked
<1> QED BY <1>6, <1>7, <1>9, <1>10 DEF CopyInv

LEMMA CopyPattern == Compared /\ CopyInv /\ CoverPattern => CopyInv'
<1> SUFFICES ASSUME Compared, CopyInv, CoverPattern PROVE CopyInv'
  OBVIOUS
<1>1. /\ Prepared /\ task.kind = "pattern" /\ task # NoTask /\ task' = NoTask
      /\ UNCHANGED <<prints, unread, solution, held, heldCount, analysis, todo, markedA, markedB, found,
                     tiles, pairMatched, flags>>
  BY DEF Compared, CoverPattern, NoTask
<1>2. analysis = "patterns"
  <2>1. task \in Possible
    BY <1>1 DEF Prepared
  <2> QED BY <1>1, <2>1 DEF Possible, Prepared
<1>3. Readable' = Readable /\ \A i : Settled(i)' <=> Settled(i)
  BY <1>1 DEF Readable, Settled
<1>4. /\ \A i : Pending(Solves(i))' <=> Pending(Solves(i))
      /\ \A x, y : Pending(Pair(x, y))' <=> Pending(Pair(x, y))
  BY <1>1 DEF Pending, Solves, Pair, NoTask
<1>5. task' \notin todo' /\ task'.kind # "solution"
  <2>1. \A c \in todo : c # NoTask
    BY <1>1 DEF Prepared, Possible, NoTask
  <2> QED BY <1>1, <2>1 DEF NoTask
<1>6. Separated'
  BY <1>1, <1>3, <1>4, <1>5 DEF CopyInv, Separated
<1>7. Diagonal' /\ Linked'
  BY <1>1, <1>2 DEF Diagonal, Linked, NoTask
<1>8. Paired'
  BY <1>1, <1>3, <1>4 DEF CopyInv, Paired
<1> QED BY <1>6, <1>7, <1>8 DEF CopyInv

LEMMA CopyPhase == Compared /\ CopyInv /\ (NextPhase \/ LinkSimilar) => CopyInv'
<1> SUFFICES ASSUME Compared, CopyInv, NextPhase \/ LinkSimilar PROVE CopyInv'
  OBVIOUS
<1>1. /\ Prepared /\ task = NoTask /\ todo = {}
      /\ \/ /\ analysis = "solution" /\ analysis' = "pairs"
            /\ todo' = {t \in [kind : {"pair"}, x : Readable, y : Readable] : t.x < t.y}
         \/ /\ analysis = "pairs" /\ analysis' = "patterns" /\ todo' = [kind : {"pattern"}, x : Readable, y : Usable]
         \/ LinkSimilar /\ analysis = "patterns" /\ analysis' = "done" /\ todo' = todo
         \/ Readable = {} /\ analysis = "solution" /\ analysis' = "done" /\ todo' = todo
      /\ UNCHANGED <<prints, unread, solution, held, heldCount, task, markedA, markedB, found, tiles,
                     pairMatched, covered>>
  BY DEF Compared, NextPhase, LinkSimilar, NoFingerprints
<1>2. Readable' = Readable /\ \A i : Settled(i)' <=> Settled(i)
  BY <1>1 DEF Readable, Settled
<1>3. \A i : ~Pending(Solves(i)) /\ ~Pending(Solves(i))'
  BY <1>1 DEF Pending, Solves, NoTask
<1>4. task' \notin todo' /\ task'.kind # "solution"
  BY <1>1 DEF NoTask
<1>5. Separated'
  BY <1>1, <1>2, <1>3, <1>4 DEF CopyInv, Separated
<1>6. Diagonal'
  BY <1>1 DEF Diagonal, NoTask
<1>7. Paired'
  <2>1. CASE analysis = "solution"
    <3>1. \A x, y \in Readable : x < y => Pending(Pair(x, y))'
      BY <1>1, <2>1 DEF Pending, Pair
    <3> QED BY <1>2, <3>1 DEF Paired
  <2>2. CASE analysis # "solution"
    <3>1. \A x, y : ~Pending(Pair(x, y))
      BY <1>1 DEF Pending, Pair, NoTask
    <3>2. analysis \in {"pairs", "patterns"}
      BY <1>1, <2>2
    <3> QED BY <1>1, <1>2, <3>1, <3>2 DEF CopyInv, Paired
  <2> QED BY <2>1, <2>2
<1>8. Linked'
  <2> SUFFICES ASSUME analysis' = "done", NEW x \in Readable, NEW y \in Readable, flagged'[y],
                      (x < y /\ PairFlagged(x, y)') \/ (y < x /\ PairFlagged(y, x)')
               PROVE  <<x, y>> \in links'
    BY <1>2 DEF Linked
  <2>1. links' = {p \in DOMAIN pairMatched :
                    /\ flagged'[p[2]]
                    /\ \/ p[1] < p[2] /\ PairFlagged(p[1], p[2])
                       \/ p[2] < p[1] /\ PairFlagged(p[2], p[1])}
    BY <1>1 DEF LinkSimilar
  <2>2. <<x, y>> \in DOMAIN pairMatched
    BY <1>1 DEF Prepared, Readable, Everyone
  <2>3. /\ PairFlagged(x, y)' <=> PairFlagged(x, y)
        /\ PairFlagged(y, x)' <=> PairFlagged(y, x)
    BY <1>1, <1>2 DEF PairFlagged
  <2> QED BY <2>1, <2>2, <2>3
<1> QED BY <1>5, <1>6, <1>7, <1>8 DEF CopyInv

LEMMA CopyInit == AnalysisInit => CopyInv
<1> SUFFICES ASSUME AnalysisInit PROVE CopyInv
  OBVIOUS
<1>1. /\ held = prints /\ analysis = "solution" /\ task = NoTask
      /\ todo = IF TokenCount(solution) = 0 THEN {} ELSE [kind : {"solution"}, x : Readable, y : {0}]
      /\ solution \in Seq(Nat) /\ prints \in [Everyone -> Seq(Nat)]
  BY ConstantsTyped DEF AnalysisInit, Everyone
<1>2. ASSUME NEW i \in Readable, ~Pending(Solves(i)) PROVE Settled(i)
  <2>1. TokenCount(solution) = 0
    BY <1>1, <1>2 DEF Pending, Solves
  <2>2. \A k \in DOMAIN solution : solution[k] = 0
    <3>1. {k \in DOMAIN solution : solution[k] # 0} = {}
      BY <1>1, <2>1, TokensFinite, FS_EmptySet DEF TokenCount
    <3> QED BY <3>1
  <2>3. ASSUME NEW n \in MinMatch .. Len(prints[i]) PROVE RunsOf(prints[i], solution, Nothing, n) = {}
    <3> SUFFICES ASSUME NEW t \in RunsOf(prints[i], solution, Nothing, n) PROVE FALSE
      OBVIOUS
    <3>1. t.length = n /\ n \in Nat \ {0} /\ t.a \in Nat /\ t.b \in DOMAIN solution /\ t.b \in Nat
      <4>1. n \in Nat \ {0}
        BY <1>1, ConstantsTyped DEF Readable, Everyone
      <4>2. t.length = n /\ t.a \in DOMAIN prints[i] /\ t.b \in DOMAIN solution
        BY DEF RunsOf
      <4>3. prints[i] \in Seq(Nat) /\ solution \in Seq(Nat)
        BY <1>1 DEF Readable, Everyone
      <4> QED BY <4>1, <4>2, <4>3
    <3>2. 0 \in 0 .. t.length - 1 /\ t.b + 0 = t.b
      BY <3>1
    <3>3. prints[i][t.a + 0] # 0 /\ prints[i][t.a + 0] = solution[t.b + 0]
      BY <3>2 DEF RunsOf
    <3> QED BY <2>2, <3>1, <3>2, <3>3
  <2>4. Ended(prints[i], solution, Nothing) /\ Nothing.tiles = {}
    BY <2>3 DEF Ended, Nothing
  <2>5. Without(prints[i], {}) = prints[i]
    <3>1. prints[i] \in Seq(Nat)
      BY <1>1 DEF Readable, Everyone
    <3> QED BY <3>1 DEF Without
  <2> HIDE DEF Nothing
  <2> QED BY <1>1, <2>4, <2>5, ReachedStart DEF Settled
<1>3. task \notin todo /\ task.kind # "solution"
  BY <1>1 DEF NoTask
<1>4. Separated
  BY <1>1, <1>2, <1>3 DEF Separated
<1> QED BY <1>1, <1>4 DEF CopyInv, Diagonal, Paired, Linked, NoTask

LEMMA CopyNext == AnalysisInv /\ (NoAnalysis \/ CopyInv) /\ [AnalysisNext]_analysisVars => (NoAnalysis \/ CopyInv)'
<1> SUFFICES ASSUME AnalysisInv, NoAnalysis \/ CopyInv, [AnalysisNext]_analysisVars PROVE (NoAnalysis \/ CopyInv)'
  OBVIOUS
<1>1. CASE NoAnalysis
  <2>1. ~AnalysisNext
    BY <1>1 DEF NoAnalysis, NoTask, AnalysisNext, Take, Scan, MarkTile, WithoutSolutionCode, ComparePair,
                CoverPattern, NextPhase, LinkSimilar
  <2> QED BY <1>1, <2>1 DEF NoAnalysis, analysisVars, flags
<1>2. CASE Compared /\ CopyInv /\ UNCHANGED analysisVars
  <2>1. UNCHANGED <<prints, unread, solution, held, heldCount, analysis, todo, task, markedA, markedB,
                    found, tiles, pairMatched, covered, flagged, links>>
    BY <1>2 DEF analysisVars, flags
  <2>2. Separated'
    BY <1>2, <2>1 DEF CopyInv, Separated, Readable, Pending, Settled, Done
  <2>3. Diagonal'
    BY <1>2, <2>1 DEF CopyInv, Diagonal, Whole, FileA, FileB
  <2>4. Paired' /\ Linked'
    BY <1>2, <2>1 DEF CopyInv, Paired, Linked, Readable, Pending, PairFlagged
  <2> QED BY <2>2, <2>3, <2>4 DEF CopyInv
<1>3. CASE Compared /\ CopyInv /\ AnalysisNext
  BY <1>3, CopyTake, CopyTiling, CopyWithout, CopyPair, CopyPattern, CopyPhase DEF AnalysisNext
<1> QED BY <1>1, <1>2, <1>3 DEF AnalysisInv

LEMMA CopiesHold == Compared /\ CopyInv => CopiesMatchFully
<1> SUFFICES ASSUME Compared, CopyInv PROVE CopiesMatchFully
  OBVIOUS
<1>1. ASSUME task.kind = "pair", TilingDone, FileA = FileB
      PROVE  \A k \in DOMAIN FileA \ markedA : ~Matchable(FileA, k)
  BY <1>1, AllTiled DEF CopyInv
<1>2. ASSUME analysis = "done", NEW x \in Readable, NEW y \in Readable, x # y, prints[x] = prints[y],
             heldCount[x] > 0, flagged[y], \A k \in DOMAIN held[x] : held[x][k] # 0 => Matchable(held[x], k)
      PROVE  <<x, y>> \in links
  <2>1. Prepared /\ Scored /\ x \in Everyone /\ y \in Everyone /\ x \in Int /\ y \in Int
    BY DEF Compared, Readable, Everyone
  <2>2. prints[x] \in Seq(Nat) /\ held[x] \in Seq(Nat) /\ heldCount[x] \in Nat
    BY <2>1 DEF Prepared
  <2>3. \A c : Pending(c) => c = NoTask
    BY <1>2, <2>1 DEF Prepared, Possible, Pending
  <2>4. Settled(x) /\ Settled(y)
    BY <2>3 DEF CopyInv, Separated, Solves, NoTask
  <2>5. held[x] = held[y]
    BY <1>2, <2>2, <2>4, OneEnd DEF Settled
  <2>6. heldCount[x] = TokenCount(held[x]) /\ heldCount[y] = heldCount[x]
    BY <2>1, <2>5 DEF Scored, ScoresAreShares, Prepared
  <2>7. heldCount[x] <= Cardinality(Stretches(held[x]))
    <3>1. {k \in DOMAIN held[x] : held[x][k] # 0} \subseteq Stretches(held[x])
      BY <1>2 DEF Stretches
    <3>2. IsFiniteSet(Stretches(held[x]))
      BY <2>2, TokensFinite, FS_Subset DEF Stretches
    <3> QED BY <2>6, <3>1, <3>2, FS_Subset DEF TokenCount
  <2>8. Cardinality(Stretches(held[x])) \in Nat
    BY <2>2, TokensFinite, FS_Subset, FS_CardinalityType DEF Stretches
  <2>9. \A p, q \in Readable : p < q /\ held[p] = held[q] => Cardinality(Stretches(held[p])) <= pairMatched[<<p, q>>]
    BY <1>2, <2>3 DEF CopyInv, Paired, Pair, NoTask
  <2>10. CASE x < y
    <3>1. PairFlagged(x, y)
      <4>1. pairMatched[<<x, y>>] \in Nat
        BY <2>1 DEF Prepared
      <4>2. Cardinality(Stretches(held[x])) <= pairMatched[<<x, y>>]
        BY <2>5, <2>9, <2>10
      <4>3. pairMatched[<<x, y>>] >= heldCount[x]
        BY <2>2, <2>7, <2>8, <4>1, <4>2
      <4> QED BY <1>2, <2>2, <2>6, <4>1, <4>3 DEF PairFlagged
    <3> QED BY <1>2, <2>10, <3>1 DEF CopyInv, Linked
  <2>11. CASE y < x
    <3>1. PairFlagged(y, x)
      <4>1. pairMatched[<<y, x>>] \in Nat
        BY <2>1 DEF Prepared
      <4>2. Cardinality(Stretches(held[x])) <= pairMatched[<<y, x>>]
        BY <2>5, <2>9, <2>11
      <4>3. pairMatched[<<y, x>>] >= heldCount[x]
        BY <2>2, <2>7, <2>8, <4>1, <4>2
      <4> QED BY <1>2, <2>2, <2>6, <4>1, <4>3 DEF PairFlagged
    <3> QED BY <1>2, <2>11, <3>1 DEF CopyInv, Linked
  <2> QED BY <1>2, <2>1, <2>10, <2>11
<1> QED BY <1>1, <1>2 DEF CopiesMatchFully

\* CompareFiles on two equal fingerprints finds every stretch of MinMatch tokens or more,
\* whatever shorter runs they share otherwise, and copies of which all that the solution
\* left is in such stretches are linked when one is flagged, for files of any length
\* (similarity_test.go:164, LinkSimilarToFlagged).
THEOREM Copies == EngineSpec => []CopiesMatchFully
<1> DEFINE Inv == AnalysisInv /\ (NoAnalysis \/ CopyInv)
<1>1. EngineInit => Inv
  BY AnalysisInvInit, CopyInit DEF EngineInit, AnalysisInv
<1>2. Inv /\ [EngineNext]_<<vars, analysisVars>> => Inv'
  <2>1. [EngineNext]_<<vars, analysisVars>> => [AnalysisNext]_analysisVars
    BY DEF EngineNext, Grading, Analysis
  <2> QED BY <2>1, AnalysisInvNext, CopyNext
<1>3. Inv => CopiesMatchFully
  <2>1. NoAnalysis => CopiesMatchFully
    BY DEF NoAnalysis, NoTask, CopiesMatchFully
  <2> QED BY <2>1, CopiesHold DEF AnalysisInv
<1> HIDE DEF Inv
<1> QED BY <1>1, <1>2, <1>3, PTL DEF EngineSpec
=============================================================================
