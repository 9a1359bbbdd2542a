----------------------------- MODULE Similarity -----------------------------
(***************************************************************************)
(* The comparisons of runAnalysis: greedyStringTiling of fingerprint.go,   *)
(* and what plagiarism.go and ai_detection.go do with its tiles.  Each     *)
(* submission is compared with the reference solution, whose code is then  *)
(* set aside, then with the others, then with the patterns of the          *)
(* dictionary.  The comparisons of a phase run in parallel and share       *)
(* nothing, so here they run one by one, in any order.                     *)
(*                                                                         *)
(* A fingerprint is a sequence of tokens; 0 stands for the end of a        *)
(* function and for a token set aside.  Scores are kept as their numerator *)
(* and denominator.                                                        *)
(***************************************************************************)
EXTENDS Integers, Sequences, FiniteSets

CONSTANTS
    Files,        \* fingerprints of submissions
    Submissions,  \* they are 1 .. Submissions
    References,   \* fingerprints of the reference solution, <<>> when there is none
    Patterns,     \* of the dictionary: a sequence of fingerprints
    MinMatch      \* MinMatchTokens

ASSUME SimilarityAssumption ==
    /\ Files \cup References \subseteq Seq(Nat) /\ Patterns \in Seq(Seq(Nat))
    /\ Submissions \in Nat /\ MinMatch \in Nat \ {0}

VARIABLES
    prints, unread,   \* FingerprintSubmissions: fingerprints, and those that failed
    solution,
    held, heldCount,  \* fps: what is compared between submissions, and its TokenCount
    analysis,         \* solution, pairs, patterns, done; off without one
    todo,             \* its comparisons still to be made
    task,             \* the comparison being made
    markedA, markedB, \* positions
    found,            \* longest runs of this round, not looked at yet
    tiles,
    pairMatched,      \* tiled tokens of each pair
    covered,          \* positions of each submission that patterns cover
    flagged,          \* by its own code: the dictionary, its style or a tell
    links             \* similar_to_flagged, pairs <<from, to>>

analysisVars == <<prints, unread, solution, held, heldCount, analysis, todo, task, markedA, markedB,
                  found, tiles, pairMatched, covered, flagged, links>>
flags == <<flagged, links>>

NoTask == [kind |-> "none", x |-> 0, y |-> 0]
Readable == 1 .. Submissions \ unread
TokenCount(file) == Cardinality({k \in DOMAIN file : file[k] # 0})

FileA == IF task.kind = "pattern" THEN prints[task.x] ELSE held[task.x]
FileB == CASE task.kind = "solution" -> solution
           [] task.kind = "pair" -> held[task.y]
           [] task.kind = "pattern" -> Patterns[task.y]

Cells(start, length) == start .. start + length - 1
TileA(t) == Cells(t.a, t.length)
TileB(t) == Cells(t.b, t.length)

(* The sum of the tiles' lengths: what two of them share counts twice. *)
TiledTokens == Cardinality(UNION {{t} \X TileA(t) : t \in tiles})

-----------------------------------------------------------------------------
(* greedyStringTiling                                                      *)

(* t is a run of equal, unmarked tokens of one function.                   *)
IsRun(t) ==
    /\ TileA(t) \subseteq DOMAIN FileA \ markedA /\ TileB(t) \subseteq DOMAIN FileB \ markedB
    /\ \A k \in 0 .. t.length - 1 : FileA[t.a + k] # 0 /\ FileA[t.a + k] = FileB[t.b + k]

Runs(length) == {t \in [a : DOMAIN FileA, b : DOMAIN FileB, length : {length}] : IsRun(t)}

(* Variant with a bug: every run long enough is taken in its turn.         *)
ScanAny ==
    /\ task # NoTask /\ found = {}
    /\ found' = UNION {Runs(n) : n \in MinMatch .. Len(FileA)}
    /\ found' # {}
    /\ UNCHANGED <<prints, unread, solution, held, heldCount, analysis, todo, task, markedA, markedB,
                   tiles, pairMatched, covered, flags>>

(* A round collects the longest runs, of MinMatch tokens or more.          *)
Scan ==
    /\ task # NoTask /\ found = {}
    /\ \E n \in MinMatch .. Len(FileA) :
          /\ found' = Runs(n) /\ found' # {}
          /\ \A longer \in n + 1 .. Len(FileA) : Runs(longer) = {}
    /\ UNCHANGED <<prints, unread, solution, held, heldCount, analysis, todo, task, markedA, markedB,
                   tiles, pairMatched, covered, flags>>

Earlier(t, u) == t.a < u.a \/ (t.a = u.a /\ (t.b < u.b \/ (t.b = u.b /\ t.length <= u.length)))
First(S) == CHOOSE t \in S : \A u \in S : Earlier(t, u)

(* Variant with a bug: marks only keep a later round from the tokens.      *)
MarkTileUnchecked ==
    /\ found # {}
    /\ LET t == First(found) IN
       /\ found' = found \ {t}
       /\ tiles' = tiles \cup {t}
       /\ markedA' = markedA \cup TileA(t) /\ markedB' = markedB \cup TileB(t)
    /\ UNCHANGED <<prints, unread, solution, held, heldCount, analysis, todo, task, pairMatched, covered, flags>>

(* In the order they were found, those that overlap a marked one left out. *)
MarkTile ==
    /\ found # {}
    /\ LET t == First(found)
           free == TileA(t) \cap markedA = {} /\ TileB(t) \cap markedB = {} IN
       /\ found' = found \ {t}
       /\ tiles' = IF free THEN tiles \cup {t} ELSE tiles
       /\ markedA' = IF free THEN markedA \cup TileA(t) ELSE markedA
       /\ markedB' = IF free THEN markedB \cup TileB(t) ELSE markedB
    /\ UNCHANGED <<prints, unread, solution, held, heldCount, analysis, todo, task, pairMatched, covered, flags>>

TilingDone == found = {} /\ \A n \in MinMatch .. Len(FileA) : Runs(n) = {}

-----------------------------------------------------------------------------
(* The comparisons                                                         *)

Take ==
    /\ task = NoTask
    /\ \E t \in todo : task' = t /\ todo' = todo \ {t}
    /\ markedA' = {} /\ markedB' = {} /\ tiles' = {}
    /\ UNCHANGED <<prints, unread, solution, held, heldCount, analysis, found, pairMatched, covered, flags>>

SetAside(file) == [k \in DOMAIN file |-> IF \E t \in tiles : k \in TileA(t) THEN 0 ELSE file[k]]

(* Variant with a bug: what is set aside still counts.                     *)
WithoutSolutionCodeUncounted ==
    /\ task.kind = "solution" /\ TilingDone
    /\ held' = [held EXCEPT ![task.x] = SetAside(@)]
    /\ task' = NoTask
    /\ UNCHANGED <<prints, unread, solution, heldCount, analysis, todo, markedA, markedB, found, tiles,
                   pairMatched, covered, flags>>

(* The copy kept in fps changes, the print the dictionary reads does not.  *)
WithoutSolutionCode ==
    /\ task.kind = "solution" /\ TilingDone
    /\ held' = [held EXCEPT ![task.x] = SetAside(@)]
    /\ heldCount' = [heldCount EXCEPT ![task.x] = @ - TiledTokens]
    /\ task' = NoTask
    /\ UNCHANGED <<prints, unread, solution, analysis, todo, markedA, markedB, found, tiles,
                   pairMatched, covered, flags>>

ComparePair ==
    /\ task.kind = "pair" /\ TilingDone
    /\ pairMatched' = [pairMatched EXCEPT ![<<task.x, task.y>>] = TiledTokens]
    /\ task' = NoTask
    /\ UNCHANGED <<prints, unread, solution, held, heldCount, analysis, todo, markedA, markedB, found,
                   tiles, covered, flags>>

(* compareSubmissionToDictionary: a pattern of which half is missing does  *)
(* not count (aiPatternMinShare).                                          *)
CoverPattern ==
    /\ task.kind = "pattern" /\ TilingDone
    /\ covered' = IF 2 * TiledTokens >= TokenCount(Patterns[task.y])
                  THEN [covered EXCEPT ![task.x] = @ \cup markedA] ELSE covered
    /\ task' = NoTask
    /\ UNCHANGED <<prints, unread, solution, held, heldCount, analysis, todo, markedA, markedB, found,
                   tiles, pairMatched, flags>>

(* A pattern too short to match is not used (fingerprintDictionary).       *)
Usable == {n \in DOMAIN Patterns : TokenCount(Patterns[n]) >= MinMatch}

(* None of the submissions could be read.                                  *)
NoFingerprints == Readable = {} /\ unread # {}

(* With fewer than two readable submissions there are no pairs; without    *)
(* one, an error ends runAnalysis and nothing is flagged.                  *)
NextPhase ==
    /\ task = NoTask /\ todo = {}
    /\ \/ /\ analysis = "solution" /\ NoFingerprints
          /\ analysis' = "done" /\ todo' = todo
       \/ /\ analysis = "solution" /\ ~NoFingerprints /\ analysis' = "pairs"
          /\ todo' = {t \in [kind : {"pair"}, x : Readable, y : Readable] : t.x < t.y}
       \/ /\ analysis = "pairs" /\ analysis' = "patterns"
          /\ todo' = [kind : {"pattern"}, x : Readable, y : Usable]
    /\ UNCHANGED <<prints, unread, solution, held, heldCount, task, markedA, markedB, found, tiles,
                   pairMatched, covered, flags>>

(* From aiFlagShare of its code, or by its style or a tell.                *)
Flagged(i, styled) == styled[i] \/ (i \in Readable /\ 4 * Cardinality(covered[i]) >= TokenCount(prints[i])
                                                    /\ TokenCount(prints[i]) > 0)

(* At ScoreThreshold of what was compared.                                 *)
PairFlagged(x, y) ==
    LET total == heldCount[x] + heldCount[y] IN
    {x, y} \subseteq Readable /\ total > 0 /\ 10 * pairMatched[<<x, y>>] >= 3 * total

(* LinkSimilarToFlagged, of the flags every submission got by itself.      *)
LinkSimilar ==
    /\ task = NoTask /\ todo = {} /\ analysis = "patterns" /\ analysis' = "done"
    /\ \E styled \in [1 .. Submissions -> BOOLEAN] :
          flagged' = [i \in 1 .. Submissions |-> Flagged(i, styled)]
    /\ links' = {p \in DOMAIN pairMatched :
                    /\ flagged'[p[2]]
                    /\ \/ p[1] < p[2] /\ PairFlagged(p[1], p[2])
                       \/ p[2] < p[1] /\ PairFlagged(p[2], p[1])}
    /\ UNCHANGED <<prints, unread, solution, held, heldCount, todo, task, markedA, markedB, found, tiles,
                   pairMatched, covered>>

(* A solution without tokens is none (solutionFingerprint).                *)
AnalysisInit ==
    /\ prints \in [1 .. Submissions -> Files] /\ unread \in SUBSET (1 .. Submissions)
    /\ solution \in References
    /\ held = prints /\ heldCount = [i \in 1 .. Submissions |-> TokenCount(prints[i])]
    /\ analysis = "solution"
    /\ todo = IF TokenCount(solution) = 0 THEN {}
              ELSE [kind : {"solution"}, x : Readable, y : {0}]
    /\ task = NoTask /\ markedA = {} /\ markedB = {} /\ found = {} /\ tiles = {}
    /\ pairMatched = [p \in (1 .. Submissions) \X (1 .. Submissions) |-> 0]
    /\ covered = [i \in 1 .. Submissions |-> {}]
    /\ flagged = [i \in 1 .. Submissions |-> FALSE] /\ links = {}

AnalysisNext ==
    Take \/ Scan \/ MarkTile \/ WithoutSolutionCode \/ ComparePair \/ CoverPattern \/ NextPhase
    \/ LinkSimilar

AnalysisSpec == AnalysisInit /\ [][AnalysisNext]_analysisVars

-----------------------------------------------------------------------------
(* Properties                                                              *)

(* "each token is matched at most once" (fingerprint.go:197): the tiles    *)
(* are common runs, none crosses a function or a token set aside, no two   *)
(* share a token of either file, and the marks are theirs.                 *)
TokensMatchedOnce ==
    /\ \A t \in tiles : task # NoTask =>
          /\ t.length >= MinMatch
          /\ \A k \in 0 .. t.length - 1 : FileA[t.a + k] # 0 /\ FileA[t.a + k] = FileB[t.b + k]
    /\ \A t, u \in tiles : t # u => TileA(t) \cap TileA(u) = {} /\ TileB(t) \cap TileB(u) = {}
    /\ markedA = UNION {TileA(t) : t \in tiles} /\ markedB = UNION {TileB(t) : t \in tiles}

(* k is in a stretch of MinMatch tokens or more.                           *)
Matchable(file, k) ==
    \E start \in DOMAIN file :
        /\ k \in Cells(start, MinMatch) /\ Cells(start, MinMatch) \subseteq DOMAIN file
        /\ \A n \in Cells(start, MinMatch) : file[n] # 0

(* Every stretch of MinMatch or more tokens of a copied file is matched,   *)
(* whatever shorter runs its functions share (CompareFiles on two equal    *)
(* fingerprints; similarity_test.go:164 "want ~100%"); and copies that are *)
(* made of such stretches, where the solution is not, are linked to each   *)
(* other when one of them is flagged (LinkSimilarToFlagged).               *)
CopiesMatchFully ==
    /\ task.kind = "pair" /\ TilingDone /\ FileA = FileB =>
          \A k \in DOMAIN FileA \ markedA : ~Matchable(FileA, k)
    /\ analysis = "done" =>
          \A x, y \in Readable :
              /\ x # y /\ prints[x] = prints[y] /\ heldCount[x] > 0 /\ flagged[y]
              /\ \A k \in DOMAIN held[x] : held[x][k] # 0 => Matchable(held[x], k)
              => <<x, y>> \in links

(* Scores are shares of what is there: a held-out count is the number of   *)
(* tokens left, never more is matched than either side has, and patterns   *)
(* cover tokens of the submission itself, none of them a boundary.         *)
ScoresAreShares ==
    /\ \A i \in DOMAIN held : heldCount[i] = TokenCount(held[i])
    /\ \A p \in DOMAIN pairMatched :
          pairMatched[p] <= heldCount[p[1]] /\ pairMatched[p] <= heldCount[p[2]]
    /\ \A i \in DOMAIN covered : \A k \in covered[i] : prints[i][k] # 0
=============================================================================
