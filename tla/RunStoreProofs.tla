--------------------------- MODULE RunStoreProofs ---------------------------
(***************************************************************************)
(* Proofs about RunStore: what a terminal's shell has of its run, and why  *)
(* a terminal is refused.                                                  *)
(*                                                                         *)
(* Both follow from what is true of a run that no RemoveAll has begun      *)
(* with: its config is whole or absent (Staged: an actor activates only a  *)
(* staging directory it has filled), and a whole run.json says that its    *)
(* workspace is whole (Job: the job writes it last).  A step can take      *)
(* nothing from such a run (Forward), so what a terminal has seen of it    *)
(* stays true until it copies (Terminal).                                  *)
(***************************************************************************)
EXTENDS GradeService, SequenceTheorems, WellFoundedInduction, FiniteSetTheorems, TLAPS

(***************************************************************************)
(* Sequences of runs.                                                      *)
(***************************************************************************)
LEMMA LeastIndex ==
  ASSUME NEW I, I \subseteq Nat, I # {}
  PROVE  Min(I) \in I
<1>1. IsWellFoundedOn(OpToRel(<, Nat), Nat)
  BY NatLessThanWellFounded
<1>2. PICK x \in I : \A y \in I : ~ (<<y, x>> \in OpToRel(<, Nat))
  BY <1>1, WFMin
<1>3. ASSUME NEW y \in I PROVE x <= y
  <2>1. x \in Nat /\ y \in Nat
    OBVIOUS
  <2>2. y < x => <<y, x>> \in OpToRel(<, Nat)
    BY <2>1 DEF OpToRel
  <2>3. ~(y < x)
    BY <1>2, <2>2
  <2> QED BY <2>1, <2>3
<1> QED BY <1>3 DEF Min

LEMMA FirstIndex ==
  ASSUME NEW S, NEW s \in Seq(S), NEW e, \E i \in 1 .. Len(s) : s[i] = e
  PROVE  \E k \in 1 .. Len(s) : s[k] = e /\ RemoveFirst(s, e) = RemoveAt(s, k)
<1> DEFINE I == {i \in 1 .. Len(s) : s[i] = e}
<1>1. I \subseteq Nat /\ I # {}
  OBVIOUS
<1>2. Min(I) \in I
  BY <1>1, LeastIndex
<1>3. RemoveFirst(s, e) = RemoveAt(s, Min(I))
  BY <1>1 DEF RemoveFirst, SelectInSeq
<1> QED BY <1>2, <1>3

\* What is left when the k-th element is taken out.
LEMMA Cutting ==
  ASSUME NEW S, NEW s \in Seq(S), NEW k \in 1 .. Len(s)
  PROVE  /\ RemoveAt(s, k) \in Seq(S)
         /\ \A i \in 1 .. Len(s) : i # k => s[i] \in ToSet(RemoveAt(s, k))
<1> DEFINE front == SubSeq(s, 1, k - 1)
           back == SubSeq(s, k + 1, Len(s))
<1>1. Len(s) \in Nat /\ \A j \in 1 .. Len(s) : s[j] \in S
  BY LenProperties, ElementOfSeq
<1>2. /\ front \in Seq(S) /\ Len(front) = k - 1
      /\ \A j \in 1 .. k - 1 : front[j] = s[j]
  BY <1>1
<1>3. /\ back \in Seq(S) /\ Len(back) = Len(s) - k
      /\ \A j \in 1 .. Len(s) - k : back[j] = s[k + j]
  BY <1>1
<1>4. RemoveAt(s, k) = front \o back
  BY DEF RemoveAt
<1> HIDE DEF front, back
<1>5. front \o back \in Seq(S) /\ Len(front \o back) = Len(s) - 1
  <2>1. front \o back \in Seq(S) /\ Len(front \o back) = Len(front) + Len(back)
    BY <1>2, <1>3, ConcatProperties
  <2>2. (k - 1) + (Len(s) - k) = Len(s) - 1
    BY <1>1
  <2> QED BY <1>2, <1>3, <2>1, <2>2
<1>6. DOMAIN (front \o back) = 1 .. Len(s) - 1
  BY <1>5, LenProperties
<1>7. ASSUME NEW i \in 1 .. Len(s), i < k PROVE s[i] \in ToSet(RemoveAt(s, k))
  <2>1. i \in 1 .. Len(front) + Len(back) /\ i <= Len(front) /\ i \in 1 .. Len(s) - 1
    BY <1>1, <1>2, <1>3, <1>7
  <2>2. (front \o back)[i] = front[i]
    BY <1>2, <1>3, <2>1, ConcatProperties
  <2>3. front[i] = s[i]
    BY <1>1, <1>2, <1>7
  <2> QED BY <1>4, <1>5, <1>6, <2>1, <2>2, <2>3 DEF ToSet
<1>8. ASSUME NEW i \in 1 .. Len(s), i > k PROVE s[i] \in ToSet(RemoveAt(s, k))
  <2>1. /\ i - 1 \in 1 .. Len(front) + Len(back) /\ ~(i - 1 <= Len(front))
        /\ i - 1 \in 1 .. Len(s) - 1 /\ (i - 1) - Len(front) = i - k
    BY <1>1, <1>2, <1>3, <1>8
  <2>2. (front \o back)[i - 1] = back[i - k]
    BY <1>2, <1>3, <2>1, ConcatProperties
  <2>3. back[i - k] = s[k + (i - k)] /\ k + (i - k) = i
    BY <1>1, <1>3, <1>8
  <2> QED BY <1>4, <1>5, <1>6, <2>1, <2>2, <2>3 DEF ToSet
<1> QED BY <1>1, <1>4, <1>5, <1>7, <1>8

\* What is removed from a sequence is e at most.
LEMMA Removing ==
  ASSUME NEW S, NEW s \in Seq(S), NEW e
  PROVE  /\ RemoveFirst(s, e) \in Seq(S)
         /\ ToSet(s) \ {e} \subseteq ToSet(RemoveFirst(s, e))
<1>1. CASE ~ \E i \in 1 .. Len(s) : s[i] = e
  BY <1>1 DEF RemoveFirst
<1>2. CASE \E i \in 1 .. Len(s) : s[i] = e
  <2>1. PICK k \in 1 .. Len(s) : s[k] = e /\ RemoveFirst(s, e) = RemoveAt(s, k)
    BY <1>2, FirstIndex
  <2>2. RemoveAt(s, k) \in Seq(S)
    BY Cutting
  <2>3. \A i \in 1 .. Len(s) : s[i] # e => s[i] \in ToSet(RemoveAt(s, k))
    <3>1. \A i \in 1 .. Len(s) : s[i] # e => i # k
      BY <2>1
    <3> QED BY <3>1, Cutting
  <2>4. DOMAIN s = 1 .. Len(s)
    BY LenProperties
  <2>5. ToSet(s) \ {e} \subseteq ToSet(RemoveAt(s, k))
    BY <2>3, <2>4 DEF ToSet
  <2> QED BY <2>1, <2>2, <2>5
<1> QED BY <1>1, <1>2

LEMMA Appending ==
  ASSUME NEW S, NEW s \in Seq(S), NEW e \in S
  PROVE  Append(s, e) \in Seq(S) /\ ToSet(s) \cup {e} \subseteq ToSet(Append(s, e))
<1>1. DOMAIN s = 1 .. Len(s) /\ Len(s) \in Nat
  BY LenProperties
<1>2. /\ Append(s, e) \in Seq(S) /\ Len(Append(s, e)) = Len(s) + 1
      /\ \A i \in 1 .. Len(s) : Append(s, e)[i] = s[i]
      /\ Append(s, e)[Len(s) + 1] = e
  BY AppendProperties
<1>3. DOMAIN Append(s, e) = 1 .. Len(s) + 1
  BY <1>2, LenProperties
<1> QED BY <1>1, <1>2, <1>3 DEF ToSet

LEMMA FrontTyped ==
  ASSUME NEW S, NEW s \in Seq(S)
  PROVE  Front(s) \in Seq(S)
<1>1. Len(s) \in Nat /\ \A i \in 1 .. Len(s) : s[i] \in S
  BY LenProperties, ElementOfSeq
<1> QED BY <1>1, SubSeqProperties DEF Front

(***************************************************************************)
(* The invariant.                                                          *)
(***************************************************************************)
State  == {"absent", "part", "whole"}
Fetching == {"fetch", "globals", "prefix", "activate"}
Grading  == Fetching \cup {"download", "extract", "save", "saving", "saved"}
Reading  == Fetching \cup {"stat", "config", "copy", "libraries", "shell"}
Pcs == {"idle", "boot", "prune", "failing", "cleaning", "refused"} \cup Grading \cup Reading

Stagings == {"none", "empty", "half", "part", "whole"}

Actor == [pc : Pcs, run : Kept \cup {NoRun}, staging : Stagings,
          due : BOOLEAN, failed : BOOLEAN, files : State, libs : State]

Typed ==
    /\ byTime \in Seq(Kept) /\ victims \in Seq(Kept) /\ target \in Kept \cup {NoRun}
    /\ piece \in [Kept -> [Pieces -> State]]
    /\ graded \subseteq Kept /\ removed \subseteq Kept /\ bootCount \in 1 .. MaxBoots
    /\ actor \in [Actors -> Actor]

Doomed == target # NoRun => target \in removed

\* A run that no RemoveAll has begun with: its config is all there or not there,
\* and its run.json, when it is whole, says the truth of the rest.
Sound(r) ==
    r \notin removed =>
        /\ Has(r, "config") \in {"absent", "whole"}
        /\ Has(r, "state") = "whole" => Has(r, "workspace") = "whole"
        /\ r \in graded => Has(r, "state") = "whole"
        /\ (\E p \in Pieces : Has(r, p) # "absent") => Exists(r)

\* Nobody takes an actor's staging directory from it.
Staged(a) ==
    /\ actor[a].pc \notin {"idle", "boot"} => RunOf(a) \in Kept
    /\ Stands(a, "activate") => actor[a].staging \in {"none", "part", "whole"}
    /\ RunOf(a) \notin removed =>
          /\ Stands(a, "globals") => actor[a].staging = "empty"
          /\ Stands(a, "prefix") => actor[a].staging = "half"
          /\ Stands(a, "activate") => actor[a].staging = "whole"

\* The job writes run.json last.
Job ==
    actor[Grader].pc \in Grading /\ RunOf(Grader) \notin removed =>
        /\ Exists(RunOf(Grader))
        /\ Has(RunOf(Grader), "state") = "whole" <=> Stands(Grader, "saved")
        /\ actor[Grader].pc \in {"save", "saving"} => Has(RunOf(Grader), "workspace") = "whole"

\* A terminal has found run.json whole, and a config or fetched one.
Terminal(t) ==
    RunOf(t) \notin removed =>
        /\ actor[t].pc \in Reading => Has(RunOf(t), "state") = "whole"
        /\ actor[t].pc \in {"copy", "libraries", "shell"} => Has(RunOf(t), "config") = "whole"
        /\ actor[t].pc \in {"libraries", "shell"} => actor[t].files = "whole"
        /\ Stands(t, "shell") => actor[t].libs = "whole"
        /\ Stands(t, "refused") /\ actor[t].due => actor[t].failed

IInv ==
    /\ Typed
    /\ Doomed
    /\ \A r \in Kept : Sound(r)
    /\ \A a \in Actors : Staged(a)
    /\ Job
    /\ \A t \in Terms : Terminal(t)

LEMMA Distinct ==
  /\ NoRun \notin Kept /\ Grader \in Actors /\ Grader \notin Terms
  /\ \A t \in Terms : t \in Actors /\ t # Grader
  BY RunStoreAssumption DEF Actors

\* The directories there are at first, in some order.
LEMMA FirstOrder == SetToSeq(Legacy) \in Seq(Legacy) /\ ToSet(SetToSeq(Legacy)) = Legacy
<1> DEFINE n == Cardinality(Legacy)
           s == SetToSeq(Legacy)
<1>1. n \in Nat /\ ExistsBijection(1 .. n, Legacy)
  BY FS_CardinalityType, RunStoreAssumption
<1>2. PICK f : f \in Bijection(1 .. n, Legacy)
  BY <1>1 DEF ExistsBijection
<1>3. f \in [1 .. n -> Legacy] /\ IsInjective(f)
  BY <1>2 DEF Bijection, Injection, IsInjective
<1>4. s \in [1 .. n -> Legacy] /\ IsInjective(s)
  BY <1>3 DEF SetToSeq
<1> HIDE DEF s, n
<1>5. s \in Injection(1 .. n, Legacy)
  BY <1>4 DEF Injection, IsInjective
<1>6. IsFiniteSet(1 .. n) /\ Cardinality(1 .. n) = n
  BY <1>1, FS_Interval
<1>7. s \in Surjection(1 .. n, Legacy)
  BY <1>5, <1>6, FS_Injection, RunStoreAssumption DEF n
<1>8. s \in Seq(Legacy)
  BY <1>1, <1>4
<1>9. ToSet(s) = Legacy
  BY <1>4, <1>7 DEF ToSet, Surjection
<1> QED BY <1>8, <1>9 DEF s

LEMMA InvInit == RunStoreInit => IInv
<1> SUFFICES ASSUME RunStoreInit PROVE IInv
  OBVIOUS
<1>1. byTime \in Seq(Kept) /\ ToSet(byTime) = Legacy
  BY FirstOrder, SeqMonotonic DEF RunStoreInit, Kept
<1>2. Typed
  <2>1. actor \in [Actors -> Actor]
    BY DEF RunStoreInit, Idle, Actor, Pcs, Stagings, State
  <2>2. piece \in [Kept -> [Pieces -> State]]
    BY DEF RunStoreInit, State
  <2> QED BY <1>1, <2>1, <2>2, RunStoreAssumption DEF RunStoreInit, Typed, Kept
<1>3. ASSUME NEW r \in Kept PROVE Sound(r)
  <2>1. \A p \in Pieces : Has(r, p) = IF r \in Legacy /\ p # "config" THEN "whole" ELSE "absent"
    BY DEF RunStoreInit, Has
  <2> QED BY <1>1, <2>1 DEF RunStoreInit, Sound, Exists, Pieces
<1>4. \A a \in Actors : actor[a].pc = "idle"
  BY DEF RunStoreInit, Idle
<1>5. ASSUME NEW a \in Actors PROVE Staged(a)
  BY <1>4 DEF Staged, Stands
<1>6. Job
  BY <1>4, Distinct DEF Job, Grading, Fetching
<1>7. ASSUME NEW t \in Terms PROVE Terminal(t)
  BY <1>4, Distinct DEF Terminal, Stands, Reading, Fetching
<1> QED BY <1>2, <1>3, <1>5, <1>6, <1>7 DEF IInv, RunStoreInit, Doomed

(***************************************************************************)
(* Types.                                                                  *)
(***************************************************************************)
LEMMA Newer ==
  ASSUME Typed, NEW r \in Kept
  PROVE  Newest(r) \in Seq(Kept) /\ ToSet(byTime) \cup {r} \subseteq ToSet(Newest(r))
<1>1. /\ RemoveFirst(byTime, r) \in Seq(Kept)
      /\ ToSet(byTime) \ {r} \subseteq ToSet(RemoveFirst(byTime, r))
  BY Removing DEF Typed
<1>2. /\ Newest(r) \in Seq(Kept)
      /\ ToSet(RemoveFirst(byTime, r)) \cup {r} \subseteq ToSet(Newest(r))
  BY <1>1, Appending DEF Newest
<1> QED BY <1>1, <1>2

\* An actor's run, wherever it is used.
LEMMA Running ==
  ASSUME IInv, NEW a \in Actors, actor[a].pc \notin {"idle", "boot"}
  PROVE  RunOf(a) \in Kept
BY DEF IInv, Staged

LEMMA InPcs ==
  /\ "idle" \in Pcs /\ "boot" \in Pcs /\ "prune" \in Pcs /\ "failing" \in Pcs
  /\ "cleaning" \in Pcs /\ "refused" \in Pcs /\ "fetch" \in Pcs /\ "globals" \in Pcs
  /\ "prefix" \in Pcs /\ "activate" \in Pcs /\ "download" \in Pcs /\ "extract" \in Pcs
  /\ "save" \in Pcs /\ "saving" \in Pcs /\ "saved" \in Pcs /\ "stat" \in Pcs
  /\ "config" \in Pcs /\ "copy" \in Pcs /\ "libraries" \in Pcs /\ "shell" \in Pcs
  BY DEF Pcs, Grading, Reading, Fetching

LEMMA InStagings ==
  /\ "none" \in Stagings /\ "empty" \in Stagings /\ "half" \in Stagings
  /\ "part" \in Stagings /\ "whole" \in Stagings
  BY DEF Stagings

LEMMA StagingSet ==
  ASSUME Typed, NEW a \in Actors, NEW to \in Pcs, NEW staging \in Stagings,
         actor' = [actor EXCEPT ![a].pc = to, ![a].staging = staging]
  PROVE  actor' \in [Actors -> Actor]
<1>1. actor \in [Actors -> Actor] /\ actor[a] \in Actor
  BY DEF Typed
<1>2. [actor[a] EXCEPT !.pc = to, !.staging = staging] \in Actor
  BY <1>1 DEF Actor
<1>3. actor' = [actor EXCEPT ![a] = [actor[a] EXCEPT !.pc = to, !.staging = staging]]
  BY <1>1
<1> QED BY <1>1, <1>2, <1>3

\* A step of one actor, of which the order and the pieces change in ways that are typed.
LEMMA TypedFetch ==
  ASSUME IInv, NEW a \in Actors, FetchStep(a)
  PROVE  Typed'
<1>1. Typed
  BY DEF IInv
<1>2. actor[a].pc \in Fetching
  BY DEF FetchStep, OpenStaging, Globals, Prefix, FetchFails, Activate, Stands, Fetching
<1>3. RunOf(a) \in Kept /\ Newest(RunOf(a)) \in Seq(Kept)
  BY <1>1, <1>2, Running, Newer DEF Fetching
<1>4. byTime' \in Seq(Kept) /\ UNCHANGED <<victims, target, graded, removed, bootCount>>
  <2>1. byTime' = byTime \/ byTime' = Newest(RunOf(a))
    BY DEF FetchStep, OpenStaging, Globals, Prefix, FetchFails, Activate, Touched, Left
  <2>2. UNCHANGED <<victims, target, graded, removed, bootCount>>
    BY DEF FetchStep, OpenStaging, Globals, Prefix, FetchFails, Activate
  <2> QED BY <1>1, <1>3, <2>1, <2>2 DEF Typed
<1>5. actor' \in [Actors -> Actor]
  <2>1. ASSUME NEW to \in Pcs, NEW staging \in Stagings,
               actor' = [actor EXCEPT ![a].pc = to, ![a].staging = staging]
        PROVE  actor' \in [Actors -> Actor]
    BY <1>1, <2>1, StagingSet
  <2>2. ASSUME NEW to \in Pcs,
               actor' = [actor EXCEPT ![a].pc = to, ![a].staging = "none", ![a].failed = TRUE]
        PROVE  actor' \in [Actors -> Actor]
    <3>1. actor \in [Actors -> Actor] /\ actor[a] \in Actor
      BY <1>1 DEF Typed
    <3>2. [actor[a] EXCEPT !.pc = to, !.staging = "none", !.failed = TRUE] \in Actor
      BY <3>1, InStagings DEF Actor
    <3>3. actor' = [actor EXCEPT ![a] = [actor[a] EXCEPT !.pc = to, !.staging = "none", !.failed = TRUE]]
      BY <2>2, <3>1
    <3> QED BY <3>1, <3>2, <3>3
  <2>3. Fetched(a) \in Pcs /\ FetchError(a) \in Pcs
    BY InPcs DEF Fetched, FetchError
  <2>4. CASE OpenStaging(a) \/ Globals(a)
    BY <2>1, <2>4, InPcs, InStagings DEF OpenStaging, Globals
  <2>5. CASE Prefix(a)
    <3>1. actor' = [actor EXCEPT ![a].pc = "activate",
                        ![a].staging = IF actor[a].staging = "half" THEN "whole" ELSE "part"]
      BY <1>1, <2>5 DEF Prefix, Typed, Actor
    <3> QED BY <2>1, <3>1, InPcs, InStagings
  <2>6. CASE FetchFails(a)
    BY <2>2, <2>3, <2>6 DEF FetchFails
  <2>7. CASE Activate(a)
    BY <2>1, <2>3, <2>7, InStagings DEF Activate
  <2> QED BY <2>4, <2>5, <2>6, <2>7 DEF FetchStep
<1>6. piece' \in [Kept -> [Pieces -> State]]
  <2>1. CASE UNCHANGED piece
    BY <1>1, <2>1 DEF Typed
  <2>2. CASE Activate(a)
    <3>1. CASE actor[a].staging = "none"
      BY <1>1, <2>2, <3>1 DEF Activate, Typed
    <3>2. CASE actor[a].staging # "none"
      <4>1. actor[a].staging \in State
        BY <2>2, <3>2 DEF IInv, Staged, Activate, State
      <4> QED BY <1>1, <1>3, <2>2, <4>1 DEF Activate, Typed
    <3> QED BY <3>1, <3>2
  <2> QED BY <2>1, <2>2 DEF FetchStep, OpenStaging, Globals, Prefix, FetchFails
<1> QED BY <1>1, <1>4, <1>5, <1>6 DEF Typed

GradingStep ==
    BeginExtract \/ EndExtract \/ BeginSave \/ EndSave \/ Upload \/ JobFails \/ CleanUp

RemovalStep == RemoveOldest \/ RemovePiece \/ EndRemove \/ EndPrune

TermStep(t) ==
    \/ RemoveStaging(t) \/ StatWorkspace(t) \/ StatConfig(t) \/ CopyTree(t) \/ CopyLibraries(t)
    \/ Leave(t) \/ \E r \in Kept : Ask(t, r)

LEMMA MovesOn ==
  ASSUME Typed, NEW a \in Actors, NEW to \in Pcs
  PROVE  MoveOn(a, to) => actor' \in [Actors -> Actor]
<1>1. actor \in [Actors -> Actor] /\ actor[a] \in Actor
  BY DEF Typed
<1>2. [actor[a] EXCEPT !.pc = to] \in Actor
  BY <1>1 DEF Actor
<1>3. MoveOn(a, to) => actor' = [actor EXCEPT ![a] = [actor[a] EXCEPT !.pc = to]]
  BY <1>1 DEF MoveOn
<1> QED BY <1>1, <1>2, <1>3

LEMMA Engages ==
  ASSUME Typed, NEW a \in Actors, NEW to \in Pcs, NEW r \in Kept \cup {NoRun}, NEW due \in BOOLEAN,
         actor' = [actor EXCEPT ![a] = [Idle EXCEPT !.pc = to, !.run = r, !.due = due]]
  PROVE  actor' \in [Actors -> Actor]
<1>1. [Idle EXCEPT !.pc = to, !.run = r, !.due = due] \in Actor
  BY InStagings DEF Idle, Actor, State
<1> QED BY <1>1 DEF Typed

LEMMA IdleActor == Idle \in Actor
BY InStagings, InPcs DEF Idle, Actor, State

LEMMA TypedBegin == ASSUME IInv, NEW r \in New, BeginGrade(r) PROVE Typed'
<1>1. Typed /\ r \in Kept
  BY DEF IInv, Kept
<1>2. [Idle EXCEPT !.pc = "fetch", !.run = r] \in Actor
  BY <1>1, InPcs, IdleActor DEF Actor, Idle
<1>3. actor' \in [Actors -> Actor]
  BY <1>1, <1>2 DEF BeginGrade, Typed
<1> QED BY <1>1, <1>3, Newer DEF BeginGrade, Touched, Typed

LEMMA TypedJob == ASSUME IInv, GradingStep PROVE Typed'
<1>1. Typed /\ Grader \in Actors
  BY Distinct DEF IInv
<1>2. /\ actor[Grader].pc \notin {"idle", "boot"}
      /\ RunOf(Grader) \in Kept /\ Newest(RunOf(Grader)) \in Seq(Kept)
  <2>1. actor[Grader].pc \notin {"idle", "boot"}
    BY DEF GradingStep, BeginExtract, EndExtract, BeginSave, EndSave, Write1, Upload, JobFails, CleanUp, Stands
  <2> QED BY <1>1, <2>1, Running, Newer
<1>3. actor' \in [Actors -> Actor]
  <2>1. \E to \in Pcs : MoveOn(Grader, to)
    BY InPcs DEF GradingStep, BeginExtract, EndExtract, BeginSave, EndSave, Write1, Upload, JobFails, CleanUp
  <2> QED BY <1>1, <2>1, MovesOn
<1>4. byTime' \in Seq(Kept)
  BY <1>1, <1>2 DEF GradingStep, BeginExtract, EndExtract, BeginSave, EndSave, Upload, JobFails, CleanUp,
     Touched, storeFiles, Typed
<1>5. piece' \in [Kept -> [Pieces -> State]]
  <2>1. ASSUME NEW p \in Pieces, NEW v \in State, piece' = [piece EXCEPT ![RunOf(Grader)][p] = v]
        PROVE  piece' \in [Kept -> [Pieces -> State]]
    BY <1>1, <2>1 DEF Typed
  <2>2. CASE UNCHANGED piece
    BY <1>1, <2>2 DEF Typed
  <2>3. \/ UNCHANGED piece
        \/ \E p \in Pieces, v \in State : piece' = [piece EXCEPT ![RunOf(Grader)][p] = v]
    BY DEF GradingStep, BeginExtract, EndExtract, BeginSave, EndSave, Write1, Upload, JobFails, CleanUp,
       storeFiles, Pieces, State
  <2> QED BY <2>1, <2>2, <2>3
<1>6. victims' \in Seq(Kept)
  <2>1. CASE Upload
    BY <1>1, <2>1, FrontTyped DEF Upload, Typed
  <2> QED BY <1>1, <2>1 DEF GradingStep, BeginExtract, EndExtract, BeginSave, EndSave, Write1, JobFails,
     CleanUp, Typed
<1>7. graded' \subseteq Kept /\ removed' \subseteq Kept /\ target' \in Kept \cup {NoRun}
  BY <1>1, <1>2 DEF GradingStep, BeginExtract, EndExtract, BeginSave, EndSave, Write1, Upload, JobFails,
     CleanUp, Typed
<1>8. bootCount' = bootCount
  BY DEF GradingStep, BeginExtract, EndExtract, BeginSave, EndSave, Write1, Upload, JobFails, CleanUp
<1> QED BY <1>1, <1>3, <1>4, <1>5, <1>6, <1>7, <1>8 DEF Typed

LEMMA TypedRemoval == ASSUME IInv, RemovalStep PROVE Typed'
<1>1. Typed /\ Grader \in Actors
  BY Distinct DEF IInv
<1>2. CASE RemoveOldest
  <2>1. Head(victims) \in Kept /\ Tail(victims) \in Seq(Kept)
    BY <1>1, <1>2, HeadTailProperties DEF RemoveOldest, Typed
  <2> QED BY <1>1, <1>2, <2>1 DEF RemoveOldest, storeFiles, Typed
<1>3. CASE RemovePiece
  <2>1. target \in Kept
    BY <1>1, <1>3 DEF RemovePiece, Typed
  <2>2. PICK p \in Pieces, v \in {"part", "absent"} :
           /\ piece' = [piece EXCEPT ![target][p] = v]
           /\ byTime' = IF v = "absent" THEN Newest(target) ELSE byTime
    BY <1>3 DEF RemovePiece
  <2>3. piece' \in [Kept -> [Pieces -> State]]
    BY <1>1, <2>2 DEF Typed, State
  <2>4. byTime' \in Seq(Kept)
    BY <1>1, <2>1, <2>2, Newer DEF Typed
  <2> QED BY <1>1, <1>3, <2>3, <2>4 DEF RemovePiece, Typed
<1>4. CASE EndRemove
  <2>1. byTime' \in Seq(Kept)
    BY <1>1, <1>4, Removing DEF EndRemove, Typed
  <2>2. actor' \in [Actors -> Actor]
    BY <1>1, <1>4, IdleActor DEF EndRemove, Typed
  <2> QED BY <1>1, <1>4, <2>1, <2>2 DEF EndRemove, Typed
<1>5. CASE EndPrune
  <2>1. actor' \in [Actors -> Actor]
    BY <1>1, <1>5, IdleActor DEF EndPrune, Typed
  <2> QED BY <1>1, <1>5, <2>1 DEF EndPrune, storeFiles, Typed
<1> QED BY <1>2, <1>3, <1>4, <1>5 DEF RemovalStep

LEMMA TypedTerm == ASSUME IInv, NEW t \in Terms, TermStep(t) PROVE Typed'
<1>1. Typed /\ t \in Actors
  BY Distinct DEF IInv
<1>2. UNCHANGED <<piece, graded, removed, victims, target, bootCount>>
  BY DEF TermStep, RemoveStaging, StatWorkspace, StatConfig, CopyTree, CopyLibraries, Leave, Ask, storeFiles
<1>3. byTime' \in Seq(Kept)
  <2>1. CASE RemoveStaging(t)
    <3>1. target \in Kept
      BY <1>1, <2>1 DEF RemoveStaging, Typed
    <3> QED BY <1>1, <2>1, <3>1, Newer DEF RemoveStaging, Touched
  <2> QED BY <1>1, <2>1 DEF TermStep, StatWorkspace, StatConfig, CopyTree, CopyLibraries, Leave, Ask,
     storeFiles, Typed
<1>4. actor' \in [Actors -> Actor]
  <2>1. CASE RemoveStaging(t)
    BY <1>1, <2>1, InStagings DEF RemoveStaging, Typed, Actor
  <2>2. CASE StatWorkspace(t) \/ StatConfig(t)
    BY <1>1, <2>2, InPcs, MovesOn DEF StatWorkspace, StatConfig
  <2>3. CASE CopyTree(t) \/ CopyLibraries(t)
    <3>0. actor \in [Actors -> Actor] /\ t \in Actors /\ actor[t] \in Actor
      BY <1>1 DEF Typed
    <3>1. actor[t].pc \notin {"idle", "boot"}
      BY <2>3 DEF CopyTree, CopyLibraries, Stands
    <3>2. Has(RunOf(t), "workspace") \in State /\ Has(RunOf(t), "config") \in State
      BY <1>1, <3>1, Running DEF Has, Typed, Pieces
    <3>3. ASSUME NEW v \in State, actor' = [actor EXCEPT ![t].pc = "libraries", ![t].files = v]
          PROVE  actor' \in [Actors -> Actor]
      <4>1. [actor[t] EXCEPT !.pc = "libraries", !.files = v] \in Actor
        BY <3>0, InPcs DEF Actor
      <4>2. actor' = [actor EXCEPT ![t] = [actor[t] EXCEPT !.pc = "libraries", !.files = v]]
        BY <3>0, <3>3
      <4> QED BY <3>0, <4>1, <4>2
    <3>4. ASSUME NEW v \in State, actor' = [actor EXCEPT ![t].pc = "shell", ![t].libs = v]
          PROVE  actor' \in [Actors -> Actor]
      <4>1. [actor[t] EXCEPT !.pc = "shell", !.libs = v] \in Actor
        BY <3>0, InPcs DEF Actor
      <4>2. actor' = [actor EXCEPT ![t] = [actor[t] EXCEPT !.pc = "shell", !.libs = v]]
        BY <3>0, <3>4
      <4> QED BY <3>0, <4>1, <4>2
    <3>5. CASE CopyTree(t)
      <4>1. CASE MoveOn(t, "refused")
        BY <1>1, <4>1, InPcs, MovesOn
      <4> QED BY <3>2, <3>3, <3>5, <4>1 DEF CopyTree
    <3>6. CASE CopyLibraries(t)
      BY <3>2, <3>4, <3>6 DEF CopyLibraries
    <3> QED BY <2>3, <3>5, <3>6
  <2>4. CASE Leave(t)
    BY <1>1, <2>4, IdleActor DEF Leave, Typed
  <2>5. ASSUME NEW r \in Kept, Ask(t, r) PROVE actor' \in [Actors -> Actor]
    <3> DEFINE to == IF Has(r, "state") = "whole" THEN "stat" ELSE "refused"
               due == r \in graded
    <3>1. to \in Pcs /\ due \in BOOLEAN
      BY InPcs
    <3>2. actor' = [actor EXCEPT ![t] = [Idle EXCEPT !.pc = to, !.run = r, !.due = due]]
      BY <2>5 DEF Ask
    <3> HIDE DEF to, due
    <3> QED BY <1>1, <3>1, <3>2, Engages
  <2> QED BY <2>1, <2>2, <2>3, <2>4, <2>5 DEF TermStep
<1> QED BY <1>1, <1>2, <1>3, <1>4 DEF Typed

LEMMA TypedReboot == ASSUME IInv, Reboot PROVE Typed'
<1>1. Typed
  BY DEF IInv
<1>2. actor' \in [Actors -> Actor]
  <2>1. [Idle EXCEPT !.pc = "boot"] \in Actor
    BY InPcs, IdleActor DEF Actor, Idle
  <2> QED BY <2>1, IdleActor DEF Reboot
<1>3. victims' \in Seq(Kept)
  BY <1>1, FrontTyped DEF Reboot, Typed
<1>4. bootCount' \in 1 .. MaxBoots
  BY <1>1, RunStoreAssumption DEF Reboot, Typed
<1> QED BY <1>1, <1>2, <1>3, <1>4 DEF Reboot, storeFiles, Typed

(***************************************************************************)
(* What a step does to the runs that nothing is removed from.              *)
(***************************************************************************)
\* Their directories stay, and their run.json and config once they are whole.
Forward ==
    /\ removed \subseteq removed'
    /\ \A r \in Kept : r \notin removed' =>
          /\ Exists(r) => Exists(r)'
          /\ Has(r, "state") = "whole" => Has(r, "state")' = "whole"
          /\ Has(r, "config") = "whole" => Has(r, "config")' = "whole"

\* Only the job writes run.json and the workspace.
Unwritten ==
    \A r \in Kept : r \notin removed' =>
        Has(r, "state")' = Has(r, "state") /\ Has(r, "workspace")' = Has(r, "workspace")

DiskInv == Doomed /\ \A r \in Kept : Sound(r)

LEMMA DiskOrder ==
  ASSUME IInv, graded' = graded, removed \subseteq removed', Doomed',
         \A r \in Kept : r \notin removed' => piece'[r] = piece[r] /\ (Exists(r) => Exists(r)')
  PROVE  Forward /\ Unwritten /\ DiskInv'
<1>1. Forward /\ Unwritten
  BY DEF Forward, Unwritten, Has
<1>2. ASSUME NEW r \in Kept PROVE Sound(r)'
  BY DEF IInv, Sound, Has
<1> QED BY <1>1, <1>2 DEF DiskInv

LEMMA FetchRun ==
  ASSUME IInv, NEW a \in Actors, actor[a].pc \in Fetching
  PROVE  RunOf(a) \in Kept /\ (RunOf(a) \notin removed => Exists(RunOf(a)))
<1>1. RunOf(a) \in Kept
  BY Running DEF Fetching
<1>2. CASE a = Grader
  BY <1>1, <1>2 DEF IInv, Job, Grading
<1>3. CASE a \in Terms
  <2>1. RunOf(a) \notin removed => Has(RunOf(a), "state") = "whole"
    BY <1>3 DEF IInv, Terminal, Reading
  <2> QED BY <1>1, <2>1 DEF IInv, Sound, Pieces
<1> QED BY <1>1, <1>2, <1>3 DEF Actors

LEMMA DiskFetch ==
  ASSUME IInv, NEW a \in Actors, FetchStep(a)
  PROVE  Forward /\ Unwritten /\ DiskInv'
<1>1. actor[a].pc \in Fetching
  BY DEF FetchStep, OpenStaging, Globals, Prefix, FetchFails, Activate, Stands, Fetching
<1>2. /\ RunOf(a) \in Kept /\ (RunOf(a) \notin removed => Exists(RunOf(a)))
      /\ ToSet(byTime) \cup {RunOf(a)} \subseteq ToSet(Newest(RunOf(a)))
  BY <1>1, FetchRun, Newer DEF IInv
<1>3. UNCHANGED <<graded, removed, target>> /\ Doomed'
  BY DEF FetchStep, OpenStaging, Globals, Prefix, FetchFails, Activate, IInv, Doomed
<1>4. byTime' \in {byTime, Newest(RunOf(a))}
  BY DEF FetchStep, OpenStaging, Globals, Prefix, FetchFails, Activate, Touched, Left
<1>5. \A r \in Kept : Exists(r) => Exists(r)'
  BY <1>2, <1>4 DEF Exists
<1>6. CASE UNCHANGED piece
  BY <1>3, <1>5, <1>6, DiskOrder
<1>7. CASE RunOf(a) \in removed /\ Activate(a)
  <2>1. \A r \in Kept : r # RunOf(a) => piece'[r] = piece[r]
    BY <1>2, <1>7 DEF Activate, IInv, Typed
  <2> QED BY <1>3, <1>5, <1>7, <2>1, DiskOrder
<1>8. CASE /\ Activate(a) /\ RunOf(a) \notin removed
           /\ piece' = [piece EXCEPT ![RunOf(a)].config = actor[a].staging]
           /\ Has(RunOf(a), "config") = "absent"
  <2>1. actor[a].staging = "whole"
    BY <1>8 DEF Activate, IInv, Staged
  <2>2. \A r \in Kept : r # RunOf(a) => piece'[r] = piece[r]
    BY <1>2, <1>8 DEF IInv, Typed
  <2>3. /\ piece'[RunOf(a)]["state"] = piece[RunOf(a)]["state"]
        /\ piece'[RunOf(a)]["workspace"] = piece[RunOf(a)]["workspace"]
        /\ piece'[RunOf(a)]["config"] = "whole"
    BY <1>2, <1>8, <2>1 DEF IInv, Typed, Pieces
  <2>4. Forward /\ Unwritten
    BY <1>3, <1>5, <2>2, <2>3 DEF Forward, Unwritten, Has
  <2>5. ASSUME NEW r \in Kept PROVE Sound(r)'
    <3>1. CASE r # RunOf(a)
      BY <1>3, <1>5, <2>2, <3>1 DEF IInv, Sound, Has
    <3>2. CASE r = RunOf(a)
      BY <1>2, <1>3, <1>5, <2>3, <3>2 DEF IInv, Sound, Has
    <3> QED BY <3>1, <3>2
  <2> QED BY <1>3, <2>4, <2>5 DEF DiskInv
<1> QED BY <1>6, <1>7, <1>8 DEF FetchStep, OpenStaging, Globals, Prefix, FetchFails, Activate

LEMMA DiskBegin ==
  ASSUME IInv, NEW r \in New, BeginGrade(r)
  PROVE  Forward /\ Unwritten /\ DiskInv' /\ r \in Kept /\ Exists(r)'
<1>1. r \in Kept
  BY DEF Kept
<1>2. ToSet(byTime) \cup {r} \subseteq ToSet(byTime')
  BY <1>1, Newer DEF BeginGrade, Touched, IInv
<1>3. UNCHANGED <<piece, graded, removed, target>> /\ Doomed'
  BY DEF BeginGrade, IInv, Doomed
<1>4. Forward /\ Unwritten /\ DiskInv'
  BY <1>2, <1>3, DiskOrder DEF Exists
<1> QED BY <1>1, <1>2, <1>4 DEF Exists

\* Everything that is removed belongs to the target.
LEMMA DiskRemoval ==
  ASSUME IInv, RemovalStep
  PROVE  Forward /\ Unwritten /\ DiskInv'
<1>1. Typed /\ Doomed
  BY DEF IInv, Doomed
<1>2. CASE RemoveOldest
  <2>1. Head(victims) \in Kept
    BY <1>1, <1>2, HeadTailProperties DEF RemoveOldest, Typed
  <2>2. UNCHANGED <<piece, byTime, graded>> /\ removed \subseteq removed' /\ Doomed'
    BY <1>2 DEF RemoveOldest, storeFiles, Doomed
  <2> QED BY <2>2, DiskOrder DEF Exists
<1>3. CASE RemovePiece
  <2>1. target \in Kept /\ target \in removed
    BY <1>1, <1>3 DEF RemovePiece, Typed, Doomed
  <2>2. UNCHANGED <<graded, removed, target>> /\ Doomed'
    BY <1>1, <1>3 DEF RemovePiece, Doomed
  <2>3. \A r \in Kept : r # target => piece'[r] = piece[r]
    BY <1>1, <1>3 DEF RemovePiece, Typed
  <2>4. \A r \in Kept : Exists(r) => Exists(r)'
    BY <1>1, <1>3, <2>1, Newer DEF RemovePiece, Exists
  <2> QED BY <2>1, <2>2, <2>3, <2>4, DiskOrder
<1>4. CASE EndRemove
  <2>1. target \in removed /\ UNCHANGED <<piece, graded, removed>> /\ Doomed'
    BY <1>1, <1>4 DEF EndRemove, Doomed
  <2>2. ToSet(byTime) \ {target} \subseteq ToSet(byTime')
    BY <1>1, <1>4, Removing DEF EndRemove, Typed
  <2> QED BY <2>1, <2>2, DiskOrder DEF Exists
<1>5. CASE EndPrune
  <2>1. UNCHANGED <<piece, byTime, graded, removed, target>> /\ Doomed'
    BY <1>1, <1>5 DEF EndPrune, storeFiles, Doomed
  <2> QED BY <2>1, DiskOrder DEF Exists
<1> QED BY <1>2, <1>3, <1>4, <1>5 DEF RemovalStep

LEMMA DiskTerm ==
  ASSUME IInv, NEW t \in Terms, TermStep(t)
  PROVE  Forward /\ Unwritten /\ DiskInv'
<1>1. UNCHANGED <<piece, graded, removed, target>> /\ Doomed'
  BY DEF TermStep, RemoveStaging, StatWorkspace, StatConfig, CopyTree, CopyLibraries, Leave, Ask,
     storeFiles, IInv, Doomed
<1>2. ToSet(byTime) \subseteq ToSet(byTime')
  <2>1. CASE RemoveStaging(t)
    <3>1. target \in Kept
      BY <2>1 DEF RemoveStaging, IInv, Typed
    <3> QED BY <2>1, <3>1, Newer DEF RemoveStaging, Touched, IInv
  <2> QED BY <2>1 DEF TermStep, StatWorkspace, StatConfig, CopyTree, CopyLibraries, Leave, Ask, storeFiles
<1> QED BY <1>1, <1>2, DiskOrder DEF Exists

LEMMA DiskReboot ==
  ASSUME IInv, Reboot
  PROVE  Forward /\ Unwritten /\ DiskInv'
<1>1. UNCHANGED <<piece, byTime, graded, removed>> /\ Doomed'
  BY DEF Reboot, storeFiles, Doomed
<1> QED BY <1>1, DiskOrder DEF Exists

LEMMA DiskJob ==
  ASSUME IInv, GradingStep
  PROVE  Forward /\ DiskInv'
<1>1. Typed /\ Doomed /\ Grader \in Actors
  BY Distinct DEF IInv, Doomed
<1>2. PICK g \in Kept : g = RunOf(Grader) /\ ToSet(byTime) \cup {g} \subseteq ToSet(Newest(g))
  <2>1. actor[Grader].pc \notin {"idle", "boot"}
    BY DEF GradingStep, BeginExtract, EndExtract, BeginSave, EndSave, Write1, Upload, JobFails, CleanUp, Stands
  <2> QED BY <1>1, <2>1, Running, Newer
<1>3. CASE Upload
  <2>1. Forward /\ Doomed' /\ UNCHANGED <<piece, byTime, removed>>
    BY <1>1, <1>3 DEF Upload, storeFiles, Forward, Has, Exists, Doomed
  <2>2. g \notin removed => Has(g, "state") = "whole"
    BY <1>2, <1>3 DEF Upload, IInv, Job, Grading, Stands
  <2>3. ASSUME NEW r \in Kept PROVE Sound(r)'
    BY <1>2, <1>3, <2>1, <2>2 DEF Upload, IInv, Sound, Has, Exists
  <2> QED BY <2>1, <2>3 DEF DiskInv
<1>4. CASE JobFails
  <2>1. UNCHANGED <<piece, byTime, graded, removed>> /\ Doomed'
    BY <1>1, <1>4 DEF JobFails, storeFiles, Doomed
  <2> QED BY <2>1, DiskOrder DEF Exists
<1>5. CASE CleanUp
  <2>1. UNCHANGED <<piece, byTime, graded>> /\ removed \subseteq removed' /\ Doomed'
    BY <1>1, <1>5 DEF CleanUp, storeFiles, Doomed
  <2> QED BY <2>1, DiskOrder DEF Exists
<1>6. CASE BeginExtract \/ EndExtract \/ BeginSave \/ EndSave
  <2>1. UNCHANGED <<graded, removed, target>> /\ Doomed'
    BY <1>1, <1>6 DEF BeginExtract, EndExtract, BeginSave, EndSave, Write1, Doomed
  <2>2. /\ BeginExtract => piece' = [piece EXCEPT ![g]["workspace"] = "part"]
        /\ EndExtract => piece' = [piece EXCEPT ![g]["workspace"] = "whole"]
        /\ BeginSave => piece' = [piece EXCEPT ![g]["state"] = "part"]
        /\ EndSave => piece' = [piece EXCEPT ![g]["state"] = "whole"]
    BY <1>2 DEF BeginExtract, EndExtract, BeginSave, EndSave, Write1
  <2>3. "state" \in Pieces /\ "workspace" \in Pieces /\ "config" \in Pieces
    BY DEF Pieces
  <2>4. /\ BeginExtract \/ EndExtract => Has(g, "state")' = Has(g, "state")
        /\ BeginSave => Has(g, "state")' = "part"
        /\ EndSave => Has(g, "workspace")' = Has(g, "workspace")
        /\ Has(g, "config")' = Has(g, "config")
        /\ \A r \in Kept : r # g => piece'[r] = piece[r]
    <3>1. CASE BeginExtract \/ EndExtract
      <4>1. PICK v : piece' = [piece EXCEPT ![g]["workspace"] = v]
        BY <2>2, <3>1
      <4>2. Has(g, "state")' = Has(g, "state") /\ Has(g, "config")' = Has(g, "config")
        BY <1>1, <2>3, <4>1 DEF Typed, Has
      <4>3. \A r \in Kept : r # g => piece'[r] = piece[r]
        BY <1>1, <4>1 DEF Typed
      <4>4. ~BeginSave /\ ~EndSave
        BY <3>1 DEF BeginExtract, EndExtract, BeginSave, EndSave, Write1, Stands
      <4> QED BY <4>2, <4>3, <4>4
    <3>2. CASE BeginSave \/ EndSave
      <4>1. PICK v : piece' = [piece EXCEPT ![g]["state"] = v] /\ (BeginSave => v = "part")
        <5>1. ~(BeginSave /\ EndSave)
          BY DEF BeginSave, EndSave, Write1, Stands
        <5> QED BY <2>2, <3>2, <5>1
      <4>2. /\ Has(g, "state")' = v /\ Has(g, "workspace")' = Has(g, "workspace")
            /\ Has(g, "config")' = Has(g, "config")
        BY <1>1, <2>3, <4>1 DEF Typed, Has
      <4>3. \A r \in Kept : r # g => piece'[r] = piece[r]
        BY <1>1, <4>1 DEF Typed
      <4>4. ~BeginExtract /\ ~EndExtract
        BY <3>2 DEF BeginExtract, EndExtract, BeginSave, EndSave, Write1, Stands
      <4> QED BY <4>1, <4>2, <4>3, <4>4
    <3> QED BY <1>6, <3>1, <3>2
  <2>5. \A r \in Kept : Exists(r) => Exists(r)'
    BY <1>2, <1>6 DEF BeginExtract, EndExtract, BeginSave, EndSave, Touched, Exists
  <2>6. CASE g \in removed
    BY <2>1, <2>4, <2>5, <2>6, DiskOrder
  <2>7. CASE g \notin removed
    <3>1. Has(g, "state") # "whole" /\ Exists(g) /\ g \notin graded
      BY <1>2, <1>6, <2>7 DEF BeginExtract, EndExtract, BeginSave, EndSave, Write1, IInv, Job, Grading,
         Fetching, Stands, Sound
    <3>2. EndSave => Has(g, "workspace") = "whole"
      BY <1>2, <2>7 DEF EndSave, Write1, IInv, Job, Grading, Stands
    <3>3. Has(g, "state")' = "whole" => Has(g, "workspace")' = "whole"
      BY <1>6, <2>4, <3>1, <3>2
    <3>4. Forward
      BY <2>1, <2>4, <2>5, <3>1 DEF Forward, Has
    <3>5. ASSUME NEW r \in Kept PROVE Sound(r)'
      <4>1. CASE r # g
        BY <2>1, <2>4, <2>5, <4>1 DEF IInv, Sound, Has
      <4>2. CASE r = g
        BY <2>1, <2>4, <2>5, <3>1, <3>3, <4>2 DEF IInv, Sound, Has
      <4> QED BY <4>1, <4>2
    <3> QED BY <2>1, <3>4, <3>5 DEF DiskInv
  <2> QED BY <2>6, <2>7
<1> QED BY <1>3, <1>4, <1>5, <1>6 DEF GradingStep

(***************************************************************************)
(* What a step does to the actors that do not take it.                     *)
(***************************************************************************)
LEMMA StagedKept ==
  ASSUME IInv, Forward, NEW a \in Actors, actor'[a] = actor[a]
  PROVE  Staged(a)'
BY DEF IInv, Forward, Staged, Stands, RunOf

LEMMA TerminalKept ==
  ASSUME IInv, Forward, NEW t \in Terms, actor'[t] = actor[t]
  PROVE  Terminal(t)'
<1>1. actor[t].pc \in Reading => RunOf(t) \in Kept
  BY Distinct, Running DEF Reading, Fetching
<1>2. Terminal(t) /\ removed \subseteq removed'
  BY DEF IInv, Forward
<1>3. ASSUME actor[t].pc \in Reading, RunOf(t) \notin removed'
      PROVE  /\ Has(RunOf(t), "state") = "whole" => Has(RunOf(t), "state")' = "whole"
             /\ Has(RunOf(t), "config") = "whole" => Has(RunOf(t), "config")' = "whole"
  <2>1. RunOf(t)' = RunOf(t)
    BY DEF RunOf
  <2> QED BY <1>1, <1>3, <2>1 DEF Forward, Has
<1> QED BY <1>2, <1>3 DEF Terminal, Stands, RunOf, Reading

LEMMA JobKept ==
  ASSUME IInv, Forward, Unwritten, actor'[Grader] = actor[Grader]
  PROVE  Job'
<1>1. actor[Grader].pc \in Grading => RunOf(Grader) \in Kept
  BY Distinct, Running DEF Grading, Fetching
<1>2. Job /\ removed \subseteq removed' /\ RunOf(Grader)' = RunOf(Grader)
  BY DEF IInv, Forward, RunOf
<1>3. ASSUME actor[Grader].pc \in Grading, RunOf(Grader) \notin removed'
      PROVE  /\ Has(RunOf(Grader), "state")' = Has(RunOf(Grader), "state")
             /\ Has(RunOf(Grader), "workspace")' = Has(RunOf(Grader), "workspace")
             /\ Exists(RunOf(Grader)) => Exists(RunOf(Grader))'
  BY <1>1, <1>2, <1>3 DEF Forward, Unwritten, Has, Exists
<1> QED BY <1>2, <1>3 DEF Job, Stands, RunOf

Others(a) == \A b \in Actors : b # a => actor'[b] = actor[b]

ActorInv == (\A a \in Actors : Staged(a)) /\ Job /\ (\A t \in Terms : Terminal(t))

LEMMA OneMoves ==
  ASSUME IInv, Forward, Unwritten, NEW a \in Actors, Others(a), Staged(a)',
         a = Grader => Job', a \in Terms => Terminal(a)'
  PROVE  ActorInv'
<1>1. ASSUME NEW b \in Actors PROVE Staged(b)'
  BY StagedKept DEF Others
<1>2. Job'
  BY JobKept, Distinct DEF Others
<1>3. ASSUME NEW t \in Terms PROVE Terminal(t)'
  <2>1. t \in Actors
    BY Distinct
  <2> QED BY <2>1, TerminalKept DEF Others
<1> QED BY <1>1, <1>2, <1>3 DEF ActorInv

(***************************************************************************)
(* The actor that takes a step.                                            *)
(***************************************************************************)
LEMMA FetchMoves ==
  ASSUME IInv, NEW a \in Actors, FetchStep(a)
  PROVE  /\ actor[a].pc \in Fetching /\ Others(a)
         /\ actor'[a].run = actor[a].run
         /\ \/ actor'[a].pc = "globals" /\ actor'[a].staging = "empty"
            \/ /\ actor'[a].pc = "prefix" /\ actor'[a].staging = "half"
            \/ /\ actor'[a].pc = "activate" /\ actor'[a].staging \in {"part", "whole"}
               /\ RunOf(a) \notin removed => actor'[a].staging = "whole"
            \/ actor'[a].pc = FetchError(a) /\ actor'[a].failed
            \/ /\ actor'[a].pc \in {Fetched(a), FetchError(a)}
               /\ RunOf(a) \notin removed =>
                     actor'[a].pc = Fetched(a) /\ piece'[RunOf(a)]["config"] = "whole"
<1>1. Typed /\ Staged(a)
  BY DEF IInv
<1>2. CASE OpenStaging(a)
  BY <1>1, <1>2 DEF OpenStaging, Typed, Actor, Others, Stands, Fetching
<1>3. CASE Globals(a)
  BY <1>1, <1>3 DEF Globals, Typed, Actor, Others, Stands, Fetching
<1>4. CASE Prefix(a)
  <2>1. RunOf(a) \notin removed => actor[a].staging = "half"
    BY <1>1, <1>4 DEF Prefix, Staged
  <2> QED BY <1>1, <1>4, <2>1 DEF Prefix, Typed, Actor, Others, Stands, Fetching
<1>5. CASE FetchFails(a)
  BY <1>1, <1>5 DEF FetchFails, Typed, Actor, Others, Fetching
<1>6. CASE Activate(a)
  <2>1. /\ actor[a].pc \in Fetching /\ Others(a) /\ actor'[a].run = actor[a].run
        /\ actor'[a].pc \in {Fetched(a), FetchError(a)}
    BY <1>1, <1>6 DEF Activate, Typed, Actor, Others, Stands, Fetching
  <2>2. CASE RunOf(a) \notin removed
    <3>1. RunOf(a) \in Kept /\ "config" \in Pieces
      BY <2>1, FetchRun DEF Pieces
    <3>2. actor[a].staging = "whole" /\ Has(RunOf(a), "config") \in {"absent", "whole"}
      BY <1>1, <1>6, <2>2, <3>1 DEF Activate, Staged, IInv, Sound
    <3>3. CASE Has(RunOf(a), "config") = "absent"
      <4>1. actor'[a].pc = Fetched(a)
        BY <1>1, <1>6, <3>2, <3>3 DEF Activate, Typed, Actor
      <4>2. piece' = [piece EXCEPT ![RunOf(a)].config = "whole"]
        BY <1>6, <3>2, <3>3 DEF Activate
      <4>3. piece'[RunOf(a)]["config"] = "whole"
        BY <1>1, <3>1, <4>2 DEF Typed
      <4> QED BY <2>1, <4>1, <4>3
    <3>4. CASE Has(RunOf(a), "config") = "whole"
      <4>1. actor'[a].pc = Fetched(a)
        BY <1>1, <1>6, <3>2, <3>4 DEF Activate, Typed, Actor
      <4>2. piece' = piece
        BY <1>6, <3>4 DEF Activate
      <4> QED BY <2>1, <3>4, <4>1, <4>2 DEF Has
    <3> QED BY <3>2, <3>3, <3>4
  <2> QED BY <2>1, <2>2
<1> QED BY <1>2, <1>3, <1>4, <1>5, <1>6 DEF FetchStep

LEMMA ActorsFetch ==
  ASSUME IInv, NEW a \in Actors, FetchStep(a)
  PROVE  ActorInv'
<1>1. Forward /\ Unwritten /\ removed' = removed
  BY DiskFetch DEF FetchStep, OpenStaging, Globals, Prefix, FetchFails, Activate
<1>2. PICK r \in Kept : r = RunOf(a) /\ RunOf(a)' = r
  BY FetchMoves, FetchRun DEF RunOf
<1>3. Staged(a)'
  BY <1>1, <1>2, FetchMoves DEF Staged, Stands, FetchError, Fetched
<1>4. ASSUME a = Grader PROVE Job'
  <2>1. r \notin removed =>
          Exists(r) /\ Has(r, "state") # "whole"
    BY <1>2, <1>4, FetchMoves DEF IInv, Job, Grading, Fetching, Stands
  <2>2. r \notin removed => Exists(r)' /\ Has(r, "state")' # "whole"
    BY <1>1, <2>1 DEF Forward, Unwritten
  <2>3. actor'[a].pc \in Fetching \cup {"download", "failing"}
    BY <1>4, FetchMoves DEF Fetching, Fetched, FetchError
  <2> QED BY <1>1, <1>2, <1>4, <2>2, <2>3 DEF Job, Grading, Fetching, Stands
<1>5. ASSUME a \in Terms PROVE Terminal(a)'
  <2>1. r \notin removed => Has(r, "state") = "whole"
    BY <1>2, <1>5, FetchMoves DEF IInv, Terminal, Reading
  <2>2. r \notin removed => Has(r, "state")' = "whole"
    BY <1>1, <2>1 DEF Forward
  <2>3. Fetched(a) = "copy" /\ FetchError(a) = "refused"
    BY <1>5, Distinct DEF Fetched, FetchError
  <2> QED BY <1>1, <1>2, <2>2, <2>3, FetchMoves DEF Terminal, Stands, Has
<1> QED BY <1>1, <1>3, <1>4, <1>5, FetchMoves, OneMoves

LEMMA ActorsBegin ==
  ASSUME IInv, NEW r \in New, BeginGrade(r)
  PROVE  ActorInv'
<1>1. /\ Forward /\ Unwritten /\ r \in Kept /\ Exists(r)' /\ r \notin removed
      /\ Has(r, "state") # "whole"
  <2>1. Has(r, "state") # "whole"
    BY DiskBegin DEF BeginGrade, IInv, Sound, Pieces
  <2> QED BY <2>1, DiskBegin DEF BeginGrade
<1>2. /\ actor'[Grader].pc = "fetch" /\ actor'[Grader].run = r /\ Others(Grader)
  BY Distinct DEF BeginGrade, IInv, Typed, Idle, Others
<1>3. Staged(Grader)'
  BY <1>1, <1>2 DEF Staged, Stands, RunOf
<1>4. Job'
  <2>1. Has(r, "state")' # "whole" /\ RunOf(Grader)' = r
    BY <1>1, <1>2 DEF Unwritten, BeginGrade, RunOf
  <2> QED BY <1>1, <1>2, <2>1 DEF Job, Stands
<1> QED BY <1>1, <1>2, <1>3, <1>4, Distinct, OneMoves

\* The job's step from one piece to the next.
LEMMA JobMoves ==
  ASSUME IInv, NEW g \in Kept, g = RunOf(Grader), g \notin removed, GradingStep,
         actor'[Grader].pc \in Grading
  PROVE  /\ Exists(g)
         /\ Has(g, "state")' = "whole" <=> actor'[Grader].pc = "saved"
         /\ actor'[Grader].pc \in {"save", "saving"} => Has(g, "workspace")' = "whole"
<1>1. Typed /\ Grader \in Actors /\ "state" \in Pieces /\ "workspace" \in Pieces
  BY Distinct DEF IInv, Pieces
<1>2. CASE BeginExtract
  <2>1. /\ actor'[Grader].pc = "extract" /\ Stands(Grader, "download")
        /\ piece' = [piece EXCEPT ![g]["workspace"] = "part"]
    BY <1>1, <1>2 DEF BeginExtract, Write1, MoveOn, Typed, Actor
  <2>2. Exists(g) /\ Has(g, "state") # "whole"
    BY <2>1 DEF IInv, Job, Grading, Stands
  <2>3. Has(g, "state")' = Has(g, "state")
    BY <1>1, <2>1 DEF Typed, Has
  <2> QED BY <2>1, <2>2, <2>3
<1>3. CASE EndExtract
  <2>1. /\ actor'[Grader].pc = "save" /\ Stands(Grader, "extract")
        /\ piece' = [piece EXCEPT ![g]["workspace"] = "whole"]
    BY <1>1, <1>3 DEF EndExtract, Write1, MoveOn, Typed, Actor
  <2>2. Exists(g) /\ Has(g, "state") # "whole"
    BY <2>1 DEF IInv, Job, Grading, Stands
  <2>3. Has(g, "state")' = Has(g, "state") /\ Has(g, "workspace")' = "whole"
    BY <1>1, <2>1 DEF Typed, Has
  <2> QED BY <2>1, <2>2, <2>3
<1>4. CASE BeginSave
  <2>1. /\ actor'[Grader].pc = "saving" /\ Stands(Grader, "save")
        /\ piece' = [piece EXCEPT ![g]["state"] = "part"]
    BY <1>1, <1>4 DEF BeginSave, Write1, MoveOn, Typed, Actor
  <2>2. Exists(g) /\ Has(g, "workspace") = "whole"
    BY <2>1 DEF IInv, Job, Grading, Stands
  <2>3. Has(g, "workspace")' = Has(g, "workspace") /\ Has(g, "state")' = "part"
    BY <1>1, <2>1 DEF Typed, Has
  <2> QED BY <2>1, <2>2, <2>3
<1>5. CASE EndSave
  <2>1. /\ actor'[Grader].pc = "saved" /\ Stands(Grader, "saving")
        /\ piece' = [piece EXCEPT ![g]["state"] = "whole"]
    BY <1>1, <1>5 DEF EndSave, Write1, MoveOn, Typed, Actor
  <2>2. Exists(g)
    BY <2>1 DEF IInv, Job, Grading, Stands
  <2>3. Has(g, "state")' = "whole"
    BY <1>1, <2>1 DEF Typed, Has
  <2> QED BY <2>1, <2>2, <2>3
<1>6. CASE Upload \/ JobFails \/ CleanUp
  <2>1. actor'[Grader].pc \in {"prune", "failing", "cleaning"}
    BY <1>1, <1>6 DEF Upload, JobFails, CleanUp, MoveOn, Typed, Actor
  <2> QED BY <2>1 DEF Grading, Fetching
<1> QED BY <1>2, <1>3, <1>4, <1>5, <1>6 DEF GradingStep

LEMMA ActorsJob == ASSUME IInv, GradingStep PROVE ActorInv'
<1>1. Typed /\ Forward /\ Grader \in Actors
  BY DiskJob, Distinct DEF IInv
<1>2. PICK g \in Kept : g = RunOf(Grader)
  <2>1. actor[Grader].pc \notin {"idle", "boot"}
    BY DEF GradingStep, BeginExtract, EndExtract, BeginSave, EndSave, Write1, Upload, JobFails, CleanUp, Stands
  <2> QED BY <1>1, <2>1, Running
<1>3. PICK to \in {"extract", "save", "saving", "saved", "prune", "failing", "cleaning"} :
         MoveOn(Grader, to)
  BY DEF GradingStep, BeginExtract, EndExtract, BeginSave, EndSave, Write1, Upload, JobFails, CleanUp
<1>4. /\ actor'[Grader].pc = to /\ actor'[Grader].run = g /\ RunOf(Grader)' = g /\ Others(Grader)
  BY <1>1, <1>2, <1>3 DEF MoveOn, Typed, Actor, Others, RunOf
<1>5. Staged(Grader)'
  BY <1>4 DEF Staged, Stands
<1>6. ASSUME NEW a \in Actors PROVE Staged(a)'
  BY <1>1, <1>4, <1>5, StagedKept DEF Others
<1>7. Job'
  <2>1. ASSUME actor'[Grader].pc \in Grading, g \notin removed'
        PROVE  /\ Exists(g)'
               /\ Has(g, "state")' = "whole" <=> actor'[Grader].pc = "saved"
               /\ actor'[Grader].pc \in {"save", "saving"} => Has(g, "workspace")' = "whole"
    BY <1>1, <1>2, <2>1, JobMoves DEF Forward
  <2>2. actor'[Grader].pc \in Grading /\ g \notin removed' =>
          /\ Exists(g)'
          /\ Has(g, "state")' = "whole" <=> actor'[Grader].pc = "saved"
          /\ actor'[Grader].pc \in {"save", "saving"} => Has(g, "workspace")' = "whole"
    BY <2>1
  <2> QED BY <1>4, <2>2 DEF Job, Stands, Exists, Has
<1>8. ASSUME NEW t \in Terms PROVE Terminal(t)'
  BY <1>1, <1>4, Distinct, TerminalKept DEF Others
<1> QED BY <1>6, <1>7, <1>8 DEF ActorInv

LEMMA ActorsRemoval == ASSUME IInv, RemovalStep PROVE ActorInv'
<1>1. Typed /\ Forward /\ Unwritten /\ Grader \in Actors
  BY DiskRemoval, Distinct DEF IInv
<1>2. Others(Grader)
  BY <1>1 DEF Typed, RemovalStep, RemoveOldest, RemovePiece, EndRemove, EndPrune, Others
<1>3. CASE actor'[Grader] = actor[Grader]
  BY <1>1, <1>2, <1>3, Distinct, StagedKept, JobKept, OneMoves
<1>4. CASE actor'[Grader] = Idle
  <2>1. actor'[Grader].pc = "idle"
    BY <1>4 DEF Idle
  <2>2. Staged(Grader)' /\ Job'
    BY <2>1 DEF Staged, Stands, Job, Grading, Fetching
  <2> QED BY <1>1, <1>2, <2>2, Distinct, OneMoves
<1> QED BY <1>1, <1>3, <1>4 DEF RemovalStep, RemoveOldest, RemovePiece, EndRemove, EndPrune, Typed

LEMMA ActorsTerm == ASSUME IInv, NEW t \in Terms, TermStep(t) PROVE ActorInv'
<1>1. Typed /\ Forward /\ Unwritten /\ t \in Actors /\ Staged(t) /\ Terminal(t)
  BY DiskTerm, Distinct DEF IInv
<1>2. UNCHANGED <<piece, removed, graded>>
  BY DEF TermStep, RemoveStaging, StatWorkspace, StatConfig, CopyTree, CopyLibraries, Leave, Ask, storeFiles
<1>3. Others(t)
  BY <1>1 DEF TermStep, RemoveStaging, StatWorkspace, StatConfig, CopyTree, CopyLibraries, Leave, Ask,
     MoveOn, Others, Typed
<1>4. SUFFICES Staged(t)' /\ Terminal(t)'
  BY <1>1, <1>3, Distinct, OneMoves
<1>5. CASE RemoveStaging(t)
  <2>1. /\ actor'[t].pc = actor[t].pc /\ actor'[t].run = actor[t].run /\ actor'[t].staging = "none"
        /\ RunOf(t) \in removed
    BY <1>1, <1>5 DEF RemoveStaging, Typed, Actor, IInv, Doomed
  <2> QED BY <1>1, <1>2, <2>1 DEF Staged, Terminal, Stands, RunOf
<1>6. CASE Leave(t)
  <2>1. actor'[t].pc = "idle"
    BY <1>1, <1>6 DEF Leave, Typed, Idle
  <2> QED BY <2>1 DEF Staged, Terminal, Stands, Reading, Fetching
<1>7. ASSUME NEW r \in Kept, Ask(t, r) PROVE Staged(t)' /\ Terminal(t)'
  <2>1. /\ actor'[t].pc = (IF Has(r, "state") = "whole" THEN "stat" ELSE "refused")
        /\ actor'[t].run = r /\ actor'[t].due = (r \in graded)
    BY <1>1, <1>7 DEF Ask, Typed, Idle
  <2>2. r \in graded => Has(r, "state") = "whole" \/ r \in removed
    BY DEF IInv, Sound
  <2>3. Staged(t)'
    BY <2>1 DEF Staged, Stands, RunOf
  <2>4. Terminal(t)'
    BY <1>2, <2>1, <2>2 DEF Terminal, Stands, RunOf, Reading, Fetching, Has
  <2> QED BY <2>3, <2>4
<1>8. CASE StatWorkspace(t) \/ StatConfig(t) \/ CopyTree(t) \/ CopyLibraries(t)
  <2>1. /\ actor[t].pc \in {"stat", "config", "copy", "libraries"}
        /\ actor'[t].run = actor[t].run
        /\ actor'[t].pc \in {"refused", "config", "fetch", "copy", "libraries", "shell"}
    BY <1>1, <1>8 DEF StatWorkspace, StatConfig, CopyTree, CopyLibraries, MoveOn, Typed, Actor, Stands
  <2>2. PICK r \in Kept : r = RunOf(t) /\ RunOf(t)' = r
    BY <1>1, <2>1, Running DEF RunOf
  <2>3. Staged(t)'
    BY <2>1, <2>2 DEF Staged, Stands
  <2>4. r \notin removed =>
          /\ Has(r, "state") = "whole" /\ Has(r, "workspace") = "whole"
          /\ Has(r, "config") \in {"absent", "whole"}
    <3>1. r \notin removed => Has(r, "state") = "whole"
      BY <1>1, <2>1, <2>2 DEF Terminal, Reading
    <3> QED BY <3>1 DEF IInv, Sound
  <2>5. ASSUME r \in removed PROVE Terminal(t)'
    BY <1>2, <2>2, <2>5 DEF Terminal
  <2>6. ASSUME r \notin removed PROVE Terminal(t)'
    <3>1. CASE StatWorkspace(t)
      <4>1. actor'[t].pc = "config"
        BY <1>1, <2>2, <2>4, <2>6, <3>1 DEF StatWorkspace, MoveOn, Typed, Actor
      <4> QED BY <1>2, <2>2, <2>4, <2>6, <4>1 DEF Terminal, Stands, Has
    <3>2. CASE StatConfig(t)
      <4>1. actor'[t].pc = (IF Has(r, "config") = "absent" THEN "fetch" ELSE "copy")
        BY <1>1, <2>2, <3>2 DEF StatConfig, MoveOn, Typed, Actor
      <4> QED BY <1>2, <2>2, <2>4, <2>6, <4>1 DEF Terminal, Stands, Has
    <3>3. CASE CopyTree(t)
      <4>1. actor'[t].pc = "libraries" /\ actor'[t].files = "whole"
        BY <1>1, <2>2, <2>4, <2>6, <3>3 DEF CopyTree, MoveOn, Typed, Actor
      <4>2. Has(r, "config") = "whole"
        BY <1>1, <2>2, <2>6, <3>3 DEF CopyTree, Terminal, Stands
      <4> QED BY <1>2, <2>2, <2>4, <2>6, <4>1, <4>2 DEF Terminal, Stands, Has
    <3>4. CASE CopyLibraries(t)
      <4>1. Has(r, "config") = "whole" /\ actor[t].files = "whole"
        BY <1>1, <2>2, <2>6, <3>4 DEF CopyLibraries, Terminal, Stands
      <4>2. actor'[t].pc = "shell" /\ actor'[t].files = "whole" /\ actor'[t].libs = "whole"
        BY <1>1, <2>2, <3>4, <4>1 DEF CopyLibraries, Typed, Actor
      <4> QED BY <1>2, <2>2, <2>4, <2>6, <4>1, <4>2 DEF Terminal, Stands, Has
    <3> QED BY <1>8, <3>1, <3>2, <3>3, <3>4
  <2> QED BY <2>3, <2>5, <2>6
<1> QED BY <1>5, <1>6, <1>7, <1>8 DEF TermStep

LEMMA ActorsReboot == ASSUME IInv, Reboot PROVE ActorInv'
<1>1. \A a \in Actors : actor'[a].pc \in {"idle", "boot"}
  BY DEF Reboot, Idle
<1>2. ASSUME NEW a \in Actors PROVE Staged(a)'
  BY <1>1 DEF Staged, Stands
<1>3. Job'
  BY <1>1, Distinct DEF Job, Grading, Fetching
<1>4. ASSUME NEW t \in Terms PROVE Terminal(t)'
  BY <1>1, Distinct DEF Terminal, Stands, Reading, Fetching
<1> QED BY <1>2, <1>3, <1>4 DEF ActorInv

(***************************************************************************)
(* The specification.                                                      *)
(***************************************************************************)
LEMMA InvNext == IInv /\ [RunStoreNext]_runStoreVars => IInv'
<1> SUFFICES ASSUME IInv, [RunStoreNext]_runStoreVars PROVE IInv'
  OBVIOUS
<1>1. ASSUME Typed', DiskInv', ActorInv' PROVE IInv'
  BY <1>1 DEF IInv, DiskInv, ActorInv, Doomed
<1>2. ASSUME NEW a \in Actors, FetchStep(a) PROVE IInv'
  BY <1>1, <1>2, TypedFetch, DiskFetch, ActorsFetch
<1>3. ASSUME NEW r \in New, BeginGrade(r) PROVE IInv'
  BY <1>1, <1>3, TypedBegin, DiskBegin, ActorsBegin
<1>4. CASE GradingStep
  BY <1>1, <1>4, TypedJob, DiskJob, ActorsJob
<1>5. CASE RemovalStep
  BY <1>1, <1>5, TypedRemoval, DiskRemoval, ActorsRemoval
<1>6. ASSUME NEW t \in Terms, TermStep(t) PROVE IInv'
  BY <1>1, <1>6, TypedTerm, DiskTerm, ActorsTerm
<1>7. CASE Reboot
  BY <1>1, <1>7, TypedReboot, DiskReboot, ActorsReboot
<1>8. CASE UNCHANGED runStoreVars
  BY <1>8 DEF runStoreVars, storeFiles, IInv, Typed, Sound, Staged, Job, Terminal, Stands, Has, Exists, RunOf, Doomed
<1> QED BY <1>2, <1>3, <1>4, <1>5, <1>6, <1>7, <1>8 DEF RunStoreNext, GradingStep, RemovalStep, TermStep

LEMMA Invariant == RunStoreSpec => []IInv
BY InvInit, InvNext, PTL DEF RunStoreSpec

\* buildTerminalScratch (terminal.go) copies a run's workspace and config beside
\* graders, prunes, other terminals that fetch the same config (setup.go's staging
\* and rename) and crashes: a shell that opens has all of both, unless a RemoveAll
\* has begun with the run.
THEOREM Shells == RunStoreSpec => []ShellWhole
<1>1. IInv => ShellWhole
  BY DEF IInv, Terminal, ShellWhole, Stands, Reading
<1> QED BY <1>1, Invariant, PTL

\* submissionScratch (terminal.go) refuses a terminal of a run that was graded
\* before it asked only when fetchAssignmentConfig returned an error or a RemoveAll
\* has begun with the run.
THEOREM Refusals == RunStoreSpec => []RefusedWithReason
<1>1. IInv => RefusedWithReason
  BY DEF IInv, Terminal, RefusedWithReason
<1> QED BY <1>1, Invariant, PTL

\* The same where the jobs of one server are seen beside the volume: either part moves
\* as it does alone, so the theorems of GradeJobs hold as well.
THEOREM BehindService == ServiceSpec => Spec /\ [](ShellWhole /\ RefusedWithReason)
<1>1. ServiceInit => Init /\ RunStoreInit
  BY DEF ServiceInit
<1>2. [ServiceNext]_<<vars, runStoreVars, view>> => [Next]_vars /\ [RunStoreNext]_runStoreVars
  BY DEF ServiceNext, JobsMove, DiskMoves
<1>3. ServiceSpec => Spec /\ RunStoreSpec
  BY <1>1, <1>2, PTL DEF ServiceSpec, Spec, RunStoreSpec
<1> QED BY <1>3, Shells, Refusals, PTL
=============================================================================
