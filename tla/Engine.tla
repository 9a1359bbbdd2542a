------------------------------- MODULE Engine -------------------------------
(***************************************************************************)
(* What a holder of the grading slot makes the engine do: grade the        *)
(* submissions of a job, or compare them (runGradingPipeline and           *)
(* runAnalysis; a job does one after the other, POST /sandbox/analyze only *)
(* the second).  They share no state, so a behaviour here is one of them.  *)
(***************************************************************************)
EXTENDS GradePipeline, Similarity

NoGrading ==
    /\ program = [i \in Subs |-> <<>>] /\ libs = "unset" /\ kind = "none" /\ cancelled = FALSE
    /\ phase = "off" /\ next = 1 /\ worker = [w \in Workers |-> Idle]
    /\ cache = [files |-> FALSE, dir |-> FALSE]
    /\ compiled = [i \in Subs |-> Unbuilt] /\ compiledCount = 0
    /\ hits = [i \in Subs |-> FALSE] /\ results = [i \in Subs |-> "none"]
    /\ tests = [i \in Subs |-> "none"] /\ executedCount = 0 /\ bar = 0

NoAnalysis ==
    /\ prints = <<>> /\ unread = {} /\ solution = <<>> /\ held = <<>> /\ heldCount = <<>>
    /\ analysis = "off" /\ todo = {} /\ task = NoTask /\ markedA = {} /\ markedB = {}
    /\ found = {} /\ tiles = {} /\ pairMatched = <<>> /\ covered = <<>>
    /\ flagged = <<>> /\ links = {}

EngineInit == (Init /\ NoAnalysis) \/ (NoGrading /\ AnalysisInit)

Grading == Next /\ UNCHANGED analysisVars
Analysis == AnalysisNext /\ UNCHANGED vars
EngineNext == Grading \/ Analysis

EngineSpec == EngineInit /\ [][EngineNext]_<<vars, analysisVars>>

\* As in GradePipeline: goroutines run, gcc and the programs are bounded in time.
EngineFairSpec ==
    /\ EngineSpec
    /\ \A w \in Workers : WF_vars((CompileStep(w) \/ ExecuteStep(w)) /\ UNCHANGED analysisVars)
    /\ WF_vars((Assemble \/ Finish) /\ UNCHANGED analysisVars)
=============================================================================
