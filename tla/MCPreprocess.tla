---------------------------- MODULE MCPreprocess ----------------------------
(***************************************************************************)
(* The preprocessing for TLC: the merger (Merger), the slicer (Slicer),    *)
(* the driver that runs the tools (Pipeline), and the way of a preimage    *)
(* from the miner to a checked solution (Solutions).  A behaviour is one   *)
(* of one part; the variables of the other parts keep a fixed value.       *)
(***************************************************************************)
EXTENDS Merger

CONSTANTS
    a, b,                                           \* preimages
    W, SlicerInputs, RandomTrials, MaxIterations,   \* of Slicer
    PreimageFile, Slots, MaxTime, MaxRuns, MaxCrashes,      \* of Pipeline
    word_bits, DIGITS, BASE, Digests, Jobs         \* of Solutions

VARIABLES
    part,                                           \* "merger", "slicer", "pipeline" or "solutions"
    input, active, reject, equations, M, rows, E, j, scan, trials, best_weight, best_equation, it,
    slice, done, output_size, spc,
    now, preimages, dict, sorted, hash, group, stage, todo, inputs, runs, crashes, hurt,
    bits, step, mined, sha, entries, solutions, traced

slicerVars == <<input, active, reject, equations, M, rows, E, j, scan, trials, best_weight,
                best_equation, it, slice, done, output_size, spc>>
pipelineVars == <<now, preimages, dict, sorted, hash, group, stage, todo, inputs, runs, crashes, hurt>>
solutionVars == <<bits, step, mined, sha, entries, solutions, traced>>
allVars == <<part, vars, slicerVars, pipelineVars, solutionVars>>

Slicing == INSTANCE Slicer WITH Inputs <- SlicerInputs, T <- rows, pc <- spc
Driver == INSTANCE Pipeline WITH Preimage <- PreimageFile
Trace == INSTANCE Solutions WITH W <- word_bits, Hash <- Digests, stage <- step, dict <- entries

ASSUME MCPreprocessAssumption ==
    Slicing!SlicerAssumption /\ Driver!PipelineAssumption /\ Trace!SolutionsAssumption

(***************************************************************************)
(* Inputs                                                                  *)
(***************************************************************************)
\* From one to five dictionaries, the more of them the shorter.
MCEntry(h, p) == [hash |-> h, preimage |-> p]
MCDict(S, n) == {d \in SeqOf(S, n) : Sorted(d)}

MCInputs ==
    [{0} -> MCDict({MCEntry(0, a), MCEntry(1, a), MCEntry(1, b), MCEntry(2, a), MCEntry(3, b)}, 4)]
    \cup [0 .. 1 -> MCDict({MCEntry(0, b), MCEntry(1, a), MCEntry(1, b), MCEntry(3, b)}, 3)]
    \cup [0 .. 2 -> MCDict({MCEntry(1, a), MCEntry(1, b), MCEntry(2, a)}, 2)]
    \cup [0 .. 4 -> MCDict({MCEntry(1, a), MCEntry(2, a), MCEntry(3, b)}, 1)]

\* Every list of up to three distinct words, in one order, and one of four whose rank is two.
MCLists ==
    {SetToSeq(S) : S \in {S \in SUBSET SUBSET (0 .. W - 1) : Cardinality(S) \in 1 .. 3}}
    \cup {<<{0}, {}, {1}, {0, 1}>>}

MCSlicerInputs == [hashes : MCLists, l : {1, 2}]

MCDigests ==
    {<<{}, {}, {}, {}>>, <<{1}, {}, {}, {}>>, <<{2}, {}, {}, {}>>, <<{0, 1, 2}, {0, 2}, {}, {}>>,
     <<{0}, {0, 2}, {0}, {}>>, <<{}, {}, {2}, {}>>, <<{}, {}, {}, {0}>>}
MCJobs == <<<<"foo", 0>>, <<"foo", 4>>, <<"bar", 0>>, <<"foobar", 4>>>>

(***************************************************************************)
(* The specification                                                       *)
(***************************************************************************)
NoMerger == files = [f \in {0} |-> <<>>] /\ Init
NoSlicer ==
    /\ input = 0 /\ active = 0 /\ reject = 0 /\ equations = 0 /\ M = 0 /\ rows = 0 /\ E = 0 /\ j = 0
    /\ scan = 0 /\ trials = 0 /\ best_weight = 0 /\ best_equation = 0 /\ it = 0 /\ slice = 0 /\ done = 0
    /\ output_size = 0 /\ spc = ""
NoPipeline ==
    /\ now = 0 /\ preimages = 0 /\ dict = 0 /\ sorted = 0 /\ hash = 0 /\ group = 0 /\ stage = ""
    /\ todo = 0 /\ inputs = 0 /\ runs = 0 /\ crashes = 0 /\ hurt = 0
NoSolutions ==
    /\ bits = 0 /\ step = 0 /\ mined = 0 /\ sha = 0 /\ entries = 0 /\ solutions = 0 /\ traced = 0

MCInit ==
    \/ part = "merger" /\ Init /\ NoSlicer /\ NoPipeline /\ NoSolutions
    \/ part = "slicer" /\ NoMerger /\ Slicing!Init /\ NoPipeline /\ NoSolutions
    \/ part = "pipeline" /\ NoMerger /\ NoSlicer /\ Driver!Init /\ NoSolutions
    \/ part = "solutions" /\ NoMerger /\ NoSlicer /\ NoPipeline /\ Trace!Init

MergerStep == part = "merger" /\ Step /\ UNCHANGED <<part, slicerVars, pipelineVars, solutionVars>>
SlicerStep == part = "slicer" /\ Slicing!Slice /\ UNCHANGED <<part, vars, pipelineVars, solutionVars>>
PipelineStep == part = "pipeline" /\ Driver!Next /\ UNCHANGED <<part, vars, slicerVars, solutionVars>>
SolutionStep == part = "solutions" /\ Trace!Next /\ UNCHANGED <<part, vars, slicerVars, pipelineVars>>

MCNext == MergerStep \/ SlicerStep \/ PipelineStep \/ SolutionStep

\* As in FairSpec of Merger and in Spec of Slicer.
MCSpec == MCInit /\ [][MCNext]_allVars /\ WF_allVars(MergerStep) /\ WF_allVars(SlicerStep)

-----------------------------------------------------------------------------
\* The merger ends (Merger).
MergerEnds == part = "merger" ~> pc = "done"

\* Every slice can be made, passes the checker and has room in the output (Slicer).
SlicesSound == part = "slicer" => Slicing!SlicesSound

\* Slicing ends: every slice takes a vector (Slicer).
SlicingEnds == part = "slicer" ~> spc = "written"

\* What a tool does not crash on, and nobody changes under it, is right (Pipeline).
DamageIsLocal == part = "pipeline" => Driver!DamageIsLocal

\* The search on partial hashes within slots misses nothing and invents nothing (Solutions).
SolutionsTraced == part = "solutions" => Trace!SolutionsTraced
=============================================================================
