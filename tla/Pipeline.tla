------------------------------ MODULE Pipeline ------------------------------
(***************************************************************************)
(* ate::Pipeline (include/ate/pipeline.hpp) over a pool (TaskExecutor): a  *)
(* builder that nests each stage around the chain built before it, and a   *)
(* run() that submits the whole chain as one task.                         *)
(*                                                                         *)
(* A value is the sequence of what made it: the pipeline whose initial     *)
(* value it was, then the stages applied.  Every stage is passed to then() *)
(* once.  then() and run() move their members out and do not forbid to be  *)
(* called again: a moved-from std::move_only_function is empty, a          *)
(* moved-from T is unchanged (an int) or not.  An operator named ...Mutant *)
(* is a wrong variant of a later definition and not part of the model.     *)
(***************************************************************************)
EXTENDS Naturals, Sequences

CONSTANTS
  Pipes,   \* Pipeline objects
  Stages,  \* the functions passed to then()
  Tasks, NumThreads,
  NoPipe   \* "the task is no run()"

ASSUME ThreadsAssumption == NumThreads \in Nat \ {0}

ASSUME PipesAssumption == NoPipe \notin Pipes /\ Pipes \cap Stages = {}

VARIABLES
  accepting, queue, status, retired,  \* the pool, see TaskExecutor
  initial_,  \* [Pipes -> Value]
  chain_,    \* [Pipes -> Seq(Stages)]: outermost last; <<>> is nullptr
  source,    \* [Pipes -> Value]: the value that the innermost stage captured
  built,     \* history: [Pipes -> Value], what was asked for until now
  job,       \* [Tasks -> Job]: the callable of a run()
  threw      \* tasks one of whose stages threw

poolVars == <<accepting, queue, status, retired>>
pipeVars == <<initial_, chain_, source, built>>
vars == <<poolVars, pipeVars, job, threw>>

Pool == INSTANCE TaskExecutor

Value == Seq(Pipes \cup Stages)

DefaultValue == <<>>  \* T{}

MovedFrom(value) == {value, DefaultValue}

Job == [pipe : Pipes \cup {NoPipe}, value : Value, rest : Seq(Stages),
        expected : Value]

NoJob ==
  [pipe |-> NoPipe, value |-> DefaultValue, rest |-> <<>>,
   expected |-> DefaultValue]

Init ==
  /\ Pool!Init
  /\ initial_ = [p \in Pipes |-> DefaultValue]
  /\ chain_ = [p \in Pipes |-> <<>>]
  /\ source = [p \in Pipes |-> DefaultValue]
  /\ built = [p \in Pipes |-> DefaultValue]
  /\ job = [t \in Tasks |-> NoJob]
  /\ threw = {}

-----------------------------------------------------------------------------
(* The builder.                                                            *)

Unused(p) == built[p] = <<>>

UnusedStage(s) == \A p \in Pipes : \A i \in DOMAIN built[p] : built[p][i] # s

Create(p) ==
  /\ Unused(p)
  /\ initial_' = [initial_ EXCEPT ![p] = <<p>>]
  /\ built' = [built EXCEPT ![p] = <<p>>]
  /\ UNCHANGED <<poolVars, chain_, source, job, threw>>

(* Wrong: the chain is copied.                                             *)
ThenCopyMutant(p, s, q) ==
  /\ ~Unused(p) /\ Unused(q) /\ UnusedStage(s)
  /\ chain_' = [chain_ EXCEPT ![q] = Append(chain_[p], s)]
  /\ source' = [source EXCEPT ![q] =
                  IF chain_[p] = <<>> THEN initial_[p] ELSE source[p]]
  /\ \E v \in MovedFrom(initial_[p]) : initial_' = [initial_ EXCEPT ![p] = v]
  /\ built' = [built EXCEPT ![q] = Append(built[p], s)]
  /\ UNCHANGED <<poolVars, job, threw>>

(* p.then(s) returns q.  The innermost stage of a chain uses the captured  *)
(* initial value, the others what the chain before them returns.           *)
Then(p, s, q) ==
  /\ ~Unused(p) /\ Unused(q) /\ UnusedStage(s)
  /\ chain_' = [chain_ EXCEPT ![p] = <<>>, ![q] = Append(chain_[p], s)]
  /\ source' = [source EXCEPT ![q] =
                  IF chain_[p] = <<>> THEN initial_[p] ELSE source[p]]
  /\ \E v \in MovedFrom(initial_[p]) : initial_' = [initial_ EXCEPT ![p] = v]
  /\ built' = [built EXCEPT ![q] = Append(built[p], s)]
  /\ UNCHANGED <<poolVars, job, threw>>

(* What run() submits: the chain, or a callable that returns the value.    *)
Submission(p) ==
  [pipe |-> p, rest |-> chain_[p], expected |-> built[p],
   value |-> IF chain_[p] = <<>> THEN initial_[p] ELSE source[p]]

(* Wrong: the chain is copied.                                             *)
MoveOutMutant(p) == UNCHANGED pipeVars

MoveOut(p) ==
  /\ IF chain_[p] # <<>> THEN /\ chain_' = [chain_ EXCEPT ![p] = <<>>]
                              /\ UNCHANGED initial_
     ELSE /\ \E v \in MovedFrom(initial_[p]) :
               initial_' = [initial_ EXCEPT ![p] = v]
          /\ UNCHANGED chain_
  /\ UNCHANGED <<source, built>>

RunPipeline(p, t) ==
  /\ ~Unused(p)
  /\ Pool!Accept(t)
  /\ job' = [job EXCEPT ![t] = Submission(p)]
  /\ MoveOut(p)
  /\ UNCHANGED threw

(* submit() throws; chain or value are gone with the argument.             *)
RunThrows(p, t) ==
  /\ ~Unused(p) /\ ~retired
  /\ Pool!Refuse(t)
  /\ MoveOut(p)
  /\ UNCHANGED <<job, threw>>

-----------------------------------------------------------------------------
(* The worker: the outermost stage calls the chain before it first, so the *)
(* stages run from the innermost to the outermost, one after the other.    *)

TakeNext == Pool!Start /\ UNCHANGED <<pipeVars, job, threw>>

StageReturns(t) ==
  /\ status[t] = "running" /\ job[t].rest # <<>>
  /\ job' = [job EXCEPT ![t].value = Append(@, Head(job[t].rest)),
                        ![t].rest = Tail(@)]
  /\ UNCHANGED <<poolVars, pipeVars, threw>>

StageThrows(t) ==
  /\ Pool!Settle(t) /\ job[t].rest # <<>>
  /\ threw' = threw \cup {t}
  /\ UNCHANGED <<pipeVars, job>>

ChainReturns(t) ==
  /\ Pool!Settle(t) /\ job[t].rest = <<>>
  /\ UNCHANGED <<pipeVars, job, threw>>

-----------------------------------------------------------------------------

PoolCloses ==
  (Pool!Close \/ Pool!Retire) /\ UNCHANGED <<pipeVars, job, threw>>

Terminated == retired /\ UNCHANGED vars

Next ==
  \/ \E p \in Pipes :
       \/ Create(p)
       \/ \E s \in Stages, q \in Pipes : Then(p, s, q)
       \/ \E t \in Tasks : RunPipeline(p, t) \/ RunThrows(p, t)
  \/ \E t \in Tasks : StageReturns(t) \/ StageThrows(t) \/ ChainReturns(t)
  \/ TakeNext \/ PoolCloses \/ Terminated

SafeSpec == Init /\ [][Next]_vars

-----------------------------------------------------------------------------
(* Properties                                                              *)

(* Every variable keeps its type; a job belongs to a submitted task, and a *)
(* stage waits in one place only.                                          *)
TypeOK ==
  /\ Pool!TypeOK
  /\ initial_ \in [Pipes -> Value] /\ source \in [Pipes -> Value]
  /\ chain_ \in [Pipes -> Seq(Stages)] /\ built \in [Pipes -> Value]
  /\ job \in [Tasks -> Job] /\ threw \subseteq Tasks
  /\ \A t \in Tasks : status[t] \in {"new", "refused"} <=> job[t] = NoJob
  /\ \A p, q \in Pipes : p # q =>
       \A i \in DOMAIN chain_[p], j \in DOMAIN chain_[q] :
         chain_[p][i] # chain_[q][j]

Settled(t) == status[t] = "settled"

(* A stage function is called by one run() at most and once in it, however *)
(* often then() and run() are called on objects that were moved from.      *)
NoStageRunsTwice ==
  \A t, u \in Tasks : \A i \in DOMAIN job[t].value, j \in DOMAIN job[u].value :
    job[t].value[i] = job[u].value[j] /\ job[t].value[i] \in Stages
      => t = u /\ i = j

(* A run() that still had its initial value applies to it the stages in    *)
(* the order of the then() calls, and none behind one that threw.          *)
ResultAsBuilt ==
  \A t \in Tasks :
    LET done == job[t].value
        expected == job[t].expected
    IN  Settled(t) /\ done # <<>> /\ done[1] = expected[1] =>
          /\ done = SubSeq(expected, 1, Len(done))
          /\ t \in threw <=> done # expected

(* The runs apply the stages as built, each by one run only.               *)
RunsApplyStages == NoStageRunsTwice /\ ResultAsBuilt

=============================================================================
