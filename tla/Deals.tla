-------------------------------- MODULE Deals --------------------------------
(***************************************************************************)
(* Pipelines, their stages and the deals on them: PipelineService and      *)
(* DealService (crm), the CREATE_DEAL node of flows, and the board of the  *)
(* deals page, from which deals are dragged; a list of stages to reorder   *)
(* is as old as the board it was taken from.                               *)
(*                                                                         *)
(* A pipeline is deleted with its stages and deals, by cascade.  A handler *)
(* reads and then writes; handlers interleave, and the board shows what it *)
(* fetched last.  The activities that handlers add are read by no one but  *)
(* the timeline and are left out.                                          *)
(***************************************************************************)
EXTENDS Integers, Sequences, FiniteSets
LOCAL INSTANCE Functions

CONSTANTS User,       \* requests and flow runs handled at a time
          Initial,    \* stages a new pipeline starts with
          MaxPipes, MaxStages, MaxDeals   \* bounds: rows created

ASSUME DealsAssumption == Initial \in Nat \ {0}

VARIABLES
    pipes,     \* pipelines created so far: TRUE until it is removed
    stages,    \* Stage rows created so far: [pipe, order]
    deals,     \* Deal rows created so far: [pipe, stage, open]
    board,     \* the board a user sees: its pipeline and its stages
    ask        \* each request

dealVars == <<pipes, stages, deals, board, ask>>

Live == {p \in DOMAIN pipes : pipes[p]}
Of(p) == {i \in DOMAIN stages : stages[i].pipe = p}
Orders(p) == {stages[i].order : i \in Of(p)}
Top(p) == CHOOSE n \in Orders(p) : \A m \in Orders(p) : m <= n

DealsInit ==
    /\ pipes = <<>> /\ stages = <<>> /\ deals = <<>>
    /\ board = [pipe |-> 0, stages |-> {}]
    /\ ask = [u \in User |-> <<>>]

Asking(u, s) == ask[u] # <<>> /\ ask[u].step = s
Served(u)    == ask' = [ask EXCEPT ![u] = <<>>]

-----------------------------------------------------------------------------
(* Pipelines and stages. *)

\* create: the pipeline and its stages, numbered from 0, in one insert.
CreatePipeline ==
    /\ Len(pipes) < MaxPipes
    /\ pipes' = Append(pipes, TRUE)
    /\ stages' = stages \o [i \in 1 .. Initial |-> [pipe |-> Len(pipes) + 1, order |-> i - 1]]
    /\ UNCHANGED <<deals, board, ask>>

RemovePipeline(p) ==
    /\ pipes' = [pipes EXCEPT ![p] = FALSE]
    /\ UNCHANGED <<stages, deals, board, ask>>

\* addStage: the highest order, then the insert with the next one.
ReadTop(u, p) ==
    /\ ask[u] = <<>> /\ Len(stages) < MaxStages
    /\ ask' = [ask EXCEPT ![u] = [step |-> "stage", pipe |-> p, order |-> Top(p) + 1]]
    /\ UNCHANGED <<pipes, stages, deals, board>>

InsertStage(u) ==
    LET p == ask[u].pipe
    IN  /\ Asking(u, "stage")
        /\ IF pipes[p] /\ Len(stages) < MaxStages
           THEN stages' = Append(stages, [pipe |-> p, order |-> ask[u].order])
           ELSE UNCHANGED stages
        /\ Served(u)
        /\ UNCHANGED <<pipes, deals, board>>

\* reorderStages: the stages of the list are numbered from 0 in one
\* transaction; a stage the user had not seen keeps its number.
ReorderStages(perm) ==
    /\ pipes[board.pipe]
    /\ stages' = [i \in DOMAIN stages |->
                     IF i \in board.stages THEN [stages[i] EXCEPT !.order = perm[i] - 1]
                                           ELSE stages[i]]
    /\ UNCHANGED <<pipes, deals, board, ask>>

-----------------------------------------------------------------------------
(* Deals. *)

\* create, CREATE_DEAL: the given stage is looked up and must be one of the
\* pipeline's; without one, the first stage is taken.
FindPlace(u, p, s) ==
    /\ ask[u] = <<>> /\ Len(deals) < MaxDeals
    /\ stages[s].pipe = p
    /\ ask' = [ask EXCEPT ![u] = [step |-> "deal", pipe |-> p, stage |-> s]]
    /\ UNCHANGED <<pipes, stages, deals, board>>

\* The foreign keys refuse the row when the pipeline has gone.
InsertDeal(u) ==
    /\ Asking(u, "deal")
    /\ IF pipes[ask[u].pipe] /\ Len(deals) < MaxDeals
       THEN /\ deals' = Append(deals, [pipe |-> ask[u].pipe, stage |-> ask[u].stage,
                                       open |-> TRUE])
       ELSE UNCHANGED deals
    /\ Served(u)
    /\ UNCHANGED <<pipes, stages, board>>

FindAnyStage(u, d, s) ==
    /\ ask[u] = <<>>
    /\ ask' = [ask EXCEPT ![u] = [step |-> "move", deal |-> d, stage |-> s]]
    /\ UNCHANGED <<pipes, stages, deals, board>>

\* moveStage: the deal, and a stage of the deal's pipeline.
FindMove(u, d, s) ==
    /\ ask[u] = <<>>
    /\ pipes[deals[d].pipe] /\ stages[s].pipe = deals[d].pipe
    /\ ask' = [ask EXCEPT ![u] = [step |-> "move", deal |-> d, stage |-> s]]
    /\ UNCHANGED <<pipes, stages, deals, board>>

\* The update throws when the deal has gone.
UpdateStage(u) ==
    LET d == ask[u].deal
    IN  /\ Asking(u, "move")
        /\ IF pipes[deals[d].pipe]
           THEN deals' = [deals EXCEPT ![d].stage = ask[u].stage]
           ELSE UNCHANGED deals
        /\ Served(u)
        /\ UNCHANGED <<pipes, stages, board>>

\* updateStatus: a deal is closed, WON or LOST, or opened again.
UpdateStatus(d) ==
    /\ pipes[deals[d].pipe]
    /\ deals' = [deals EXCEPT ![d].open = ~@]
    /\ UNCHANGED <<pipes, stages, board, ask>>

\* A query throws, or the process dies.
DealThrows(u) ==
    /\ ask[u] # <<>>
    /\ Served(u)
    /\ UNCHANGED <<pipes, stages, deals, board>>

-----------------------------------------------------------------------------
(* The board. *)

\* The page fetches a pipeline's board, also every 15 seconds.
FetchBoard(p) ==
    /\ board' = [pipe |-> p, stages |-> Of(p)]
    /\ UNCHANGED <<pipes, stages, deals, ask>>

\* A deal is dropped on a stage the page shows; the deal may have been picked
\* up on another pipeline's board, and the answer is then 404.
DropDeal(u, d) == \E s \in board.stages : FindMove(u, d, s)

Numberings(S) == Bijection(S, 1 .. Cardinality(S))

DealStep(u) ==
    \/ InsertStage(u) \/ InsertDeal(u) \/ UpdateStage(u) \/ DealThrows(u)
    \/ \E p \in Live : ReadTop(u, p) \/ \E s \in DOMAIN stages : FindPlace(u, p, s)
    \/ \E d \in DOMAIN deals : DropDeal(u, d)

DealsNext ==
    \/ \E u \in User : DealStep(u)
    \/ CreatePipeline
    \/ \E p \in Live : RemovePipeline(p) \/ FetchBoard(p)
    \/ board.pipe # 0 /\ \E perm \in Numberings(board.stages) : ReorderStages(perm)
    \/ \E d \in DOMAIN deals : UpdateStatus(d)

DealsSpec == DealsInit /\ [][DealsNext]_dealVars

-----------------------------------------------------------------------------
(* Properties. *)

\* Every deal is on the board of its pipeline, although deals are dropped on
\* boards that are out of date or were switched during the drag: a board shows
\* a deal only under a stage of its own.
DealsOnBoard ==
    \A d \in DOMAIN deals : stages[deals[d].stage].pipe = deals[d].pipe
=============================================================================
