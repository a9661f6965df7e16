---------------------------- MODULE FlowExecutor ----------------------------
(***************************************************************************)
(* FlowExecutor (flow/flow.executor.ts): runForTrigger selects the active  *)
(* flows of a trigger and walks each from its TRIGGER node, one node after *)
(* the other, for at most MaxNodes nodes.  What a node throws ends its     *)
(* flow and is swallowed; the next flow is walked all the same.            *)
(*                                                                         *)
(* A flow is a document its author draws: it may branch, loop, and name    *)
(* nodes that do not exist.  The kinds of nodes are reduced to those the   *)
(* inbound worker's conversation can tell apart: SEND_MESSAGE, CONDITION,  *)
(* and OTHER for those that write contacts, deals and the assignment, wait *)
(* or call a webhook.                                                      *)
(***************************************************************************)
EXTENDS Integers, Sequences

CONSTANTS Flow,     \* the flow documents of a client
          NoFlow,
          Node,     \* node ids
          NoNode,   \* null
          Doc,      \* Flow -> [trigger, start, kind : its nodes -> kinds, edges]
          MaxNodes  \* MAX_NODES

Kind  == {"TRIGGER", "SEND_MESSAGE", "CONDITION", "OTHER"}
Label == {"true", "false", "none"}
Edge  == [source : Node, target : Node, branch : Label]

\* What the modules that walk flows assume of their documents.
WellFormed ==
    /\ NoFlow \notin Flow /\ NoNode \notin Node
    /\ \A f \in Flow :
           /\ Doc[f].trigger \in {"INBOUND_MESSAGE", "KEYWORD", "OTHER"}
           /\ Doc[f].start \in Node
           /\ DOMAIN Doc[f].kind \subseteq Node
           /\ \A n \in DOMAIN Doc[f].kind : Doc[f].kind[n] \in Kind
           /\ Doc[f].edges \in Seq(Edge)
    /\ MaxNodes \in Nat

VARIABLES
    selected,  \* flows of the pass that have not been walked
    flow,      \* the flow being walked
    node,      \* its next node
    steps      \* nodes it has executed

walkVars == <<selected, flow, node, steps>>

TypeOK ==
    /\ selected \subseteq Flow
    /\ flow \in Flow \cup {NoFlow}
    /\ node \in Node \cup {NoNode}
    /\ steps \in 0 .. MaxNodes
    /\ flow = NoFlow => node = NoNode /\ steps = 0

Init == selected = {} /\ flow = NoFlow /\ node = NoNode /\ steps = 0

\* The first edge out of n with the branch the node returned, or else the
\* first edge out of n.
NextNode(f, n, branch) ==
    LET out      == SelectSeq(Doc[f].edges, LAMBDA e : e.source = n)
        branched == SelectSeq(out, LAMBDA e : e.branch = branch)
    IN  IF out = <<>> THEN NoNode
        ELSE IF branch # "none" /\ branched # <<>> THEN Head(branched).target
        ELSE Head(out).target

\* Any of the trigger's flows may be inactive; a KEYWORD flow also has to match.
RunForTrigger(trigger, matches) ==
    \E active \in SUBSET Flow :
        /\ selected' = {f \in active : /\ Doc[f].trigger = trigger
                                       /\ trigger = "KEYWORD" => matches}
        /\ UNCHANGED <<flow, node, steps>>

Enter(f) ==
    /\ flow = NoFlow
    /\ f \in selected
    /\ selected' = selected \ {f}
    /\ flow' = f
    /\ node' = Doc[f].start
    /\ steps' = 0

Walking == flow # NoFlow /\ steps < MaxNodes /\ node \in DOMAIN Doc[flow].kind

KindAt == Doc[flow].kind[node]

Branches == IF KindAt = "CONDITION" THEN {"true", "false"} ELSE {"none"}

ExecUncounted(branch) ==
    /\ Walking
    /\ branch \in Branches
    /\ node' = NextNode(flow, node, branch)
    /\ UNCHANGED <<selected, flow, steps>>

Exec(branch) ==
    /\ Walking
    /\ branch \in Branches
    /\ node' = NextNode(flow, node, branch)
    /\ steps' = steps + 1
    /\ UNCHANGED <<selected, flow>>

\* The walk is over: no next node, an unknown one, or the limit; or the node
\* threw.
Leave ==
    /\ flow # NoFlow
    /\ flow' = NoFlow /\ node' = NoNode /\ steps' = 0
    /\ UNCHANGED selected

Reset ==
    selected' = {} /\ flow' = NoFlow /\ node' = NoNode /\ steps' = 0

PassOver == flow = NoFlow /\ selected = {}
=============================================================================
