---------------------------- MODULE MCDmWorkflows ----------------------------
(***************************************************************************)
(* Instances of DmWorkflows: one workflow, four graphs that between them   *)
(* have every type of node, and short conversations of one contact.        *)
(***************************************************************************)
EXTENDS DmWorkflows, TLC

CONSTANTS w1, w2, t1, m1, m2, f1, ask, chat, nurture, loop, p1, n0, n1, n2, n3, n4

MCWorkers == {w1, w2}
Symmetry == Permutations(MCWorkers)
MCPeriod == {p1}
MCLimit == {2}
MCWorkflow == {f1}
MCPriority == f1 :> 1
MCNode == {n0, n1, n2, n3, n4}

Hello == [source |-> "message", optOut |-> FALSE, valid |-> FALSE, agrees |-> FALSE]
Stop == [Hello EXCEPT !.optOut = TRUE]
Answer == [Hello EXCEPT !.valid = TRUE, !.agrees = TRUE]

(* A text that starts a run, then two answers or a STOP. *)
MCEvent == {t1, m1, m2}
Talk == t1 :> Hello @@ m1 :> Answer @@ m2 :> Hello
Leave == t1 :> Hello @@ m2 :> Stop
MCConversation == {Talk, Leave}

Plain(a, b) == [from |-> a, to |-> b, handle |-> "plain"]
Line == {Plain(n0, n1), Plain(n1, n2), Plain(n2, n3), Plain(n3, n4)}

MCShape ==
    ask :> [fires |-> {t1}, trigger |-> n0, edges |-> Line,
            type |-> n0 :> "TRIGGER" @@ n1 :> "COLLECT_INPUT" @@ n2 :> "SEND_MESSAGE" @@ n3 :> "HANDOFF"]
    @@ chat :> [fires |-> {t1}, trigger |-> n0,
            edges |-> {Plain(n0, n1), Plain(n1, n2), [Plain(n2, n3) EXCEPT !.handle = "match"],
                       [Plain(n2, n1) EXCEPT !.handle = "else"], Plain(n3, n4)},
            type |-> n0 :> "TRIGGER" @@ n1 :> "WAIT_REPLY" @@ n2 :> "CONDITION"
                     @@ n3 :> "SEND_MESSAGE" @@ n4 :> "END"]
    @@ nurture :> [fires |-> {t1}, trigger |-> n0, edges |-> Line,
            type |-> n0 :> "TRIGGER" @@ n1 :> "SEND_MESSAGE" @@ n2 :> "DELAY"
                     @@ n3 :> "SEND_LINK" @@ n4 :> "UNSUBSCRIBE"]
    @@ loop :> [fires |-> {t1}, trigger |-> n0, edges |-> {Plain(n0, n1), Plain(n1, n2), Plain(n2, n1)},
            type |-> n0 :> "TRIGGER" @@ n1 :> "SUBSCRIBE" @@ n2 :> "ADD_TAG"]
MCGraph == {ask, chat, nurture, loop}
==============================================================================
