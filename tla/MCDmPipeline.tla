---------------------------- MODULE MCDmPipeline -----------------------------
(***************************************************************************)
(* Instances of DmPipeline: two concurrent handlers, one rule, and short   *)
(* conversations of one contact with the account.                          *)
(***************************************************************************)
EXTENDS DmPipeline, TLC

CONSTANTS w1, w2, c1, m1, m2, m3, r1, p1

Comment == [source |-> "comment", reply |-> FALSE, mention |-> FALSE, own |-> FALSE,
            optOut |-> FALSE, email |-> FALSE]
Text == [Comment EXCEPT !.source = "message"]
Stop == [Text EXCEPT !.optOut = TRUE]
Email == [Text EXCEPT !.email = TRUE]

MCWorkers == {w1, w2}
MCOneWorker == {w1}
MCPeriod == {p1}
MCRule == {r1}
MCLimit == {1}
Symmetry == Permutations(MCWorkers)

(* A rule that asks for the email, and caps each contact at n DMs. *)
Asking(n) == [r \in MCRule |-> [priority |-> 1, cap |-> n, collects |-> TRUE, replies |-> TRUE]]
MCAskTwice == Asking(2)

(* A comment and a text that match the rule, and a STOP. *)
MCMeeting == {c1, m1, m2}
MCMeetingKind == c1 :> Comment @@ m1 :> Stop @@ m2 :> Text
MCMeetingMatches == c1 :> {r1} @@ m1 :> {} @@ m2 :> {r1}

(* A comment that matches the rule, answered with three other texts. *)
MCChat == {c1, m1, m2, m3}
MCChatKind == c1 :> Comment @@ m1 :> Text @@ m2 :> Text @@ m3 :> Text
MCChatMatches == c1 :> {r1} @@ m1 :> {} @@ m2 :> {} @@ m3 :> {}

(* A comment that matches the rule, a STOP, another text. *)
MCLeave == {c1, m1, m2}
MCLeaveKind == c1 :> Comment @@ m1 :> Stop @@ m2 :> Text
MCLeaveMatches == c1 :> {r1} @@ m1 :> {} @@ m2 :> {}

(* One comment that matches the rule. *)
MCOneComment == {c1}
MCOneCommentKind == c1 :> Comment
MCOneCommentMatches == c1 :> {r1}

(* A comment that matches the rule, answered with an email. *)
MCAnswer == {c1, m1}
MCAnswerKind == c1 :> Comment @@ m1 :> Email
MCAnswerMatches == c1 :> {r1} @@ m1 :> {}
==============================================================================
