--------------------------- MODULE ApprovalLedger ---------------------------
(***************************************************************************)
(* What human approval promises, without pipeline, tokens or registry: a   *)
(* ledger of granted actions, each of which may be performed once, as it   *)
(* was granted and on the strength of a check made in time.                *)
(***************************************************************************)
EXTENDS Naturals, Sequences

CONSTANT Actions   \* the actions an approver can grant

VARIABLES
    grants,   \* the actions granted and until when, by approval id
    spent     \* what has been performed on the strength of a grant

Init == grants = << >> /\ spent = {}

Grant ==
    /\ \E g \in {grants'[i] : i \in DOMAIN grants'} :
          /\ g.action \in Actions
          /\ grants' = Append(grants, g)
    /\ UNCHANGED spent

\* Who performs the action, and until when a grant lasts, is left open.
Spend ==
    /\ \E s \in spent' :
          /\ s.id \in DOMAIN grants
          /\ \A other \in spent : other.id # s.id
          /\ s.action = grants[s.id].action
          /\ s.checked_at <= grants[s.id].until
          /\ spent' = spent \cup {s}
    /\ UNCHANGED grants

\* The ledger is kept in memory: a new process starts with all grants unspent.
Forget ==
    /\ spent' = {}
    /\ UNCHANGED grants

Next == Grant \/ Spend \/ Forget

Spec == Init /\ [][Next]_<<grants, spent>>

=============================================================================
