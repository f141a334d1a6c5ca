--------------------------- MODULE FilingPromise ---------------------------
(***************************************************************************)
(* What the filing queue promises the taxpayer, with no worker, claim,     *)
(* lease, retry or crash in sight: each authorization ("grant") is for one *)
(* return and one content, it leads to at most one upload, one that was    *)
(* taken back leads to none, and a return is filed only once its own grant *)
(* was uploaded.  FilingQueue implements this specification.               *)
(***************************************************************************)
EXTENDS Naturals

CONSTANTS Returns, Content

VARIABLES
    phase,      \* phase[r]: where return r stands
    standing,   \* standing[r]: the grant return r stands under, 0 for none
    approved,   \* every grant ever given: [ret, grant, content]
    uploaded,   \* the grants that were carried out
    revoked     \* the grants that were taken back for certain

pvars == <<phase, standing, approved, uploaded, revoked>>

Phase == {"Draft", "Queued", "Submitted", "Confirmed"}

Init == /\ phase = [r \in Returns |-> "Draft"]
        /\ standing = [r \in Returns |-> 0]
        /\ approved = {}
        /\ uploaded = {}
        /\ revoked = {}

\* The taxpayer authorizes a content of return r under a new grant.
Approve(r) ==
    /\ phase[r] = "Draft"
    /\ phase' = [phase EXCEPT ![r] = "Queued"]
    /\ \E a \in approved' :
         /\ a.ret = r
         /\ a.grant # 0
         /\ a.content \in Content
         /\ \A b \in approved : b.grant # a.grant
         /\ approved' = approved \cup {a}
         /\ standing' = [standing EXCEPT ![r] = a.grant]
    /\ UNCHANGED <<uploaded, revoked>>

BackToDraft(r) == /\ phase' = [phase EXCEPT ![r] = "Draft"]
                  /\ standing' = [standing EXCEPT ![r] = 0]
                  /\ UNCHANGED <<approved, uploaded>>

\* The grant of a queued return is taken back for certain.
Revoke(r) ==
    /\ phase[r] = "Queued"
    /\ \A u \in uploaded : u.grant # standing[r]
    /\ revoked' = revoked \cup {standing[r]}
    /\ BackToDraft(r)

\* A queued return goes back to Draft, whatever becomes of its grant: the
\* worker refused it, or a human gave up on an upload of unknown outcome.
GiveUp(r) == phase[r] = "Queued" /\ UNCHANGED revoked /\ BackToDraft(r)

\* A grant is carried out, once, exactly as it was given.
Upload(a) ==
    /\ \A u \in uploaded : u.grant # a.grant
    /\ a.grant \notin revoked
    /\ uploaded' = uploaded \cup {a}
    /\ UNCHANGED <<phase, standing, approved, revoked>>

\* The upload of the standing grant is recorded.
Acknowledge(r) ==
    /\ phase[r] = "Queued"
    /\ \E u \in uploaded : u.ret = r /\ u.grant = standing[r]
    /\ phase' = [phase EXCEPT ![r] = "Submitted"]
    /\ UNCHANGED <<standing, approved, uploaded, revoked>>

\* The tax authority answers.
Confirm(r) ==
    /\ phase[r] = "Submitted"
    /\ phase' = [phase EXCEPT ![r] = "Confirmed"]
    /\ UNCHANGED <<standing, approved, uploaded, revoked>>

\* A filed return is opened again for an amendment.
Reopen(r) ==
    /\ phase[r] \in {"Submitted", "Confirmed"}
    /\ UNCHANGED revoked
    /\ BackToDraft(r)

Next == \/ \E r \in Returns : \/ Approve(r) \/ Revoke(r) \/ GiveUp(r)
                              \/ Acknowledge(r) \/ Confirm(r) \/ Reopen(r)
        \/ \E a \in approved : Upload(a)

Spec == Init /\ [][Next]_pvars

=============================================================================
