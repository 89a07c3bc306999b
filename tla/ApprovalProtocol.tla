-------------------------- MODULE ApprovalProtocol --------------------------
(***************************************************************************)
(* What the signing workflow promises a reader of the archive, with none of *)
(* its machinery: a record is open, or out for signature, or archived, or   *)
(* void.  A submission starts an empty list of signatures; a signature is   *)
(* added for the stage the record is at, by somebody other than the person  *)
(* who submitted it; the record is archived by the signature of the last    *)
(* stage and by nothing else; taking the record back discards the           *)
(* signatures of that submission.                                           *)
(***************************************************************************)
EXTENDS Integers

CONSTANTS Signatories, NoOne, Stages

VARIABLES
    phase,       \* "open", "out", "archived" or "void"
    submitter,   \* who submitted, NoOne before the first submission
    signatures   \* the <<stage, signatory>> pairs of the submission

avars == <<phase, submitter, signatures>>

AInit == phase = "open" /\ submitter = NoOne /\ signatures = {}

\* Open records may be submitted by anyone who may record.
Submit(u) ==
    /\ phase = "open"
    /\ phase' = "out"
    /\ submitter' = u
    /\ signatures' = {}

\* The stages already signed are 1 .. n; the next signature is for n + 1.
Signed(n) == {sig[1] : sig \in signatures} = 1..n

Sign(u, k) ==
    /\ phase = "out"
    /\ k \in 1..Stages
    /\ Signed(k - 1)
    /\ u # submitter
    /\ signatures' = signatures \cup {<<k, u>>}
    /\ phase' = IF k = Stages THEN "archived" ELSE "out"
    /\ UNCHANGED submitter

\* A return, a recall, or any other way back to editing.
Withdraw ==
    /\ phase = "out"
    /\ phase' = "open"
    /\ signatures' = {}
    /\ UNCHANGED submitter

Void ==
    /\ phase # "void"
    /\ phase' = "void"
    /\ signatures' = {}
    /\ UNCHANGED submitter

ANext ==
    \/ \E u \in Signatories : Submit(u)
    \/ \E u \in Signatories, k \in 1..Stages : Sign(u, k)
    \/ Withdraw
    \/ Void

ASpec == AInit /\ [][ANext]_avars

=============================================================================
