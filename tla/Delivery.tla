------------------------------ MODULE Delivery ------------------------------
(***************************************************************************)
(* What the worker promises about one task, without processes, crashes or  *)
(* races: a plan comes first, a person is asked about it once, a pull      *)
(* request is opened once and only with consent when consent is required,  *)
(* it is recorded once, and a review is asked for only after that.  Facts, *)
(* once established, stay; only the review can be withdrawn.               *)
(***************************************************************************)
CONSTANT ConsentRequired

VARIABLES planned, asked, consent, opened, recorded, underReview
vars == <<planned, asked, consent, opened, recorded, underReview>>

Init == /\ planned = FALSE /\ asked = FALSE /\ consent = FALSE
        /\ opened = FALSE /\ recorded = FALSE /\ underReview = FALSE

MakePlan == /\ planned' = TRUE
            /\ UNCHANGED <<asked, consent, opened, recorded, underReview>>

AskForApproval == /\ planned /\ ~asked
                  /\ asked' = TRUE
                  /\ UNCHANGED <<planned, consent, opened, recorded, underReview>>

Approve == /\ asked
           /\ consent' = TRUE
           /\ UNCHANGED <<planned, asked, opened, recorded, underReview>>

OpenPullRequest == /\ planned /\ ~opened
                   /\ ConsentRequired => consent
                   /\ opened' = TRUE
                   /\ UNCHANGED <<planned, asked, consent, recorded, underReview>>

RecordPullRequest == /\ opened /\ ~recorded
                     /\ recorded' = TRUE
                     /\ UNCHANGED <<planned, asked, consent, opened, underReview>>

SubmitForReview == /\ recorded
                   /\ underReview' = TRUE
                   /\ UNCHANGED <<planned, asked, consent, opened, recorded>>

Withdraw == /\ underReview' = FALSE
            /\ UNCHANGED <<planned, asked, consent, opened, recorded>>

Next == \/ MakePlan \/ AskForApproval \/ Approve \/ OpenPullRequest
        \/ RecordPullRequest \/ SubmitForReview \/ Withdraw

Spec == Init /\ [][Next]_vars
=============================================================================
