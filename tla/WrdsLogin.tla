------------------------------ MODULE WrdsLogin ------------------------------
(***************************************************************************)
(* What the WRDS service promises about the user's account, and nothing    *)
(* about how it does it.                                                   *)
(*                                                                         *)
(* A login that carries the password may be refused, and WRDS locks an     *)
(* account after enough refusals.  The service may therefore start a login *)
(* by itself only while no earlier login is unaccounted for; every further *)
(* one is spent by an operator's approval, one login per approval.  A      *)
(* login that is verified settles the account (wrds_server.py, the         *)
(* docstring of _auto_relogin_enabled and the comment on                   *)
(* _AUTH_ERROR_NEEDLES).                                                   *)
(***************************************************************************)
EXTENDS Naturals

VARIABLES
    armed,      \* a party has decided to log in and has not sent anything yet
    attempts,   \* logins sent since the last verified one
    approvals   \* operator approvals used since the last verified login

vars == <<armed, attempts, approvals>>

Init == armed = FALSE /\ attempts = 0 /\ approvals = 0

(* The service decides to log in by itself: nothing may be outstanding. *)
Arm ==
    /\ ~armed
    /\ attempts = 0
    /\ armed' = TRUE
    /\ UNCHANGED <<attempts, approvals>>

(* An operator approved one login. *)
ArmApproved ==
    /\ ~armed
    /\ armed' = TRUE
    /\ approvals' = approvals + 1
    /\ UNCHANGED attempts

(* The one login that was armed is sent. *)
Send ==
    /\ armed
    /\ armed' = FALSE
    /\ attempts' = attempts + 1
    /\ UNCHANGED approvals

(* The login is given up before anything was sent: an error or a crash. *)
Disarm ==
    /\ armed
    /\ armed' = FALSE
    /\ UNCHANGED <<attempts, approvals>>

(* A statement was answered over the connection the login opened. *)
Settle ==
    /\ ~armed
    /\ attempts' = 0
    /\ approvals' = 0
    /\ UNCHANGED armed

Next == Arm \/ ArmApproved \/ Send \/ Disarm \/ Settle

Spec == Init /\ [][Next]_vars

-----------------------------------------------------------------------------

(* WRDS never sees more unverified logins in a row than one the service    *)
(* made by itself plus one for each approval an operator gave.             *)
Budget == attempts <= approvals + 1
=============================================================================
