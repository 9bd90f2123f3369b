---------------------------- MODULE MCAccounts ----------------------------
(***************************************************************************)
(* Accounts from the moment at which request 1 has been answered: by a     *)
(* code for some email, or by nothing that matters.  The other requests    *)
(* then have a code to present while they interfere with each other.       *)
(***************************************************************************)
EXTENDS Accounts

(* The state after get_verify_code for e, which found no code.             *)
CodeGiven(e) ==
    /\ http = [r \in Requests |->
                 [fields |-> [op |-> "get_verify_code", email |-> e],
                  stage |-> IF r = 1 THEN "ok" ELSE "unsent"]]
    /\ redis = [k \in Keys |-> IF k = e THEN 1 ELSE None]
    /\ shown = [k \in Keys |-> IF k = e THEN {1} ELSE {}]

NoCodeGiven ==
    /\ http = [r \in Requests |->
                 [fields |-> CHOOSE f \in Fields : TRUE,
                  stage |-> IF r = 1 THEN "bad_request" ELSE "unsent"]]
    /\ redis = [k \in Keys |-> None]
    /\ shown = [k \in Keys |-> {}]

MCInit ==
    /\ user \in {{}} \cup
         {{[name |-> n, email |-> e, pwd |-> p, provedBy |-> Before]} :
             n \in Names, e \in Emails, p \in Passwords}
    /\ NoCodeGiven \/ \E e \in Emails : CodeGiven(e)
    /\ remote = [r \in Requests |-> "none"]
    /\ failed = {}

MCSpec == MCInit /\ [][Next]_vars /\ Fairness
============================================================================
