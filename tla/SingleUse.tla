------------------------------ MODULE SingleUse ------------------------------
(* What a single-use token promises: at most one caller is ever let through *)
(* on it, and none once it has been withdrawn.                              *)
EXTENDS FiniteSets

CONSTANTS
    UseTokens,      \* the tokens
    UseCallers,     \* those who present them
    NoUser          \* no caller

VARIABLES
    winner,         \* UseTokens -> the caller a token was spent on
    withdrawn       \* the tokens nobody can spend any more

useVars == <<winner, withdrawn>>

UseInit ==
    /\ winner = [t \in UseTokens |-> NoUser]
    /\ withdrawn = {}

Spend(t, c) ==
    /\ winner[t] = NoUser
    /\ t \notin withdrawn
    /\ winner' = [winner EXCEPT ![t] = c]
    /\ UNCHANGED withdrawn

(* A pod's unspent tokens go together; one alone when its time is up.      *)
Withdraw(T) ==
    /\ withdrawn' = withdrawn \cup T
    /\ UNCHANGED winner

UseNext ==
    \/ \E t \in UseTokens, c \in UseCallers : Spend(t, c)
    \/ \E T \in SUBSET UseTokens : Withdraw(T)

UseSpec == UseInit /\ [][UseNext]_useVars

=============================================================================
