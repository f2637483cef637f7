---------------------------- MODULE ExecuteOnce ----------------------------
(***************************************************************************)
(* What the finance gateway promises to the venue, without saying how: an  *)
(* action is executed at most once, a tenant never executes two actions    *)
(* under one nonce, and nothing is executed while the operator has halted  *)
(* the loop.  AuthorizationPipeline implements it.                         *)
(***************************************************************************)
EXTENDS Naturals

CONSTANTS
    Owners,     \* tenants
    Orders,     \* actions
    NonceOf     \* the nonce of every action

VARIABLES
    count,      \* how often each <<owner, order>> was executed
    halted      \* the operator's circuit breaker is open

Init ==
    /\ count = [h \in Owners \X Orders |-> 0]
    /\ halted = FALSE

Execute(t, a) ==
    /\ ~halted
    /\ \A b \in Orders : NonceOf[b] = NonceOf[a] => count[<<t, b>>] = 0
    /\ count' = [count EXCEPT ![<<t, a>>] = 1]
    /\ UNCHANGED halted

(* The switch is the operator's, and a restart closes it. *)
Switch ==
    /\ halted' = ~halted
    /\ UNCHANGED count

Next == (\E t \in Owners, a \in Orders : Execute(t, a)) \/ Switch

Spec == Init /\ [][Next]_<<count, halted>>
=============================================================================
