----------------------------- MODULE MCHarness -----------------------------
(* Small instances of the harness loop and its gate. *)
EXTENDS HarnessClient

CONSTANTS k1

Ask(kind, policy, override, cmd) ==
    [kind |-> kind, policy |-> policy, override |-> override, body |-> "patch",
     cmd |-> cmd]

By(signer, body) ==
    [verb |-> "harness_apply", scope |-> "harness", body |-> body, nonce |-> 9,
     stamp |-> 0, signer |-> signer]

(* What other callers send: every reason to refuse, and commands with one  *)
(* nonce.                                                                  *)
OtherRequests ==
    {Ask("apply", TRUE, FALSE, BadCmd), Ask("apply", TRUE, FALSE, By(k1, "other")),
     Ask("apply", FALSE, TRUE, By(k1, "patch"))}
=============================================================================
