----------------------------- MODULE MCDeployment -----------------------------
(* Small instances of Deployment for TLC: two dispatches, retried once, by      *)
(* pages whose body names another tenant, does not parse, or comes without      *)
(* usable tokens and asks for more than a minute's budget at once.              *)
EXTENDS Deployment, TLC

MCTenants == {"alice", "bob"}

Page == [attestation |-> "valid", uid |-> "alice", parses |-> TRUE, declared |-> "bob",
         estimates |-> <<2, 1>>]

MCEnvelopes ==
    {Page, [Page EXCEPT !.parses = FALSE],
     [Page EXCEPT !.attestation = "invalid", !.uid = "missing", !.declared = "alice",
                  !.estimates = <<5, 1>>]}

Guards(appCheck, auth, account) ==
    [appCheck |-> appCheck, auth |-> auth, serviceAccount |-> account]

MCModes ==
    {Guards("enforce", "enforce", TRUE), Guards("enforce", "enforce", FALSE),
     Guards("disabled", "enforce", FALSE), Guards("disabled", "disabled", FALSE)}

Alike == Permutations(Calls) \union Permutations(Instances)

===============================================================================
