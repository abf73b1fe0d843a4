-------------------------- MODULE MCBtpsDelegation --------------------------
(* Small instances of BtpsDelegation for TLC.                              *)
EXTENDS BtpsDelegation, TLC

CONSTANTS saas, managed, custom, d1, d2

\* the delegator and an identity of its domain, and one of a domain of its own
MCDomainOf == (saas :> d1) @@ (managed :> d1) @@ (custom :> d2)

\* the domain of the delegator rotates once
MCMaxSelector == (d1 :> 2) @@ (d2 :> 1)

\* another implementation signs with the delegator's first key, or a device's
MCOtherKeys == {<<saas, 1>>}

MCSymmetry == Permutations(InitCalls)
=============================================================================
