---------------------------- MODULE MCBtpsTrust ----------------------------
(* A sender and a receiver whose identity is spelled in two ways.          *)
EXTENDS BtpsTrust, TLC

MCLower == ("ann$a.org" :> "ann$a.org") @@ ("bob$b.org" :> "bob$b.org")
           @@ ("Bob$b.org" :> "bob$b.org")

Choice(status, expiresIn, retryIn) ==
    [status |-> status, expiresIn |-> expiresIn, retryIn |-> retryIn]

MCChoices == {Choice("accepted", None, None), Choice("accepted", 0, None),
              Choice("rejected", None, 0), Choice("rejected", None, 1),
              Choice("blocked", None, None)}
=============================================================================
