----------------------- MODULE MCMessageSendController -----------------------
(* Two receivers of one name, one of another, and the system. *)
EXTENDS MessageSendController

CONSTANTS r1, r2, r3, a, b, pd

MCReceivers == {r1, r2, r3}
MCNames == {a, b, pd}
MCNameOf == [r \in MCReceivers |-> IF r = r3 THEN b ELSE a]
=============================================================================
