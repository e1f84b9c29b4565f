---------------------------- MODULE MCMessageApi ----------------------------
(* A small database: two senders, and four messages: two of the same content, one whose method number
   wraps to a number a MySQL int column holds, and one whose number wraps to one it does not. *)
EXTENDS MessageApi

MCAddr == {"a", "b"}
MCMsgId == 1..4
MCMethodOf == <<1, 1, 13, 9>>
MCUser == {"u", "v"}
MCSigners == [u |-> {"a"}, v |-> {}]
MCClearOf == [c1 |-> "a", c2 |-> "b"]

OldRow(prefix, a, nonce) ==
    [id |-> <<prefix, a>>, addr |-> <<prefix, a>>, nonce |-> nonce, state |-> "Alive", selNum |-> 0, deleted |-> FALSE,
     maxFee |-> 3, overEst |-> 1250, updated |-> 0]

Old == {OldRow("t", "a", 2), OldRow("f", "b", 1)}

MCScenes ==
    {[calls |-> {"push", "select", "chain", "replace", "state", "recover"}, ids |-> {1, 2}, writes |-> 5,
      old |-> {OldRow("f", "a", 1)}],
     [calls |-> {"push", "select", "chain"}, ids |-> {1, 3, 4}, writes |-> 3, old |-> {}],
     [calls |-> {"push", "select", "address"}, ids |-> {1, 2}, writes |-> 3, old |-> Old],
     [calls |-> {"params"}, ids |-> {}, writes |-> 3, old |-> {}],
     [calls |-> {"push", "address"}, ids |-> {1, 3}, writes |-> 2, old |-> {OldRow("t", "a", 2), OldRow("f", "a", 4)}],
     [calls |-> {"push", "select", "chain", "state", "wait"}, ids |-> {1}, writes |-> 3, old |-> {}],
     [calls |-> {"push", "clear"}, ids |-> {1, 2}, writes |-> 3, old |-> {}]}
=============================================================================
