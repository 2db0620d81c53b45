---------------------------- MODULE MCSlotLedger ----------------------------
EXTENDS SlotLedger, TLC

Scenario(owned, waiting, bounds) ==
    [slots |-> [n \in Nodes |-> owned[n]], queue |-> [n \in Nodes |-> waiting[n]],
     may |-> [k \in Kinds |-> IF k \in DOMAIN bounds THEN bounds[k] ELSE 0]]
Of(a, b) == [n \in Nodes |-> CASE n = "n1" -> a [] n = "n2" -> b [] OTHER -> 0]

(* A node alone with mint epochs, also when the head restarts; two nodes that trade, also after an answer was lost, or
   minting between trades; two nodes, one of which loses a worker, that trade
   while a replacement is asked for, or ask again after a lost answer. *)
MCScenarios ==
    {Scenario(Of(1, 0), Of(4, 0), [epochs |-> 3, losses |-> 1]),
     Scenario(Of(1, 0), Of(4, 0), [epochs |-> 3, shocks |-> 1]),
     Scenario(Of(1, 1), Of(3, 0), [trades |-> 3, losses |-> 1]),
     Scenario(Of(1, 1), Of(3, 0), [trades |-> 1, epochs |-> 1, losses |-> 1]),
     Scenario(Of(2, 1), Of(3, 0), [trades |-> 1, replacements |-> 1, shocks |-> 1]),
     Scenario(Of(2, 1), Of(2, 0), [replacements |-> 2, shocks |-> 1, losses |-> 1])}

(* Two nodes with more inputs than slots; an epoch may take back what it minted
   while the workers it was for are being traded away. *)
MCShedAndTrade == {Scenario(Of(1, 1), Of(3, 2), [trades |-> 3, epochs |-> 1])}
=============================================================================
