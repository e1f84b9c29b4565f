-------------------------- MODULE MCReplaceMessage --------------------------
(* Instances of ReplaceMessage for TLC. *)
EXTENDS ReplaceMessage

Estimates == {[limit |-> 2, cap |-> 20, prem |-> 10], [limit |-> 2, cap |-> 30, prem |-> 20]}

Unset == [f \in Fields |-> 0]
Level(fee) == [Unset EXCEPT !.maxFee = fee]

NoFees == [meta |-> Unset, addr |-> Unset, cfg |-> <<Unset, Unset>>, shared |-> Unset]

Manual == [auto |-> FALSE, maxFee |-> 0, overPrem |-> 0, limit |-> 3, cap |-> 40, prem |-> 26]
Auto(fee) == [auto |-> TRUE, maxFee |-> fee, overPrem |-> 0, limit |-> 0, cap |-> 0, prem |-> 0]

Scene == [fees |-> NoFees, params |-> [c \in Replacer |-> <<>>], calls |-> {}, holds |-> {{1}}, moving |-> {}]

(* Two replacements, an operator, and one wallet that stays. *)
Races ==
    {[Scene EXCEPT !.params = [c \in Replacer |-> IF c = "r1" THEN p ELSE q], !.calls = {"markBad", "recover"}] :
        p \in {Auto(0), Manual}, q \in {Auto(48)}}

(* One replacement, with every level of the fees. *)
Prices ==
    {[Scene EXCEPT !.params["r1"] = [Auto(p) EXCEPT !.overPrem = 2], !.calls = {"upgrade"},
                   !.fees = [meta |-> [Level(m) EXCEPT !.overPrem = 2, !.overEst = 2],
                             addr |-> [Level(a) EXCEPT !.baseFee = 5],
                             cfg |-> <<[Level(30) EXCEPT !.feeCap = 18], Unset>>,
                             shared |-> [Level(41) EXCEPT !.baseFee = 9]]] :
        p \in {0, 60}, m \in {0, 24}, a \in {0, 50}}

(* Wallets that come and go while a message is selected and replaced. *)
Moves ==
    {[Scene EXCEPT !.params["r1"] = Auto(0), !.params["r2"] = Manual, !.calls = {"push"}, !.holds = {{1}, {2}}, !.moving = {1, 2}]}

AllScenes == Races \cup Prices \cup Moves

RaceScenes == {[Scene EXCEPT !.params["r1"] = Auto(0)]}
=============================================================================
