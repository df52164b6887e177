------------------------ MODULE MCCardIdentification ------------------------
(* Instances of CardIdentification for TLC: slots of three widths with and   *)
(* without the fast modes, and cards that differ in what is asked of them.   *)
EXTENDS CardIdentification

Host(width, ddr50, sdr104, only18) ==
    [width |-> width, ddr50 |-> ddr50, sdr50 |-> FALSE, sdr104 |-> sdr104,
     highSpeed |-> TRUE, only18 |-> only18]
MCHosts == {Host(8, TRUE, FALSE, FALSE), Host(4, FALSE, FALSE, FALSE),
            Host(4, FALSE, TRUE, TRUE), Host(1, FALSE, FALSE, FALSE)}

SdCard(old, widths, functions, high) ==
    [kind |-> "Sd", version1 |-> old, widths |-> widths, functions |-> functions,
     types |-> {}, high |-> high, stuck |-> FALSE]
EmmcCard(types, stuck) ==
    [kind |-> "Emmc", version1 |-> FALSE, widths |-> {1, 4, 8}, functions |-> {},
     types |-> types, high |-> FALSE, stuck |-> stuck]
MCCards ==
    {SdCard(FALSE, {1, 4}, {0, 1}, TRUE), SdCard(FALSE, {1, 4}, {0, 1, 2, 3}, FALSE),
     SdCard(TRUE, {1, 4}, {0}, FALSE), SdCard(FALSE, {1}, {0}, FALSE),
     EmmcCard({"HS26"}, FALSE), EmmcCard({"HS26", "HS52", "DDR52"}, FALSE),
     EmmcCard({"HS52", "HS200"}, FALSE), EmmcCard({}, FALSE), EmmcCard({}, TRUE)}
=============================================================================
