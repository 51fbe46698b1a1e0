---------------------------- MODULE MCFoundations ----------------------------
(* What the handlers rest on, for TLC: the calls of Computations and the   *)
(* process of RequestGate, side by side.                                   *)
EXTENDS Computations, RequestGate

Init ==
    \/ /\ ComputeInit
       /\ place = {} /\ proc = NotRunning /\ served = NoService
    \/ /\ GateInit
       /\ call = [fn |-> "none"] /\ result = <<>>

Next ==
    \/ Compute /\ UNCHANGED gateVars
    \/ call.fn = "none" /\ GateNext /\ UNCHANGED <<place, computeVars>>

Spec == Init /\ [][Next]_<<computeVars, gateVars>>

Config(typ, sections) == [database_typ |-> typ, sections |-> sections,
                          wallet_auth |-> CHOOSE p \in Password : TRUE]
AllSections == {"HttpCfg", "WConf", "FsCfg", "LBCfg", "RedisCfg"}
Installation(config, wallet, opens, port, debug) ==
    [config |-> config, wallet |-> wallet, databaseOpens |-> opens, portFree |-> port,
     debugPortFree |-> debug]
Good == ToWallet(CHOOSE s \in Seed : TRUE, CHOOSE p \in Password : TRUE)
Others == {ToWallet(s, p) : s \in Seed, p \in Password}

Places ==
    {Installation({Config(typ, AllSections)}, {Good}, opens, TRUE, debug)
        : typ \in 1 .. 4, opens \in BOOLEAN, debug \in BOOLEAN}
    \cup {Installation({}, {Good}, TRUE, TRUE, TRUE), Installation({Config(1, AllSections)}, {}, TRUE, TRUE, TRUE)}
    \cup {Installation({Config(2, AllSections)}, {Good}, TRUE, FALSE, TRUE)}
    \cup {Installation({Config(1, AllSections \ {s})}, {Good}, TRUE, TRUE, TRUE) : s \in AllSections}
    \cup {Installation({Config(3, AllSections)}, {[w EXCEPT !.address = a]}, TRUE, TRUE, TRUE)
            : w \in Others, a \in {{BMailAddress(s)} : s \in Seed}}

FoldFactors == [i \in 0 .. 1 |-> IF i = 0 THEN 1 ELSE -2]

(* Some seeds; the sixth has the neutral point as its public key.          *)
Digests == [i \in 1 .. 8 |-> (7919 * i * i + 12345 * i) % 65536]

LimbSamples == {-35, -17, 0, 15, 29, 31}
ByteSamples == {0, 1, 15}
Nonnegatives(n, step) == {i * step : i \in 0 .. n}
BaseSamples == Nonnegatives(300, 109) \cup 0 .. 40
PointSamples == {0, 1, 7, 15, 16, 31, 40, 255, 1000, 8191, 21845, 32767}
ScalarSamples == {0, 1, 7, 8, 511, 4095, 4096, 4110, 4111, 4112, 8191} \cup Nonnegatives(8, 911)
WideSamples == Nonnegatives(2000, 8387) \cup 0 .. 100

=============================================================================
