---------------------------- MODULE MCHostNetwork ----------------------------
(* Small instances of HostNetwork for TLC. *)
EXTENDS HostNetwork, TLC

CONSTANTS s1, s2, tap0, tap1, br0, eth0

Plain(t) == [host |-> t, bridge |-> NoIf, pasta |-> FALSE, uart |-> FALSE, auto |-> FALSE]
Bridged(t, b) == [Plain(t) EXCEPT !.bridge = b]
Flagged(t, b) == [Bridged(t, b) EXCEPT !.auto = TRUE]
Pastaed(t) == [Plain(t) EXCEPT !.pasta = TRUE]
OverUart(t) == [Plain(t) EXCEPT !.uart = TRUE]

(* What the two modes, shared names, a shared bridge, an interface that is *)
(* no bridge and a name given twice can do.                                *)
SomeConfigs == {
    <<Flagged(tap0, br0)>>,
    <<OverUart(tap0), Pastaed(tap1)>>,
    <<Plain(tap1), Bridged(tap0, eth0)>>,
    <<Plain(tap0), Pastaed(tap0)>>}

EveryFault == {"clean", "mounts", "uart", "add", "up", "bridge", "tun", "create",
               "late", "copy", "start", "stop", "vanish"}

SessionSymmetry == Permutations(Sessions)

=============================================================================
