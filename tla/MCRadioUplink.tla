--------------------------- MODULE MCRadioUplink ---------------------------
(***************************************************************************)
(* Environments for checking RadioUplink.                                   *)
(***************************************************************************)
EXTENDS RadioUplink

NoEvents == [e \in Event |-> 0]

\* Reads fail but lose nothing.
CleanLimit == [NoEvents EXCEPT !["failure"] = 1]

\* Noise, a lost reply and a power cycle.
NoisyLimit == [NoEvents EXCEPT !["noise"] = 2, !["loss"] = 1, !["powercycle"] = 1]

\* One power cycle.
PowerLimit == [NoEvents EXCEPT !["powercycle"] = 1]
=============================================================================
