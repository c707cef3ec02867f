-------------------------- MODULE MCEnergyTracker --------------------------
(* Small instances of EnergyTracker for TLC.                               *)
EXTENDS EnergyTracker

Earlier == [energy_in |-> 5, energy_out |-> 3, covered |-> 0]

MCFiles     == {NoFile, Corrupt, BadType, Earlier}
MCPowers    == {-1, 2}
=============================================================================
