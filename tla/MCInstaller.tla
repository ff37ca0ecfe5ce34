---------------------------- MODULE MCInstaller ----------------------------
(* A small instance of Installer for TLC.                                  *)
EXTENDS Installer, TLC

CONSTANTS std, moved, apart, low, dflt, opt, home, blzbak, data

(* The settings the wizard proposes; the same with another storage; an     *)
(* installation of its own, whose path is under /home; and the proposed    *)
(* ones with a port that only root may bind.                               *)
Entered  == {std, moved, apart, low}
PathOf   == std :> opt @@ moved :> opt @@ apart :> home @@ low :> opt
BaseOf   == std :> blzbak @@ moved :> data @@ apart :> data @@ low :> blzbak
            @@ dflt :> blzbak
HomeOnly == {home}
LowPort  == {low}
=============================================================================
