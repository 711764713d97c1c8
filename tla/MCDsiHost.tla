----------------------------- MODULE MCDsiHost -----------------------------
(***************************************************************************)
(* Instances of DsiHost for TLC.  Two clients, as the driver registers for *)
(* one display; the panel is a command or a video panel with ULPS, ULPS in *)
(* suspend and PHY idle power off in the combinations device trees use.    *)
(***************************************************************************)
EXTENDS DsiHost

MCClient == {"mdp", "dsi"}

MCConfigs ==
    {[mode |-> "cmd", ulps |-> "ON", susp |-> s, phyoff |-> p] : s \in Switch, p \in Switch}
    \cup {[mode |-> m, ulps |-> "OFF", susp |-> "OFF", phyoff |-> "OFF"] : m \in {"cmd", "vid"}}
    \cup {[mode |-> "vid", ulps |-> "ON", susp |-> "OFF", phyoff |-> "OFF"]}
=============================================================================
