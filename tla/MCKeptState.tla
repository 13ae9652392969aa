---------------------------- MODULE MCKeptState ----------------------------
(***************************************************************************)
(* The three machines whose state outlives the callers that made it: the ring *)
(* file between processes and sessions (ShmOpen), the transport engine between *)
(* stops, link losses and resets (Transport), and the health state between    *)
(* the rounds of a soak (Soak).  They share no state, so a behaviour          *)
(* exercises one of them, the subject, and the states add up.                *)
(***************************************************************************)
EXTENDS ShmOpen, Transport, MCSoak

VARIABLE subject      \* the machine this behaviour is about

allVars == <<subject, vars, engineVars, soakVars>>

\* The machines that are not the subject start in one state.
KeptInit ==
  /\ subject \in {"file", "engine", "soak"}
  /\ Init /\ (subject # "file" => size = "absent" /\ deployment = CHOOSE d \in Deployments : TRUE)
  /\ EngineInit /\ (subject # "engine" => ~t.reorder)
  /\ SoakInit

KeptNext ==
  /\ UNCHANGED subject
  /\ \/ subject = "file" /\ Next /\ UNCHANGED <<engineVars, soakVars>>
     \/ subject = "engine" /\ EngineNext /\ UNCHANGED <<vars, soakVars>>
     \/ subject = "soak" /\ SoakNext /\ UNCHANGED <<vars, engineVars>>

KeptSpec == KeptInit /\ [][KeptNext]_allVars
=============================================================================
