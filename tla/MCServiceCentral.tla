-------------------------- MODULE MCServiceCentral --------------------------
(***************************************************************************)
(* ServiceCentral for TLC, with the two services that websetup.py makes:   *)
(* the Task Manager depends on the Execution Service.                      *)
(***************************************************************************)
EXTENDS ServiceCentral

CONSTANTS task, exec

MCOrder == <<exec, task>>
MCDependsOn == {<<task, exec>>}
=============================================================================
