------------------------------ MODULE MCP3Machine ------------------------------
(***************************************************************************)
(* Two functions of different frame sizes, two stacks, one jump buffer.    *)
(***************************************************************************)
EXTENDS P3Machine, TLC

CONSTANTS main, f, service, host_call

MCFunctions == {main, f}
MCServices == {service}
MCDesc == main :> 10 @@ f :> 12 @@ service :> 14 @@ host_call :> 16
MCSpillWords == main :> 0 @@ f :> 1
MCStackTops == <<150, 84>>
=============================================================================
