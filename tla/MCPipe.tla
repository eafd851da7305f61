------------------------------- MODULE MCPipe -------------------------------
(* Messages shorter than the pipe and as long as it. *)
EXTENDS Pipe

CONSTANTS report, shell, boot

MCLength == [w \in {report, shell, boot} |->
               IF w = report THEN 2 ELSE IF w = shell THEN 3 ELSE 4]
=============================================================================
