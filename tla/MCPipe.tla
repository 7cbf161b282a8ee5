------------------------------- MODULE MCPipe -------------------------------
(* Two threads with every syscall; with a third, two readers and a writer, *)
(* none sleeps and no tid is reused.                                       *)
EXTENDS Pipe

ThirdThread == current > MaxTid => events = {} /\ recycled = <<>>
=============================================================================
