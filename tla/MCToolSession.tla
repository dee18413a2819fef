--------------------------- MODULE MCToolSession ---------------------------
(* The finite instance of ToolSession is given by ToolSession.cfg. *)
EXTENDS ToolSession
=============================================================================
