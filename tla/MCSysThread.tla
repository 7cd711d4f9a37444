---------------------------- MODULE MCSysThread ----------------------------
(* Small instances of SysThreadBase: one or two controllers.                 *)
EXTENDS SysThreadBase

CONSTANTS c1, c2
One == {c1}
Two == {c1, c2}
=============================================================================
