---------------------------- MODULE MCGxmDisplay ----------------------------
(* One guest thread that draws and drains the display queue, one that       *)
(* presents, and two frame buffers.                                         *)
EXTENDS GxmDisplay

CONSTANTS g1, g2, b1, b2

MCDrawers == {g1}
MCPresenters == {g2}
MCDrainers == {g1}
MCBuffers == {b1, b2}
=============================================================================
