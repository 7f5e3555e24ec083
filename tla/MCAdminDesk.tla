---------------------------- MODULE MCAdminDesk ----------------------------
(***************************************************************************)
(* All eight edit conversations, and two old menus, which is what two      *)
(* dialogues at once take; the third slot is for the message an answer     *)
(* brings.  Two events let an answer reach the wrong one.                  *)
(***************************************************************************)
EXTENDS AdminDesk

MCFields == ToSet(EditOrder)
MCSlots == 1 .. 3
MCMenus == 1 .. 2
=============================================================================
