---------------------------- MODULE MCChatTurn ----------------------------
EXTENDS ChatTurn, TLC

(* One field at a time, a disabling that demotes, and an enabling with a new password. *)
MCChanges ==
  LET Asked(role, password, active) == [role |-> role, password |-> password, active |-> active]
  IN  {Asked("admin", "keep", "keep"), Asked("user", "keep", "keep"), Asked("keep", "new", "keep"),
       Asked("keep", "keep", "on"), Asked("keep", "keep", "off"),
       Asked("user", "keep", "off"), Asked("keep", "new", "on")}

(* Users differ in nothing but their names. *)
Symmetry == Permutations(Users)
===========================================================================
