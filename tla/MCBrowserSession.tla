-------------------------- MODULE MCBrowserSession --------------------------
(* The instance of BrowserSession that TLC checks: an admin, and a user who  *)
(* is in a group of the same name elsewhere.                                 *)
EXTENDS BrowserSession, TLC

CONSTANTS u1, u2

Admins == [cn |-> "Admins", ou |-> "Groups"]
OtherAdmins == [cn |-> "Admins", ou |-> "Branch"]

UserGroups == u1 :> {Admins} @@ u2 :> {OtherAdmins}

Setting(admin, editor, checker) ==
    [admin |-> admin, editor |-> editor, checker |-> checker]

Settings == {Setting(Admins, Empty, TRUE), Setting(Admins, OtherAdmins, FALSE),
             Setting(Bare("Admins"), OtherAdmins, TRUE)}
=============================================================================
