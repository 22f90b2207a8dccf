------------------------- MODULE MCComponentHandoff -------------------------
(* One composed object of each kind. *)
EXTENDS ComponentHandoff
CONSTANTS release, secret, alias, service, seed
KindOf ==
    [o \in Objects |->
        CASE o = release -> "direct" [] o = secret -> "inside"
          [] o = alias -> "outside" [] o = service -> "watched"
          [] OTHER -> "seeder"]
=============================================================================
