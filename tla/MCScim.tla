-------------------------------- MODULE MCScim --------------------------------
(* Small instance of Scim for TLC: two names, two roles, three users one after  *)
(* another or at once, two PATCH requests open.                                 *)
EXTENDS Scim

MCRoleScopeMap == [r \in {"editor", "guest"} |-> IF r = "editor" THEN {"publish:propose"} ELSE {}]

MCActive(value) == [path |-> "active", active |-> value, roles |-> Malformed]
MCRoles(value) == [path |-> "roles", active |-> "text", roles |-> value]
MCBroken == [path |-> "broken", active |-> "text", roles |-> Malformed]
MCOther == [path |-> "other", active |-> "text", roles |-> Malformed]

MCPatches ==
  {<<>>, <<MCActive("false")>>, <<MCActive("text")>>, <<MCRoles({"editor"})>>, <<MCRoles(Malformed)>>,
   <<MCOther, MCActive("true")>>, <<MCRoles({}), MCBroken, MCActive("false")>>,
   <<MCActive("false"), MCRoles(Malformed), MCActive("true"), MCActive("false")>>}

=============================================================================
