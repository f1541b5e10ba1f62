------------------------ MODULE MCControllerEffects ------------------------
(* An integration and a promotion that both write main, a program on main   *)
(* and its retry, a program that shares two resources with it, a delivery.  *)
EXTENDS ControllerEffects

MCOps == {"integrate", "promote", "build", "rebuild", "ship", "deliver"}
MCDeclared == [integrate |-> <<1>>, promote |-> <<1>>, build |-> <<1, 3, 4>>,
               rebuild |-> <<1, 3, 4>>, ship |-> <<2, 4, 3>>, deliver |-> <<5>>]
MCLogical == [integrate |-> "a", promote |-> "b", build |-> "c", rebuild |-> "c",
              ship |-> "d", deliver |-> "e"]
MCKind == [o \in MCOps |-> CASE o \in {"integrate", "promote"} -> "git"
                             [] o = "deliver" -> "remote"
                             [] OTHER -> "program"]
MCTarget == [o \in MCOps |-> IF o = "deliver" THEN "origin" ELSE "main"]
MCPrior == [o \in MCOps |-> IF o = "promote" THEN 1 ELSE 0]
MCNewHead == [o \in MCOps |-> MCPrior[o] + 1]
MCRefs == [main |-> 0, origin |-> 0]
=============================================================================
