---------------------------- MODULE MC_Requests ----------------------------
(***************************************************************************)
(* The servers as they are built, and with two error mappings that overlap.*)
(***************************************************************************)
EXTENDS Requests

Mapping(errors, code) ==
    [e \in Errors \ {"none"} |-> IF e \in errors THEN code ELSE NotSet]

NoneOrTwo ==
    {<<>>, <<Mapping({"denied", "alreadyExists"}, 400), Mapping({"denied", "other"}, 409)>>}
=============================================================================
