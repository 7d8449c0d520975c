-------------------------- MODULE MCServiceManager --------------------------
(***************************************************************************)
(* Two services with two revisions, each of which is a catch-all one for   *)
(* one of the services, two subnets and three addresses, one more than     *)
(* containers, so that a restarted container can get another address.  The *)
(* administrator's choices add the service whose name is part of the       *)
(* other's to that, remove it, and replace it while they remove the other. *)
(***************************************************************************)
EXTENDS ServiceManager

CONSTANTS s1, s12, r1, r2, n1, n2

MCServices == {s1, s12}
MCRevisions == {r1, r2}
Assignment(x, y) == [s \in MCServices |-> IF s = s1 THEN x ELSE y]
MCChoices == {Assignment(None, r2), Assignment(r1, r2), Assignment(r2, None)}
MCCatchAll == {<<s1, r1>>, <<s12, r2>>}
MCExact == {<<s, s>> : s \in MCServices}
\* "s1" occurs in "s12".
MCSubstring == MCExact \cup {<<s1, s12>>}
MCSubnets == {n1, n2}
MCIPs == 1..3
=============================================================================
