------------------------ MODULE InvitationDeliveryMC ------------------------
(* Small instances of InvitationDelivery for TLC. *)
EXTENDS InvitationDelivery, TLC

AnyTab == Permutations(Requests)
=============================================================================
