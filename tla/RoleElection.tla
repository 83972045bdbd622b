---------------------------- MODULE RoleElection ----------------------------
(***************************************************************************)
(* What two boards of the periodic advertising demo promise: once they     *)
(* have found each other "they adopt complementary roles"                  *)
(* (BLE_PeriodicAdvertising/README.md:2).  A board takes a role once, for  *)
(* good, and never the role of the other one.                              *)
(***************************************************************************)
CONSTANT Boards

VARIABLE role

Init == role = [b \in Boards |-> "none"]

Adopt(b, r) ==
    /\ role[b] = "none"
    /\ \A other \in Boards \ {b} : role[other] # r
    /\ role' = [role EXCEPT ![b] = r]

Next == \E b \in Boards, r \in {"scanner", "advertiser"} : Adopt(b, r)

Spec == Init /\ [][Next]_role
=============================================================================
