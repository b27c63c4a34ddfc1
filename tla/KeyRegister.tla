---------------------------- MODULE KeyRegister ----------------------------
(***************************************************************************)
(* What key setup promises an account, without requests or wrapping: its   *)
(* data encryption key is chosen once, and a device that learns a key from *)
(* the server learns that one.                                             *)
(***************************************************************************)
EXTENDS Naturals

CONSTANT Devices

VARIABLES chosen,   \* the account's key, 0 before there is one
          learned   \* the key each device got from the server, or 0

Init == chosen \in Nat /\ learned = [d \in Devices |-> 0]

Choose == chosen = 0 /\ chosen' \in Nat \ {0} /\ UNCHANGED learned

Learn(d) ==
  /\ chosen # 0
  /\ learned' = [learned EXCEPT ![d] = chosen]
  /\ UNCHANGED chosen

\* Reloading the page or logging out.
Forget(d) == learned' = [learned EXCEPT ![d] = 0] /\ UNCHANGED chosen

Next == Choose \/ \E d \in Devices : Learn(d) \/ Forget(d)

Spec == Init /\ [][Next]_<<chosen, learned>>
=============================================================================
