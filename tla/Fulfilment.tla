------------------------------ MODULE Fulfilment ------------------------------
(***************************************************************************)
(* What the shop is promised by orders.service.ts: a delivery that is      *)
(* still open is kept, with an account no other delivery has, or refused,  *)
(* and neither is taken back.  The error "email_send" of an order that is  *)
(* saved counts as kept.                                                   *)
(***************************************************************************)
CONSTANTS Deliveries, Accounts

VARIABLES outcome, account

FInit ==
  /\ outcome = [d \in Deliveries |-> "open"]
  /\ account = [d \in Deliveries |-> {}]

KeepOrder(d) ==
  /\ outcome[d] = "open"
  /\ \E a \in Accounts :
       /\ \A e \in Deliveries : a \notin account[e]
       /\ account' = [account EXCEPT ![d] = {a}]
  /\ outcome' = [outcome EXCEPT ![d] = "kept"]

RefuseOrder(d) ==
  /\ outcome[d] = "open"
  /\ outcome' = [outcome EXCEPT ![d] = "refused"]
  /\ UNCHANGED account

FNext == \E d \in Deliveries : KeepOrder(d) \/ RefuseOrder(d)

FSpec == FInit /\ [][FNext]_<<outcome, account>>
=============================================================================
