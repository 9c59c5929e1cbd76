----------------------------- MODULE MCDelivery -----------------------------
(* Two overlapping dispatches that start at different times. *)
EXTENDS Delivery

OneMail == <<"email">>

TwoStarts == <<1, 2>>
=============================================================================
