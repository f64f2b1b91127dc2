---------------------------- MODULE MCConfirmation ----------------------------
(* Instances of Confirmation for TLC. *)
EXTENDS Confirmation

\* An exact payment's used nonce stays readable; an upto one's lapses right
\* after the authorization expires, and only kept history tells.
LongForExact == [exact |-> Horizon, upto |-> 0]

\* The used nonce lapses right after the authorization expires.
Short == [exact |-> 0, upto |-> 0]
===============================================================================
