-------------------------- MODULE MCWebhookLedger --------------------------
(* A small instance of WebhookLedger: two redeliveries of one body, one of  *)
(* them under another id, a second body under the first id, and one other   *)
(* transaction that appends one key with either of two contents.            *)
EXTENDS WebhookLedger, TLC

CONSTANTS r1, r2, r3, w1

MCIdOf == r1 :> "d1" @@ r2 :> "d2" @@ r3 :> "d1"
MCBodyOf == r1 :> "b1" @@ r2 :> "b1" @@ r3 :> "b2"
MCKeyOf == w1 :> <<"k", "k">>

============================================================================
