------------------------------ MODULE MCServer ------------------------------
(* Small instances of the HTTP front for TLC. *)
EXTENDS ServerProps, TLC

CONSTANTS c1, c2, c3

Post(path, body, items) ==
    [path |-> path, method |-> "POST", ctype |-> "json", body |-> body,
     items |-> items]

(* Three requests that all get as far as the queue *)
GoodClients ==
    (c1 :> Post("/push/apns", "good", 1))
    @@ (c2 :> Post("/push/fcm/v1", "good", 1))
    @@ (c3 :> Post("/push/apns", "good", 1))

(* Two of them, and one whose handler panics *)
MixedClients == [GoodClients EXCEPT ![c3].body = "misfit"]
=============================================================================
